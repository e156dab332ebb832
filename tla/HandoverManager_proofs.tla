----------------------- MODULE HandoverManager_proofs -----------------------
(***************************************************************************)
(* Proofs about the shim layer, for every constellation, set of stations,  *)
(* hop limit and number of handovers.                                      *)
(***************************************************************************)
EXTENDS HandoverManagerProperties, SequenceTheorems, TLAPS

Channels == [Node -> [Link -> Seq(Message)]]

----------------------------------------------------------------------------
(* Lemmas about the operators of the model.                                *)

\* The four kinds of packet are messages.
LEMMA MessageKinds ==
  /\ \A p \in NdnPacket : Ndn(p) \in Message /\ LinkPayload(p) \in Message
  /\ \A id \in UserLink : TunnelAck(id) \in Message
  /\ \A id \in UserLink, h \in 1..HopLimit : TunnelReq(id, h) \in Message
BY DEF Message, Ndn, LinkPayload, TunnelAck, TunnelReq, NdnPacket

\* The types of tables and channels by themselves, before and after a step.
LEMMA Typed ==
  ASSUME TypeOK
  PROVE  /\ userLink \in Seq(Station \X Sat) /\ chan \in Channels
         /\ prt \in [Node -> [UserLink -> Link \cup {Null, Absent}]]
         /\ tib \in [Node -> [UserLink ->
                      ((Link \cup {Null}) \X (Link \cup {Null})) \cup {Absent}]]
         /\ \A n \in Node, id \in UserLink : dt[n][id] \in Seq(NdnPacket)
         /\ \A n \in Node, l \in Link : chan[n][l] \in Seq(Message)
<1>1. chan \in [Node -> [Link -> Seq(Message)]] /\ dt \in [Node -> [UserLink -> Seq(NdnPacket)]]
  BY DEF TypeOK
<1> QED BY <1>1 DEF TypeOK, Channels

LEMMA TypedNext ==
  ASSUME TypeOK'
  PROVE  /\ \A n \in Node, id \in UserLink : dt'[n][id] \in Seq(NdnPacket)
         /\ \A n \in Node, l \in Link : chan'[n][l] \in Seq(Message)
         /\ \A n \in Node, l \in Link : \A i \in DOMAIN chan'[n][l] :
              i \in Nat /\ i <= Len(chan'[n][l]) /\ chan'[n][l][i] \in Message
<1>1. chan' \in [Node -> [Link -> Seq(Message)]] /\ dt' \in [Node -> [UserLink -> Seq(NdnPacket)]]
  BY DEF TypeOK
<1>2. \A s \in Seq(Message) : \A i \in DOMAIN s : i \in Nat /\ i <= Len(s) /\ s[i] \in Message
  OBVIOUS
<1> QED BY <1>1, <1>2

\* One cell of a table of tables changes.
LEMMA CellChanged ==
  ASSUME NEW A, NEW B, NEW V, NEW f \in [A -> [B -> V]], NEW a \in A, NEW b \in B, NEW v
  PROVE  /\ [f EXCEPT ![a][b] = v][a][b] = v
         /\ \A x \in A, y \in B : ~(x = a /\ y = b) => [f EXCEPT ![a][b] = v][x][y] = f[x][y]
<1>1. [f EXCEPT ![a][b] = v] = [f EXCEPT ![a] = [f[a] EXCEPT ![b] = v]]
  OBVIOUS
<1>2. DOMAIN f = A /\ \A x \in A : DOMAIN f[x] = B
  OBVIOUS
<1>3. [f[a] EXCEPT ![b] = v][b] = v /\ \A y \in B : y # b => [f[a] EXCEPT ![b] = v][y] = f[a][y]
  BY <1>2
<1> QED BY <1>1, <1>2, <1>3

\* What a message of each kind carries.
LEMMA MessageFields ==
  ASSUME NEW m \in Message
  PROVE  /\ m.type \in {"Ndn", "LinkPayload"} => m.pkt \in NdnPacket
         /\ m.type \in {"LinkPayload", "TunnelReq", "TunnelAck"} => m.id \in UserLink
         /\ m.type = "TunnelReq" => m.hopLimit \in 1..HopLimit
BY DEF Message

\* Emitting messages keeps the channels well typed.
LEMMA EmitType ==
  ASSUME NEW ch \in Channels, NEW n \in Node, NEW l \in Link, NEW msgs \in Seq(Message)
  PROVE  Emit(ch, n, l, msgs) \in Channels
<1>1. ch[n][l] \o msgs \in Seq(Message)
  BY DEF Channels
<1> QED BY <1>1 DEF Emit, Channels

\* A broadcast keeps the channels well typed: a request never leaves a node
\* with no hops left or with more than m_hopLimit.
LEMMA BroadcastType ==
  ASSUME NEW ch \in Channels, NEW links, NEW gone, NEW n \in Node, NEW id \in UserLink,
         NEW h \in 0..HopLimit, NEW lasthop
  PROVE  BroadcastReq(ch, links, gone, n, id, h, lasthop) \in Channels
<1>1. HopsLeft(h) # 0 => HopsLeft(h) \in 1..HopLimit
  BY BoundAssumption DEF HopsLeft
<1>2. HopsLeft(h) # 0 => TunnelReq(id, HopsLeft(h)) \in Message
  BY <1>1, MessageKinds
<1>3. ASSUME NEW l \in Link, HopsLeft(h) # 0
      PROVE  Append(ch[n][l], TunnelReq(id, HopsLeft(h))) \in Seq(Message)
  BY <1>2, <1>3 DEF Channels
<1>4. [l \in Link |->
         IF HopsLeft(h) # 0 /\ l \in ReqDevices(links, gone, n, lasthop)
         THEN Append(ch[n][l], TunnelReq(id, HopsLeft(h)))
         ELSE ch[n][l]] \in [Link -> Seq(Message)]
  BY <1>3 DEF Channels
<1> QED BY <1>4 DEF BroadcastReq, Channels

\* The device a packet arrives by, its sender, the packet, and the channels
\* without it.
LEMMA ArrivalType ==
  ASSUME TypeOK, NEW n \in Node, NEW l \in Link, NEW t, Arrives(n, l, t)
  PROVE  /\ Peer(n, l) \in Node
         /\ Arriving(n, l) \in Message /\ Arriving(n, l).type = t
         /\ Received(n, l) \in Channels
<1>1. EndsOf(userLink, l)[1] \in Node /\ EndsOf(userLink, l)[2] \in Node
  <2>1. CASE l \in Isl
    BY <2>1, IslAssumption DEF EndsOf, Node
  <2>2. CASE l \notin Isl
    <3>1. l \in DOMAIN userLink
      BY <2>2 DEF Arrives, HasDevice
    <3>2. userLink[l] \in Station \X Sat
      BY <3>1 DEF TypeOK
    <3> QED BY <2>2, <3>2 DEF EndsOf, Node
  <2> QED BY <2>1, <2>2
<1>2. Peer(n, l) \in Node
  BY <1>1 DEF Peer
<1>3. chan[Peer(n, l)][l] \in Seq(Message) /\ chan[Peer(n, l)][l] # <<>>
  BY <1>2 DEF TypeOK, Arrives
<1>4. Head(chan[Peer(n, l)][l]) \in Message /\ Tail(chan[Peer(n, l)][l]) \in Seq(Message)
  BY <1>3
<1>5. Received(n, l) \in Channels
  BY <1>2, <1>4 DEF Received, Channels, TypeOK
<1> QED BY <1>2, <1>4, <1>5 DEF Arriving, Arrives

----------------------------------------------------------------------------
(* Type correctness.                                                       *)

LEMMA InitType == Init => TypeOK
BY BoundAssumption DEF Init, TypeOK

\* What attaching a station to a satellite preserves.
LEMMA AttachType ==
  ASSUME TypeOK, NEW st \in Station, NEW s \in Sat, NewId <= MaxLink
  PROVE  /\ NewId \in UserLink
         /\ Append(userLink, <<st, s>>) \in Seq(Station \X Sat)
         /\ Len(Append(userLink, <<st, s>>)) <= MaxLink
         /\ AddUserLink(idList, st, s) \in [Node -> SUBSET UserLink]
         /\ RecordFace(st, s) \in [Node -> SUBSET UserLink]
<1>1. userLink \in Seq(Station \X Sat) /\ <<st, s>> \in Station \X Sat
  BY DEF TypeOK
<1>2. NewId \in UserLink
  BY <1>1, BoundAssumption DEF NewId, UserLink
<1>3. Append(userLink, <<st, s>>) \in Seq(Station \X Sat)
  BY <1>1
<1>4. Len(Append(userLink, <<st, s>>)) = NewId
  BY <1>1 DEF NewId
<1> QED BY <1>2, <1>3, <1>4 DEF AddUserLink, RecordFace, TypeOK

LEMMA SendType ==
  ASSUME TypeOK, NEW n \in Node, NEW id \in UserLink, CanSend(n, id)
  PROVE  /\ NextPacket(n, id) \in NdnPacket
         /\ [sent EXCEPT ![n][id] = @ + 1] \in [Node -> [UserLink -> 0..MaxSend]]
<1>1. sent[n][id] \in 0..MaxSend /\ sent[n][id] < MaxSend
  BY DEF TypeOK, CanSend
<1>2. sent[n][id] + 1 \in 1..MaxSend /\ sent[n][id] + 1 \in 0..MaxSend
  BY <1>1, BoundAssumption
<1> QED BY <1>2 DEF NextPacket, NdnPacket, TypeOK

LEMMA TypeStep == TypeOK /\ [Next]_vars => TypeOK'
<1> SUFFICES ASSUME TypeOK, [Next]_vars PROVE TypeOK'
  OBVIOUS
<1> USE DEF linkVars, shimVars, ndnVars
<1>1. CASE UpdateStart
  BY <1>1 DEF UpdateStart, TypeOK
<1>2. ASSUME NEW st \in Station, Stay(st) PROVE TypeOK'
  BY <1>2 DEF Stay, TypeOK
<1>3. ASSUME NEW st \in Station, p2pDevice[st] # Null
      PROVE  /\ p2pDevice[st] \in UserLink
             /\ Detached(st) \in [Node -> SUBSET UserLink]
  BY <1>3 DEF TypeOK, Detached, Node
<1>4. ASSUME NEW st \in Station, Leave(st) PROVE TypeOK'
  <2>1. isGone' \in [Node -> SUBSET UserLink]
    BY <1>3, <1>4 DEF Leave
  <2>2. p2pDevice' \in [Node -> UserLink \cup {Null}]
    BY <1>4 DEF Leave, TypeOK
  <2> QED BY <1>4, <2>1, <2>2 DEF Leave, TypeOK
<1>5. ASSUME NEW st \in Station, NEW s \in Sat, Enter(st, s) PROVE TypeOK'
  <2>1. NewId <= MaxLink
    BY <1>5 DEF Enter
  <2>2. p2pDevice' \in [Node -> UserLink \cup {Null}]
    BY <1>5, <2>1, AttachType DEF Enter, TypeOK
  <2> QED BY <1>5, <2>1, <2>2, AttachType DEF Enter, TypeOK
<1>6. ASSUME NEW st \in Station, NEW s \in Sat, Move(st, s) PROVE TypeOK'
  <2>1. NewId <= MaxLink /\ p2pDevice[st] # Null
    BY <1>6 DEF Move
  <2>2. isGone' \in [Node -> SUBSET UserLink] /\ p2pDevice[st] \in UserLink
    BY <1>3, <1>6, <2>1 DEF Move
  <2>3. p2pDevice' \in [Node -> UserLink \cup {Null}]
    BY <1>6, <2>1, AttachType DEF Move, TypeOK
  <2>4. /\ userLink' \in Seq(Station \X Sat) /\ Len(userLink') <= MaxLink
        /\ idList' \in [Node -> SUBSET UserLink]
        /\ faceIdTable' \in [Node -> SUBSET UserLink]
    BY <1>6, <2>1, AttachType DEF Move
  <2>5. chan' \in Channels
    <3>1. chan \in Channels /\ 0 \in 0..HopLimit /\ st \in Node
      BY BoundAssumption DEF TypeOK, Channels, Node
    <3> QED BY <1>6, <2>2, <3>1, BroadcastType DEF Move
  <2>6. prt' \in [Node -> [UserLink -> Link \cup {Null, Absent}]]
    <3>1. [prt EXCEPT ![st][p2pDevice[st]] = Null]
            \in [Node -> [UserLink -> Link \cup {Null, Absent}]]
      BY <2>2 DEF TypeOK, Node
    <3>2. prt' = DestinationMark(prt, st, p2pDevice[st]) \/ prt' = prt
      BY <1>6 DEF Move
    <3> QED BY <3>1, <3>2 DEF DestinationMark, TypeOK
  <2>7. todo' \subseteq Station /\ UNCHANGED <<tib, dt, ndnVars>>
    BY <1>6 DEF Move, TypeOK
  <2> QED BY <2>2, <2>3, <2>4, <2>5, <2>6, <2>7 DEF TypeOK, Channels
<1>7. ASSUME NEW n \in Node, NEW id \in UserLink, SendDirect(n, id) PROVE TypeOK'
  <2>1. CanSend(n, id) /\ id \in Link
    BY <1>7 DEF SendDirect, Link
  <2>2. <<Ndn(NextPacket(n, id))>> \in Seq(Message)
    BY <2>1, SendType, MessageKinds
  <2>3. chan' \in Channels
    BY <1>7, <2>1, <2>2, EmitType DEF SendDirect, TypeOK, Channels
  <2> QED BY <1>7, <2>1, <2>3, SendType DEF SendDirect, TypeOK, Channels
<1>8. ASSUME NEW n \in Node, NEW id \in UserLink, SendBuffered(n, id) PROVE TypeOK'
  <2>1. CanSend(n, id)
    BY <1>8 DEF SendBuffered
  <2>2. Append(dt[n][id], NextPacket(n, id)) \in Seq(NdnPacket)
    BY <2>1, SendType DEF TypeOK
  <2> QED BY <1>8, <2>1, <2>2, SendType DEF SendBuffered, TypeOK
<1>9. ASSUME NEW n \in Node, NEW id \in UserLink, SendTunnelled(n, id) PROVE TypeOK'
  <2>1. CanSend(n, id)
    BY <1>9 DEF SendTunnelled
  <2>2. <<LinkPayload(NextPacket(n, id))>> \in Seq(Message)
    BY <2>1, SendType, MessageKinds
  <2>3. TunnelDevice(tib[n][id]) \in Link => chan' \in Channels
    BY <1>9, <2>2, EmitType DEF SendTunnelled, TypeOK, Channels
  <2>4. chan' \in Channels
    <3>1. TunnelDevice(tib[n][id]) \notin Link => chan' = chan
      BY <1>9 DEF SendTunnelled, Emit, TypeOK
    <3> QED BY <2>3, <3>1 DEF TypeOK, Channels
  <2> QED BY <1>9, <2>1, <2>4, SendType DEF SendTunnelled, TypeOK, Channels
<1>10. ASSUME NEW n \in Node, NEW l \in Link, ReceiveNdn(n, l) PROVE TypeOK'
  <2>1. Arriving(n, l).pkt \in NdnPacket /\ Received(n, l) \in Channels
    BY <1>10, ArrivalType, MessageFields DEF ReceiveNdn
  <2>2. handed' \in [Node -> [UserLink -> Seq(NdnPacket)]]
    <3>1. handed[n] \in [UserLink -> Seq(NdnPacket)]
      BY DEF TypeOK
    <3>2. l \in UserLink => Append(handed[n][l], Arriving(n, l).pkt) \in Seq(NdnPacket)
      BY <2>1, <3>1
    <3>3. [handed[n] EXCEPT ![l] = Append(@, Arriving(n, l).pkt)] \in [UserLink -> Seq(NdnPacket)]
      BY <3>1, <3>2
    <3> QED BY <1>10, <3>3 DEF ReceiveNdn, TypeOK
  <2> QED BY <1>10, <2>1, <2>2 DEF ReceiveNdn, TypeOK, Channels
<1>11. ASSUME NEW n \in Node, NEW l \in Link, ReqAtTarget(n, l) PROVE TypeOK'
  <2> DEFINE id == Arriving(n, l).id
  <2>1. id \in UserLink /\ Received(n, l) \in Channels
    BY <1>11, ArrivalType, MessageFields DEF ReqAtTarget
  <2>2. Answer(n, id) \in Seq(Message)
    <3>1. dt[n][id] \in Seq(NdnPacket)
      BY <2>1 DEF TypeOK
    <3>2. [i \in DOMAIN dt[n][id] |-> LinkPayload(dt[n][id][i])] \in Seq(Message)
      BY <3>1, MessageKinds
    <3>3. <<TunnelAck(id)>> \in Seq(Message)
      BY <2>1, MessageKinds
    <3> QED BY <3>2, <3>3 DEF Answer, FlushedPayloads
  <2>3. chan' \in Channels
    BY <1>11, <2>1, <2>2, EmitType DEF ReqAtTarget
  <2>4. TargetEntry(l) \in (Link \cup {Null}) \X (Link \cup {Null})
    BY DEF TargetEntry
  <2>5. tib' \in [Node -> [UserLink -> ((Link \cup {Null}) \X (Link \cup {Null})) \cup {Absent}]]
    BY <1>11, <2>1, <2>4 DEF ReqAtTarget, TypeOK
  <2>6. dt' \in [Node -> [UserLink -> Seq(NdnPacket)]] /\ idList' \in [Node -> SUBSET UserLink]
    BY <1>11, <2>1 DEF ReqAtTarget, BufferErased, TargetErased, TypeOK
  <2> QED BY <1>11, <2>3, <2>5, <2>6 DEF ReqAtTarget, TypeOK, Channels
<1>12. ASSUME NEW n \in Node, NEW l \in Link, ReqLoop(n, l) PROVE TypeOK'
  BY <1>12, ArrivalType DEF ReqLoop, TypeOK, Channels
<1>13. ASSUME NEW n \in Node, NEW l \in Link, ReqRelay(n, l) PROVE TypeOK'
  <2> DEFINE m == Arriving(n, l)
  <2>1. m.id \in UserLink /\ m.hopLimit \in 0..HopLimit /\ Received(n, l) \in Channels
    BY <1>13, ArrivalType, MessageFields DEF ReqRelay
  <2>2. chan' \in Channels
    BY <1>13, <2>1, BroadcastType DEF ReqRelay
  <2>3. prt' \in [Node -> [UserLink -> Link \cup {Null, Absent}]]
    BY <1>13, <2>1 DEF ReqRelay, Pending, TypeOK
  <2> QED BY <1>13, <2>2, <2>3 DEF ReqRelay, TypeOK, Channels
<1>14. ASSUME NEW n \in Node, NEW l \in Link, AckUnsolicited(n, l) PROVE TypeOK'
  BY <1>14, ArrivalType DEF AckUnsolicited, TypeOK, Channels
<1>15. ASSUME NEW n \in Node, NEW l \in Link, AckTaken(n, l) PROVE TypeOK'
  <2> DEFINE id == Arriving(n, l).id
  <2>1. id \in UserLink /\ Received(n, l) \in Channels /\ <<Arriving(n, l)>> \in Seq(Message)
    BY <1>15, ArrivalType, MessageFields DEF AckTaken
  <2>2. prt[n][id] \in Link \cup {Null}
    BY <1>15, <2>1 DEF AckTaken, TypeOK
  <2>3. chan' \in Channels
    BY <1>15, <2>1, <2>2, EmitType DEF AckTaken
  <2>4. RelayEntry(l, prt[n][id]) \in (Link \cup {Null}) \X (Link \cup {Null})
    BY <2>2 DEF RelayEntry
  <2>5. tib' \in [Node -> [UserLink -> ((Link \cup {Null}) \X (Link \cup {Null})) \cup {Absent}]]
    BY <1>15, <2>1, <2>4 DEF AckTaken, TypeOK
  <2>6. prt' \in [Node -> [UserLink -> Link \cup {Null, Absent}]]
    BY <1>15, <2>1 DEF AckTaken, TypeOK
  <2> QED BY <1>15, <2>3, <2>5, <2>6 DEF AckTaken, TypeOK, Channels
<1>16. ASSUME NEW n \in Node, NEW l \in Link, PayloadDiscarded(n, l) PROVE TypeOK'
  BY <1>16, ArrivalType, MessageFields DEF PayloadDiscarded, PayloadArrives, TypeOK, Channels
<1>17. ASSUME NEW n \in Node, NEW l \in Link, PayloadHandedUp(n, l) PROVE TypeOK'
  <2> DEFINE m == Arriving(n, l)
  <2>1. m.id \in UserLink /\ m.pkt \in NdnPacket /\ Received(n, l) \in Channels
    BY <1>17, ArrivalType, MessageFields DEF PayloadHandedUp, PayloadArrives
  <2>2. Append(handed[n][m.id], m.pkt) \in Seq(NdnPacket)
    BY <2>1 DEF TypeOK
  <2> QED BY <1>17, <2>1, <2>2 DEF PayloadHandedUp, TypeOK, Channels
<1>18. ASSUME NEW n \in Node, NEW l \in Link, PayloadRelayed(n, l) PROVE TypeOK'
  <2> DEFINE dev == PayloadDevice(tib[n][Arriving(n, l).id], l)
  <2>1. Received(n, l) \in Channels /\ <<Arriving(n, l)>> \in Seq(Message)
    BY <1>18, ArrivalType DEF PayloadRelayed, PayloadArrives
  <2>2. chan' = Emit(Received(n, l), n, dev, <<Arriving(n, l)>>)
    BY <1>18 DEF PayloadRelayed
  <2>3. dev \in Link => chan' \in Channels
    BY <2>1, <2>2, EmitType
  <2>4. dev \notin Link => chan' = Received(n, l)
    BY <2>1, <2>2 DEF Emit, Channels
  <2> QED BY <1>18, <2>1, <2>3, <2>4 DEF PayloadRelayed, TypeOK, Channels
<1>19. CASE UNCHANGED vars
  BY <1>19 DEF vars, TypeOK
<1> QED
  BY <1>1, <1>2, <1>4, <1>5, <1>6, <1>7, <1>8, <1>9, <1>10, <1>11, <1>12, <1>13, <1>14,
     <1>15, <1>16, <1>17, <1>18, <1>19
  DEF Next, UpdateStation, DoSend, Receive, ProcessPacket, ProcessAck

\* All variables keep their types.  In particular no node ever emits a
\* request with no hops left, which the next node would take for one to be
\* flooded with the full hop limit.
THEOREM TypeCorrect == Spec => []TypeOK
BY InitType, TypeStep, PTL DEF Spec

----------------------------------------------------------------------------
(* The ends of tunnels.                                                    *)

LEMMA FaceRecordedInit == Init => FaceRecorded
BY MarkerAssumption DEF Init, FaceRecorded, TunnelEndHasFace, Node

\* A node's face table never loses an entry.
LEMMA AddUserLinkGrows ==
  ASSUME TypeOK, NEW st \in Station, NEW s \in Sat, NEW n \in Node
  PROVE  /\ faceIdTable[n] \subseteq RecordFace(st, s)[n]
         /\ idList[n] \subseteq faceIdTable[n]
              => AddUserLink(idList, st, s)[n] \subseteq RecordFace(st, s)[n]
         /\ n \in {st, s} => NewId \in RecordFace(st, s)[n]
BY DEF AddUserLink, RecordFace

LEMMA FaceRecordedStep == TypeOK /\ FaceRecorded /\ [Next]_vars => FaceRecorded'
<1> SUFFICES ASSUME TypeOK, FaceRecorded, [Next]_vars PROVE FaceRecorded'
  OBVIOUS
<1> USE DEF linkVars, shimVars, ndnVars
<1>1. CASE UpdateStart
  BY <1>1 DEF UpdateStart, FaceRecorded, TunnelEndHasFace
<1>2. ASSUME NEW st \in Station, Stay(st) PROVE FaceRecorded'
  BY <1>2 DEF Stay, FaceRecorded, TunnelEndHasFace
<1>3. ASSUME NEW st \in Station, Leave(st) PROVE FaceRecorded'
  <2>1. ASSUME NEW u \in Station, p2pDevice'[u] # Null PROVE p2pDevice'[u] = p2pDevice[u]
    BY <1>3, <2>1 DEF Leave, TypeOK, Node
  <2> QED BY <1>3, <2>1 DEF Leave, FaceRecorded, TunnelEndHasFace
<1>4. ASSUME NEW st \in Station, NEW s \in Sat, Enter(st, s) PROVE FaceRecorded'
  <2>1. /\ faceIdTable' = RecordFace(st, s)
        /\ idList' = AddUserLink(idList, st, s)
        /\ UNCHANGED <<tib, prt>>
    BY <1>4 DEF Enter
  <2>2. TunnelEndHasFace'
    BY <2>1, AddUserLinkGrows DEF FaceRecorded, TunnelEndHasFace
  <2>3. \A u \in Station : p2pDevice'[u] # Null => p2pDevice'[u] \in faceIdTable'[u]
    <3>1. ASSUME NEW u \in Station, u # st PROVE p2pDevice'[u] = p2pDevice[u]
      BY <1>4, <3>1, NodeAssumption DEF Enter, TypeOK, Node
    <3>2. p2pDevice'[st] = NewId
      BY <1>4, NodeAssumption DEF Enter, TypeOK, Node
    <3> QED BY <2>1, <3>1, <3>2, AddUserLinkGrows DEF FaceRecorded, Node
  <2> QED BY <2>1, <2>2, <2>3, AddUserLinkGrows DEF FaceRecorded
<1>5. ASSUME NEW st \in Station, NEW s \in Sat, Move(st, s) PROVE FaceRecorded'
  <2>1. /\ faceIdTable' = RecordFace(st, s)
        /\ idList' = AddUserLink(idList, st, s)
        /\ tib' = tib /\ p2pDevice[st] # Null
    BY <1>5 DEF Move
  <2>2. TunnelEndHasFace'
    BY <2>1, AddUserLinkGrows DEF FaceRecorded, TunnelEndHasFace
  <2>3. \A u \in Station : p2pDevice'[u] # Null => p2pDevice'[u] \in faceIdTable'[u]
    <3>1. ASSUME NEW u \in Station, u # st, p2pDevice'[u] # Null
          PROVE  p2pDevice'[u] = p2pDevice[u]
      BY <1>5, <3>1, NodeAssumption DEF Move, TypeOK, Node
    <3>2. p2pDevice'[st] = NewId
      BY <1>5, NodeAssumption DEF Move, TypeOK, Node
    <3> QED BY <2>1, <3>1, <3>2, AddUserLinkGrows DEF FaceRecorded, Node
  <2>4. \A n \in Node, id \in UserLink : prt'[n][id] = Null => id \in faceIdTable'[n]
    <3>1. ASSUME NEW n \in Node, NEW id \in UserLink, prt'[n][id] = Null
          PROVE  prt[n][id] = Null \/ (n = st /\ id = p2pDevice[st])
      <4>1. prt' = [prt EXCEPT ![st][p2pDevice[st]] = Null] \/ prt' = prt
        BY <1>5 DEF Move, DestinationMark
      <4>2. ASSUME prt' = [prt EXCEPT ![st][p2pDevice[st]] = Null], prt[n][id] # Null
            PROVE  n = st /\ id = p2pDevice[st]
        <5>2. p2pDevice[st] \in UserLink /\ st \in Node
          BY <1>5, NodeAssumption DEF Move, TypeOK, Node
        <5>3. ~(n = st /\ id = p2pDevice[st]) => prt'[n][id] = prt[n][id]
          BY <4>2, <5>2, Typed, CellChanged
        <5> QED BY <3>1, <4>2, <5>3
      <4> QED BY <3>1, <4>1, <4>2
    <3> QED BY <2>1, <3>1, AddUserLinkGrows DEF FaceRecorded, Node
  <2> QED BY <2>1, <2>2, <2>3, <2>4, AddUserLinkGrows DEF FaceRecorded
<1>6. ASSUME NEW n \in Node, NEW id \in UserLink, DoSend(n, id) PROVE FaceRecorded'
  BY <1>6 DEF DoSend, SendDirect, SendTunnelled, SendBuffered, FaceRecorded, TunnelEndHasFace
<1>7. ASSUME NEW n \in Node, NEW l \in Link, ReqAtTarget(n, l) PROVE FaceRecorded'
  <2> DEFINE id == Arriving(n, l).id
  <2>1. id \in UserLink
    BY <1>7, ArrivalType, MessageFields DEF ReqAtTarget
  <2>2. id \in faceIdTable[n]
    BY <1>7 DEF ReqAtTarget, FaceRecorded
  <2>3. ASSUME NEW m \in Node, NEW i \in UserLink
        PROVE  \/ tib'[m][i] = tib[m][i]
               \/ m = n /\ i = id /\ tib'[m][i] = <<Null, l>>
    BY <1>7, <2>1 DEF ReqAtTarget, TypeOK, TargetEntry
  <2>4. TunnelEndHasFace'
    BY <1>7, <2>2, <2>3, MarkerAssumption DEF ReqAtTarget, FaceRecorded, TunnelEndHasFace
  <2>5. \A m \in Node : idList'[m] \subseteq idList[m]
    BY <1>7 DEF ReqAtTarget, TargetErased, TypeOK
  <2> QED BY <1>7, <2>4, <2>5 DEF ReqAtTarget, FaceRecorded
<1>8. ASSUME NEW n \in Node, NEW l \in Link, ReqRelay(n, l) PROVE FaceRecorded'
  <2>1. ASSUME NEW m \in Node, NEW i \in UserLink, prt'[m][i] = Null PROVE prt[m][i] = Null
    BY <1>8, <2>1, MarkerAssumption DEF ReqRelay, Pending, TypeOK
  <2> QED BY <1>8, <2>1 DEF ReqRelay, FaceRecorded, TunnelEndHasFace
<1>9. ASSUME NEW n \in Node, NEW l \in Link, AckTaken(n, l) PROVE FaceRecorded'
  <2> DEFINE id == Arriving(n, l).id
  <2>1. id \in UserLink
    BY <1>9, ArrivalType, MessageFields DEF AckTaken
  <2>2. prt[n][id] = Null => id \in faceIdTable[n]
    BY <2>1 DEF FaceRecorded
  <2>3. ASSUME NEW m \in Node, NEW i \in UserLink
        PROVE  \/ tib'[m][i] = tib[m][i]
               \/ m = n /\ i = id /\ tib'[m][i] = <<l, prt[n][id]>>
    BY <1>9, <2>1 DEF AckTaken, TypeOK, RelayEntry
  <2>4. TunnelEndHasFace'
    BY <1>9, <2>2, <2>3, MarkerAssumption DEF AckTaken, FaceRecorded, TunnelEndHasFace
  <2>5. ASSUME NEW m \in Node, NEW i \in UserLink, prt'[m][i] = Null PROVE prt[m][i] = Null
    BY <1>9, <2>5, MarkerAssumption DEF AckTaken, TypeOK
  <2> QED BY <1>9, <2>4, <2>5 DEF AckTaken, FaceRecorded
<1>10. ASSUME NEW n \in Node, NEW l \in Link,
              \/ ReceiveNdn(n, l) \/ ReqLoop(n, l) \/ AckUnsolicited(n, l)
              \/ PayloadDiscarded(n, l) \/ PayloadHandedUp(n, l) \/ PayloadRelayed(n, l)
       PROVE  FaceRecorded'
  BY <1>10 DEF ReceiveNdn, ReqLoop, AckUnsolicited, PayloadDiscarded, PayloadHandedUp,
               PayloadRelayed, FaceRecorded, TunnelEndHasFace
<1>11. CASE UNCHANGED vars
  BY <1>11 DEF vars, FaceRecorded, TunnelEndHasFace
<1> QED
  BY <1>1, <1>2, <1>3, <1>4, <1>5, <1>6, <1>7, <1>8, <1>9, <1>10, <1>11
  DEF Next, UpdateStation, Receive, ProcessPacket, ProcessAck

----------------------------------------------------------------------------
(* A satellite keeps no packet in m_dt behind an established tunnel, also  *)
(* where copies of a request run in circles.  The flush is in the branch   *)
(* of ProcessPacket for requests; an ack sets a TIB entry without flushing.*)
(* What has to be shown is that no ack does so at a satellite that has     *)
(* buffered: until that satellite answers, its m_idList keeps it from      *)
(* relaying the request, and acks are taken only where a relayed request   *)
(* is pending.                                                             *)

\* Messages, of which a request is about a user link there is.
Known(links) == {m \in Message : m.type = "TunnelReq" => m.id \in DOMAIN links}
KnownChannels(links) == [Node -> [Link -> Seq(Known(links))]]

LinksKnown ==
  /\ chan \in KnownChannels(userLink)
  /\ \A n \in Node, id \in UserLink : prt[n][id] # Absent => id \in DOMAIN userLink
  /\ \A st \in Station : p2pDevice[st] # Null => p2pDevice[st] \in DOMAIN userLink

\* The satellite of a user link is a target for it until it has a TIB entry.
TargetOrTunnel ==
  \A id \in DOMAIN userLink :
    id \in idList[userLink[id][2]] \/ tib[userLink[id][2]][id] # Absent

TargetNotRelay ==
  \A s \in Sat, id \in UserLink : id \in idList[s] => prt[s][id] = Absent

BufferWaits ==
  \A s \in Sat, id \in UserLink :
    dt[s][id] # <<>> =>
      id \in DOMAIN userLink /\ s = userLink[id][2] /\ tib[s][id] = Absent

BufferInv == LinksKnown /\ TargetOrTunnel /\ TargetNotRelay /\ BufferWaits

----------------------------------------------------------------------------
(* Lemmas about the channels.                                              *)

\* Only requests need their link to be known.
LEMMA KnownKinds ==
  ASSUME NEW links
  PROVE  /\ \A p \in NdnPacket : Ndn(p) \in Known(links) /\ LinkPayload(p) \in Known(links)
         /\ \A id \in UserLink : TunnelAck(id) \in Known(links)
         /\ \A id \in UserLink \cap DOMAIN links, h \in 1..HopLimit :
              TunnelReq(id, h) \in Known(links)
BY MessageKinds DEF Known, Ndn, LinkPayload, TunnelAck, TunnelReq

\* The shape of userLink, and its growth by one link.
LEMMA LinkNumbers ==
  ASSUME TypeOK
  PROVE  /\ DOMAIN userLink \subseteq UserLink
         /\ NewId \notin DOMAIN userLink
         /\ \A id \in DOMAIN userLink : userLink[id][1] \in Station /\ userLink[id][2] \in Sat
         /\ \A x : LET links == Append(userLink, x)
                   IN  /\ DOMAIN links = DOMAIN userLink \cup {NewId}
                       /\ \A id \in DOMAIN userLink : links[id] = userLink[id]
                       /\ links[NewId] = x
<1>1. userLink \in Seq(Station \X Sat) /\ Len(userLink) <= MaxLink /\ Len(userLink) \in Nat
  BY DEF TypeOK
<1>2. DOMAIN userLink = 1..Len(userLink)
  BY <1>1
<1> QED BY <1>1, <1>2, BoundAssumption DEF NewId, UserLink

\* Channels stay known when a link is created.
LEMMA KnownGrows ==
  ASSUME TypeOK, NEW ch \in KnownChannels(userLink), NEW x
  PROVE  ch \in KnownChannels(Append(userLink, x))
<1>1. Known(userLink) \subseteq Known(Append(userLink, x))
  BY LinkNumbers DEF Known
<1>2. Seq(Known(userLink)) \subseteq Seq(Known(Append(userLink, x)))
  BY <1>1
<1> QED BY <1>2 DEF KnownChannels

\* Emitting known messages.
LEMMA KnownEmit ==
  ASSUME NEW links, NEW ch \in KnownChannels(links), NEW n \in Node, NEW l,
         NEW msgs \in Seq(Known(links))
  PROVE  Emit(ch, n, l, msgs) \in KnownChannels(links)
<1>1. CASE l \in Link
  <2>1. ch[n][l] \o msgs \in Seq(Known(links))
    BY <1>1 DEF KnownChannels
  <2> QED BY <1>1, <2>1 DEF Emit, KnownChannels
<1>2. CASE l \notin Link
  BY <1>2 DEF Emit, KnownChannels
<1> QED BY <1>1, <1>2

\* Broadcasting a request about a known link.
LEMMA KnownBroadcast ==
  ASSUME NEW links, NEW ch \in KnownChannels(links), NEW gone, NEW n \in Node,
         NEW id \in UserLink \cap DOMAIN links, NEW h \in 0..HopLimit, NEW lasthop
  PROVE  BroadcastReq(ch, links, gone, n, id, h, lasthop) \in KnownChannels(links)
<1>1. HopsLeft(h) # 0 => HopsLeft(h) \in 1..HopLimit
  BY BoundAssumption DEF HopsLeft
<1>2. HopsLeft(h) # 0 => TunnelReq(id, HopsLeft(h)) \in Known(links)
  BY <1>1, KnownKinds
<1>3. ASSUME NEW l \in Link, HopsLeft(h) # 0
      PROVE  Append(ch[n][l], TunnelReq(id, HopsLeft(h))) \in Seq(Known(links))
  BY <1>2, <1>3 DEF KnownChannels
<1>4. [l \in Link |->
         IF HopsLeft(h) # 0 /\ l \in ReqDevices(links, gone, n, lasthop)
         THEN Append(ch[n][l], TunnelReq(id, HopsLeft(h)))
         ELSE ch[n][l]] \in [Link -> Seq(Known(links))]
  BY <1>3 DEF KnownChannels
<1> QED BY <1>4 DEF BroadcastReq, KnownChannels

\* The packet that arrives, and the channels without it.
LEMMA KnownArrival ==
  ASSUME TypeOK, chan \in KnownChannels(userLink),
         NEW n \in Node, NEW l \in Link, NEW t, Arrives(n, l, t)
  PROVE  /\ Arriving(n, l) \in Known(userLink) /\ <<Arriving(n, l)>> \in Seq(Known(userLink))
         /\ t = "TunnelReq" => Arriving(n, l).id \in DOMAIN userLink
         /\ Received(n, l) \in KnownChannels(userLink)
<1>1. Peer(n, l) \in Node /\ Arriving(n, l).type = t
  BY ArrivalType
<1>2. chan[Peer(n, l)][l] \in Seq(Known(userLink)) /\ chan[Peer(n, l)][l] # <<>>
  BY <1>1 DEF KnownChannels, Arrives
<1>3. /\ Head(chan[Peer(n, l)][l]) \in Known(userLink)
      /\ Tail(chan[Peer(n, l)][l]) \in Seq(Known(userLink))
  BY <1>2
<1>4. Received(n, l) \in KnownChannels(userLink)
  BY <1>1, <1>3 DEF Received, KnownChannels
<1> QED BY <1>1, <1>3, <1>4 DEF Arriving, Known

\* A TIB entry is not the absence of one.
LEMMA EntryPresent ==
  \A a, b \in Link \cup {Null} : <<a, b>> # Absent
BY MarkerAssumption

----------------------------------------------------------------------------
(* The invariant.                                                          *)

LEMMA BufferInit == Init => BufferInv
<1> SUFFICES ASSUME Init PROVE BufferInv
  OBVIOUS
<1>1. LinksKnown
  <2>1. <<>> \in Seq(Known(userLink))
    OBVIOUS
  <2> QED BY <2>1 DEF Init, LinksKnown, KnownChannels, Node
<1>2. TargetOrTunnel /\ TargetNotRelay /\ BufferWaits
  BY DEF Init, TargetOrTunnel, TargetNotRelay, BufferWaits, Node
<1> QED BY <1>1, <1>2 DEF BufferInv

\* What Enter and Move have in common: a new link, of which its satellite
\* becomes a target.
LEMMA AttachBuffer ==
  ASSUME TypeOK, BufferInv, NEW st \in Station, NEW s \in Sat, NewId <= MaxLink,
         userLink' = Append(userLink, <<st, s>>), idList' = AddUserLink(idList, st, s),
         tib' = tib, dt' = dt, \A t \in Sat : prt'[t] = prt[t]
  PROVE  TargetOrTunnel' /\ TargetNotRelay' /\ BufferWaits'
<1> USE DEF BufferInv
<1>1. TargetOrTunnel'
  <2>1. ASSUME NEW id \in DOMAIN userLink
        PROVE  id \in idList'[userLink'[id][2]] \/ tib'[userLink'[id][2]][id] # Absent
    BY <2>1, LinkNumbers DEF TargetOrTunnel, AddUserLink, Node
  <2>2. NewId \in idList'[userLink'[NewId][2]]
    <3>1. userLink'[NewId][2] = s /\ s \in Node
      BY LinkNumbers DEF Node
    <3>2. idList[s] \cup {NewId} = idList'[s]
      BY <3>1 DEF AddUserLink, TypeOK
    <3> QED BY <3>1, <3>2
  <2>3. DOMAIN userLink' = DOMAIN userLink \cup {NewId}
    BY LinkNumbers
  <2> QED BY <2>1, <2>2, <2>3 DEF TargetOrTunnel
<1>2. TargetNotRelay'
  <2>1. ASSUME NEW t \in Sat, NEW id \in UserLink, id \in idList'[t]
        PROVE  id \in idList[t] \/ id = NewId
    BY <2>1 DEF AddUserLink, Node
  <2>2. ASSUME NEW t \in Sat PROVE prt[t][NewId] = Absent
    BY <2>2, LinkNumbers, AttachType DEF LinksKnown, Node
  <2> QED BY <2>1, <2>2 DEF TargetNotRelay
<1>3. BufferWaits'
  BY LinkNumbers DEF BufferWaits
<1> QED BY <1>1, <1>2, <1>3

LEMMA BufferStep == TypeOK /\ BufferInv /\ [Next]_vars => BufferInv'
<1> SUFFICES ASSUME TypeOK, BufferInv, [Next]_vars PROVE BufferInv'
  OBVIOUS
<1> USE DEF linkVars, shimVars, ndnVars
<1>a. LinksKnown /\ TargetOrTunnel /\ TargetNotRelay /\ BufferWaits
  BY DEF BufferInv
<1>1. CASE UpdateStart
  BY <1>1 DEF UpdateStart, BufferInv, LinksKnown, TargetOrTunnel, TargetNotRelay, BufferWaits
<1>2. ASSUME NEW st \in Station, Stay(st) PROVE BufferInv'
  BY <1>2 DEF Stay, BufferInv, LinksKnown, TargetOrTunnel, TargetNotRelay, BufferWaits
<1>3. ASSUME NEW st \in Station, Leave(st) PROVE BufferInv'
  <2>1. ASSUME NEW u \in Station, p2pDevice'[u] # Null PROVE p2pDevice'[u] = p2pDevice[u]
    BY <1>3, <2>1 DEF Leave, TypeOK, Node
  <2> QED
    BY <1>3, <2>1
    DEF Leave, BufferInv, LinksKnown, TargetOrTunnel, TargetNotRelay, BufferWaits
<1>4. ASSUME NEW st \in Station, NEW s \in Sat, Enter(st, s) PROVE BufferInv'
  <2>1. /\ NewId <= MaxLink /\ userLink' = Append(userLink, <<st, s>>)
        /\ idList' = AddUserLink(idList, st, s)
        /\ UNCHANGED <<tib, dt, prt, chan>>
    BY <1>4 DEF Enter
  <2>2. chan' \in KnownChannels(userLink')
    BY <1>a, <2>1, KnownGrows DEF LinksKnown
  <2>3. \A n \in Node, id \in UserLink : prt'[n][id] # Absent => id \in DOMAIN userLink'
    BY <1>a, <2>1, LinkNumbers DEF LinksKnown
  <2>4. ASSUME NEW u \in Station, p2pDevice'[u] # Null PROVE p2pDevice'[u] \in DOMAIN userLink'
    <3>1. p2pDevice'[u] = NewId \/ p2pDevice'[u] = p2pDevice[u]
      BY <1>4 DEF Enter, TypeOK, Node
    <3> QED BY <1>a, <2>1, <2>4, <3>1, LinkNumbers DEF LinksKnown
  <2>5. LinksKnown'
    BY <2>2, <2>3, <2>4 DEF LinksKnown
  <2> QED BY <2>1, <2>5, AttachBuffer DEF BufferInv
<1>5. ASSUME NEW st \in Station, NEW s \in Sat, Move(st, s) PROVE BufferInv'
  <2> DEFINE oldId == p2pDevice[st]
  <2>1. /\ NewId <= MaxLink /\ oldId # Null /\ userLink' = Append(userLink, <<st, s>>)
        /\ idList' = AddUserLink(idList, st, s)
        /\ UNCHANGED <<tib, dt>>
    BY <1>5 DEF Move
  <2>2. oldId \in DOMAIN userLink /\ oldId \in UserLink
    BY <1>a, <2>1, LinkNumbers DEF LinksKnown
  <2>3. chan' \in KnownChannels(userLink')
    <3>1. chan \in KnownChannels(userLink') /\ oldId \in DOMAIN userLink'
      BY <1>a, <2>1, <2>2, KnownGrows, LinkNumbers DEF LinksKnown
    <3>2. /\ 0 \in 0..HopLimit /\ st \in Node
          /\ \/ chan' = BroadcastReq(chan, userLink', Detached(st)[st], st, oldId, 0, Null)
             \/ chan' = chan
      BY <1>5, BoundAssumption DEF Move, Node
    <3> QED BY <2>2, <3>1, <3>2, KnownBroadcast
  <2>4. prt' = prt \/ prt' = [prt EXCEPT ![st][oldId] = Null]
    BY <1>5 DEF Move, DestinationMark
  <2>5. \A n \in Node, id \in UserLink : prt'[n][id] # Absent => id \in DOMAIN userLink'
    <3>1. ASSUME NEW n \in Node, NEW id \in UserLink, prt'[n][id] # Absent
          PROVE  prt[n][id] # Absent \/ id = oldId
      <4>1. CASE prt' = prt
        BY <3>1, <4>1
      <4>2. CASE prt' = [prt EXCEPT ![st][oldId] = Null]
        BY <2>2, <3>1, <4>2 DEF TypeOK, Node
      <4> QED BY <2>4, <4>1, <4>2
    <3>2. DOMAIN userLink \subseteq DOMAIN userLink'
      BY <2>1, LinkNumbers
    <3>3. ASSUME NEW n \in Node, NEW id \in UserLink, prt[n][id] # Absent
          PROVE  id \in DOMAIN userLink
      BY <1>a, <3>3 DEF LinksKnown
    <3> QED BY <2>2, <3>1, <3>2, <3>3
  <2>6. ASSUME NEW t \in Sat PROVE prt'[t] = prt[t]
    BY <2>4, NodeAssumption DEF TypeOK, Node
  <2>7. ASSUME NEW u \in Station, p2pDevice'[u] # Null PROVE p2pDevice'[u] \in DOMAIN userLink'
    <3>1. p2pDevice'[u] = NewId \/ p2pDevice'[u] = p2pDevice[u] \/ p2pDevice'[u] = Null
      BY <1>5 DEF Move, TypeOK, Node
    <3> QED BY <1>a, <2>1, <2>7, <3>1, LinkNumbers DEF LinksKnown
  <2>8. LinksKnown'
    BY <2>3, <2>5, <2>7 DEF LinksKnown
  <2> QED BY <2>1, <2>6, <2>8, AttachBuffer DEF BufferInv
<1>6. ASSUME NEW n \in Node, NEW id \in UserLink, SendDirect(n, id) \/ SendTunnelled(n, id)
      PROVE  BufferInv'
  <2>1. CanSend(n, id)
    BY <1>6 DEF SendDirect, SendTunnelled
  <2>2. /\ <<Ndn(NextPacket(n, id))>> \in Seq(Known(userLink))
        /\ <<LinkPayload(NextPacket(n, id))>> \in Seq(Known(userLink))
    BY <2>1, SendType, KnownKinds
  <2>3. chan' \in KnownChannels(userLink)
    <3>1. chan \in KnownChannels(userLink)
      BY <1>a DEF LinksKnown
    <3>2. CASE SendDirect(n, id)
      <4>1. chan' = Emit(chan, n, id, <<Ndn(NextPacket(n, id))>>)
        BY <3>2 DEF SendDirect
      <4> QED BY <2>2, <3>1, <4>1, KnownEmit
    <3>3. CASE SendTunnelled(n, id)
      <4>1. chan' = Emit(chan, n, TunnelDevice(tib[n][id]), <<LinkPayload(NextPacket(n, id))>>)
        BY <3>3 DEF SendTunnelled
      <4> QED BY <2>2, <3>1, <4>1, KnownEmit
    <3> QED BY <1>6, <3>2, <3>3
  <2> QED
    BY <1>6, <1>a, <2>3
    DEF SendDirect, SendTunnelled, BufferInv, LinksKnown, TargetOrTunnel, TargetNotRelay, BufferWaits
<1>7. ASSUME NEW n \in Node, NEW id \in UserLink, SendBuffered(n, id) PROVE BufferInv'
  <2>1. n \in Sat => id \in DOMAIN userLink /\ n = userLink[id][2] /\ tib[n][id] = Absent
    BY <1>7, LinkNumbers, NodeAssumption DEF SendBuffered, CanSend
  <2>2. ASSUME NEW s \in Sat, NEW i \in UserLink
        PROVE  dt'[s][i] = dt[s][i] \/ (s = n /\ i = id)
    BY <1>7 DEF SendBuffered, TypeOK, Node
  <2>3. BufferWaits'
    BY <1>7, <1>a, <2>1, <2>2 DEF SendBuffered, BufferWaits
  <2> QED BY <1>7, <1>a, <2>3 DEF SendBuffered, BufferInv, LinksKnown, TargetOrTunnel, TargetNotRelay
<1>8. ASSUME NEW n \in Node, NEW l \in Link, ReqAtTarget(n, l) PROVE BufferInv'
  <2> DEFINE id == Arriving(n, l).id
  <2>1. id \in UserLink
    BY <1>8, ArrivalType, MessageFields DEF ReqAtTarget
  <2>2. chan' \in KnownChannels(userLink)
    <3>1. dt[n][id] \in Seq(NdnPacket)
      BY <2>1 DEF TypeOK
    <3>2. FlushedPayloads(n, id) \in Seq(Known(userLink))
      BY <3>1, KnownKinds DEF FlushedPayloads
    <3>3. Answer(n, id) \in Seq(Known(userLink))
      BY <2>1, <3>2, KnownKinds DEF Answer
    <3>4. Received(n, l) \in KnownChannels(userLink)
      BY <1>8, <1>a, KnownArrival DEF ReqAtTarget, LinksKnown
    <3> QED BY <1>8, <3>3, <3>4, KnownEmit DEF ReqAtTarget
  <2>3. ASSUME NEW m \in Node, NEW i \in UserLink, m # n \/ i # id
        PROVE  /\ tib'[m][i] = tib[m][i] /\ dt'[m][i] = dt[m][i]
               /\ i \in idList'[m] <=> i \in idList[m]
    BY <1>8, <2>1, <2>3 DEF ReqAtTarget, BufferErased, TargetErased, TypeOK
  <2>4. tib'[n][id] # Absent /\ dt'[n][id] = <<>> /\ id \notin idList'[n]
    BY <1>8, <2>1, EntryPresent DEF ReqAtTarget, BufferErased, TargetErased, TargetEntry, TypeOK
  <2>5. UNCHANGED <<userLink, p2pDevice, prt>>
    BY <1>8 DEF ReqAtTarget
  <2>6. LinksKnown'
    BY <1>a, <2>2, <2>5 DEF LinksKnown
  <2>7. TargetOrTunnel'
    BY <1>a, <2>3, <2>4, <2>5, LinkNumbers DEF TargetOrTunnel, Node
  <2>8. TargetNotRelay'
    BY <1>a, <2>3, <2>4, <2>5 DEF TargetNotRelay, Node
  <2>9. BufferWaits'
    BY <1>a, <2>3, <2>4, <2>5 DEF BufferWaits, Node
  <2> QED BY <2>6, <2>7, <2>8, <2>9 DEF BufferInv
<1>9. ASSUME NEW n \in Node, NEW l \in Link, ReqRelay(n, l) PROVE BufferInv'
  <2> DEFINE m == Arriving(n, l)
  <2>1. /\ m.id \in UserLink \cap DOMAIN userLink /\ m.hopLimit \in 0..HopLimit
        /\ Received(n, l) \in KnownChannels(userLink)
    BY <1>9, <1>a, ArrivalType, MessageFields, KnownArrival DEF ReqRelay, LinksKnown
  <2>2. chan' \in KnownChannels(userLink)
    BY <1>9, <2>1, KnownBroadcast DEF ReqRelay
  <2>3. ASSUME NEW k \in Node, NEW i \in UserLink
        PROVE  prt'[k][i] = prt[k][i] \/ (k = n /\ i = m.id)
    BY <1>9, <2>1 DEF ReqRelay, Pending, TypeOK
  <2>4. UNCHANGED <<userLink, p2pDevice, idList, tib, dt>> /\ m.id \notin idList[n]
    BY <1>9 DEF ReqRelay
  <2>5. LinksKnown'
    BY <1>a, <2>1, <2>2, <2>3, <2>4 DEF LinksKnown
  <2>6. TargetNotRelay'
    BY <1>a, <2>3, <2>4 DEF TargetNotRelay, Node
  <2> QED BY <1>a, <2>4, <2>5, <2>6 DEF BufferInv, TargetOrTunnel, BufferWaits
<1>10. ASSUME NEW n \in Node, NEW l \in Link, AckTaken(n, l) PROVE BufferInv'
  <2> DEFINE id == Arriving(n, l).id
  <2>1. id \in UserLink /\ prt[n][id] # Absent
    BY <1>10, ArrivalType, MessageFields DEF AckTaken
  <2>2. chan' \in KnownChannels(userLink)
    BY <1>10, <1>a, KnownArrival, KnownEmit DEF AckTaken, LinksKnown
  <2>3. ASSUME NEW k \in Node, NEW i \in UserLink, k # n \/ i # id
        PROVE  tib'[k][i] = tib[k][i] /\ prt'[k][i] = prt[k][i]
    BY <1>10, <2>1, <2>3 DEF AckTaken, TypeOK
  <2>4. tib'[n][id] # Absent /\ prt'[n][id] = Absent
    BY <1>10, <2>1, EntryPresent DEF AckTaken, RelayEntry, TypeOK
  <2>5. UNCHANGED <<userLink, p2pDevice, idList, dt>>
    BY <1>10 DEF AckTaken
  <2>6. LinksKnown'
    BY <1>a, <2>2, <2>3, <2>4, <2>5 DEF LinksKnown
  <2>7. TargetOrTunnel'
    BY <1>a, <2>3, <2>4, <2>5, LinkNumbers DEF TargetOrTunnel, Node
  <2>8. TargetNotRelay'
    BY <1>a, <2>3, <2>4, <2>5 DEF TargetNotRelay, Node
  <2>9. n \in Sat => dt[n][id] = <<>>
    BY <1>a, <2>1 DEF BufferWaits, TargetOrTunnel, TargetNotRelay
  <2>10. BufferWaits'
    BY <1>a, <2>3, <2>5, <2>9 DEF BufferWaits, Node
  <2> QED BY <2>6, <2>7, <2>8, <2>10 DEF BufferInv
<1>11. ASSUME NEW n \in Node, NEW l \in Link,
              \/ ReceiveNdn(n, l) \/ ReqLoop(n, l) \/ AckUnsolicited(n, l)
              \/ PayloadDiscarded(n, l) \/ PayloadHandedUp(n, l) \/ PayloadRelayed(n, l)
       PROVE  BufferInv'
  <2>1. \E t \in {"Ndn", "TunnelReq", "TunnelAck", "LinkPayload"} : Arrives(n, l, t)
    BY <1>11 DEF ReceiveNdn, ReqLoop, AckUnsolicited, PayloadArrives, PayloadDiscarded, PayloadHandedUp,
                 PayloadRelayed
  <2>2. /\ <<Arriving(n, l)>> \in Seq(Known(userLink))
        /\ Received(n, l) \in KnownChannels(userLink)
    BY <1>a, <2>1, KnownArrival DEF LinksKnown
  <2>3. chan' = Received(n, l) \/ \E dev : chan' = Emit(Received(n, l), n, dev, <<Arriving(n, l)>>)
    BY <1>11 DEF ReceiveNdn, ReqLoop, AckUnsolicited, PayloadDiscarded, PayloadHandedUp,
                 PayloadRelayed
  <2>4. chan' \in KnownChannels(userLink)
    BY <2>2, <2>3, KnownEmit
  <2>5. UNCHANGED <<userLink, p2pDevice, idList, prt, tib, dt>>
    BY <1>11 DEF ReceiveNdn, ReqLoop, AckUnsolicited, PayloadDiscarded, PayloadHandedUp,
                 PayloadRelayed
  <2> QED
    BY <1>a, <2>4, <2>5 DEF BufferInv, LinksKnown, TargetOrTunnel, TargetNotRelay, BufferWaits
<1>12. CASE UNCHANGED vars
  BY <1>12 DEF vars, BufferInv, LinksKnown, TargetOrTunnel, TargetNotRelay, BufferWaits
<1> QED
  BY <1>1, <1>2, <1>3, <1>4, <1>5, <1>6, <1>7, <1>8, <1>9, <1>10, <1>11, <1>12
  DEF Next, UpdateStation, DoSend, Receive, ProcessPacket, ProcessAck

\* The branch of ProcessPacket for acks, which sets a TIB entry and does not
\* flush m_dt, never does so at a satellite that has packets in m_dt for the
\* link: they all leave with the answer to the request.
THEOREM SatelliteBuffersFlushed == Spec => []SatelliteBufferFlushed
<1>1. TypeOK /\ BufferInv /\ [Next]_vars => (TypeOK /\ BufferInv)'
  BY TypeStep, BufferStep
<1>2. TypeOK /\ BufferInv => SatelliteBufferFlushed
  BY DEF BufferInv, BufferWaits, SatelliteBufferFlushed
<1> QED BY <1>1, <1>2, InitType, BufferInit, PTL DEF Spec

----------------------------------------------------------------------------
(* Only packets which waited in m_dt are ever discarded for want of a TIB  *)
(* entry.                                                                  *)
(*                                                                         *)
(* Each node knows only its own entries.  What makes them fit together is  *)
(* that a node hears of a tunnel from a node that knows it already: the    *)
(* ack that sets an entry comes from a node that has one, and is passed on *)
(* before any payload, on the same device, to a node that relayed the      *)
(* request and so either takes it or has an entry already.                 *)

\* The request, or the ack, for id has been at n.
Informed(n, id) == prt[n][id] # Absent \/ tib[n][id] # Absent

\* What is emitted on l behind the first i packets finds an entry for id.
FindsEntry(n, l, id, i) ==
  tib[Peer(n, l)][id] # Absent \/ \E j \in 1..i : chan[n][l][j] = TunnelAck(id)

\* The i-th packet from n on l.  The request comes from an informed node, the
\* ack goes from a node with an entry to an informed one, and payload that did
\* not wait in m_dt is behind the ack.
Fits(n, l, i, m) ==
  /\ HasDevice(userLink, n, l)
  /\ m.type = "TunnelReq" => Informed(n, m.id)
  /\ m.type = "TunnelAck" => tib[n][m.id] # Absent /\ Informed(Peer(n, l), m.id)
  /\ m.type = "LinkPayload" /\ m.pkt \notin buffered => FindsEntry(n, l, m.id, i - 1)

PacketFits(n, l, i) == Fits(n, l, i, chan[n][l][i])

\* The request a node has relayed came from an informed node.
CameByInformed(n, l, id) == HasDevice(userLink, n, l) /\ Informed(Peer(n, l), id)
PrtFits(n, id) == prt[n][id] \notin {Null, Absent} => CameByInformed(n, prt[n][id], id)

\* Both devices of an entry lead to entries, or will when the ack arrives.
LeadsOn(n, l, id) == HasDevice(userLink, n, l) /\ FindsEntry(n, l, id, Len(chan[n][l]))
TibFits(n, id) ==
  tib[n][id] # Absent =>
    /\ tib[n][id][1] # Null => LeadsOn(n, tib[n][id][1], id)
    /\ tib[n][id][2] # Null => LeadsOn(n, tib[n][id][2], id)

WaitingIsBuffered ==
  \A n \in Node, id \in UserLink : \A i \in DOMAIN dt[n][id] : dt[n][id][i] \in buffered

LossInv ==
  /\ \A n \in Node, l \in Link : \A i \in DOMAIN chan[n][l] : PacketFits(n, l, i)
  /\ \A n \in Node, id \in UserLink : PrtFits(n, id) /\ TibFits(n, id)
  /\ WaitingIsBuffered /\ OnlyBufferedLost

----------------------------------------------------------------------------
(* Lemmas about links and channels.                                        *)

\* A link joins two different nodes, each the peer of the other.
LEMMA PeerOfPeer ==
  ASSUME TypeOK, NEW n \in Node, NEW l, HasDevice(userLink, n, l)
  PROVE  /\ l \in Link
         /\ Peer(n, l) \in Node /\ Peer(n, l) # n
         /\ HasDevice(userLink, Peer(n, l), l) /\ Peer(Peer(n, l), l) = n
<1>1. l \in Isl \cup DOMAIN userLink /\ n \in {EndsOf(userLink, l)[1], EndsOf(userLink, l)[2]}
  BY DEF HasDevice
<1>2. userLink \in Seq(Station \X Sat) /\ DOMAIN userLink = 1..Len(userLink)
      /\ Len(userLink) <= MaxLink /\ Len(userLink) \in Nat
  BY DEF TypeOK
<1>3. l \in Link
  BY <1>1, <1>2, BoundAssumption DEF Link, UserLink
<1>4. /\ EndsOf(userLink, l)[1] \in Node /\ EndsOf(userLink, l)[2] \in Node
      /\ EndsOf(userLink, l)[1] # EndsOf(userLink, l)[2]
  <2>1. CASE l \in Isl
    BY <2>1, IslAssumption DEF EndsOf, Node
  <2>2. CASE l \notin Isl
    <3>1. userLink[l] \in Station \X Sat
      BY <1>1, <1>2, <2>2
    <3> QED BY <2>2, <3>1, NodeAssumption DEF EndsOf, Node
  <2> QED BY <2>1, <2>2
<1>5. CASE n = EndsOf(userLink, l)[1]
  <2>1. Peer(n, l) = EndsOf(userLink, l)[2]
    BY <1>5 DEF Peer
  <2> QED BY <1>1, <1>3, <1>4, <1>5, <2>1 DEF Peer, HasDevice
<1>6. CASE n = EndsOf(userLink, l)[2]
  <2>1. Peer(n, l) = EndsOf(userLink, l)[1]
    BY <1>4, <1>6 DEF Peer
  <2>2. HasDevice(userLink, EndsOf(userLink, l)[1], l)
    BY <1>1 DEF HasDevice
  <2>3. Peer(EndsOf(userLink, l)[1], l) = EndsOf(userLink, l)[2]
    BY DEF Peer
  <2> QED BY <1>3, <1>4, <1>6, <2>1, <2>2, <2>3
<1> QED BY <1>1, <1>5, <1>6

\* A step creates at most one user link.
LinksOnlyAdded ==
  userLink' = userLink \/ \E x \in Station \X Sat : userLink' = Append(userLink, x)

\* Links stay where they are when another one is created.
LEMMA PeerStays ==
  ASSUME TypeOK, LinksOnlyAdded,
         NEW n \in Node, NEW l, HasDevice(userLink, n, l)
  PROVE  HasDevice(userLink', n, l) /\ Peer(n, l)' = Peer(n, l)
<1>1. userLink \in Seq(Station \X Sat)
  BY DEF TypeOK
<1>2. DOMAIN userLink \subseteq DOMAIN userLink' /\ \A i \in DOMAIN userLink : userLink'[i] = userLink[i]
  BY <1>1 DEF LinksOnlyAdded
<1>3. l \in Isl \cup DOMAIN userLink
  BY DEF HasDevice
<1>4. EndsOf(userLink', l) = EndsOf(userLink, l)
  BY <1>2, <1>3 DEF EndsOf
<1> QED BY <1>2, <1>4 DEF HasDevice, Peer

\* The channels c are those of chan without the first off[n][l] packets.
Rest(off, c) ==
  /\ off \in [Node -> [Link -> {0, 1}]] /\ c \in Channels
  /\ \A n \in Node, l \in Link :
       /\ Len(chan[n][l]) = Len(c[n][l]) + off[n][l]
       /\ \A i \in DOMAIN c[n][l] : c[n][l][i] = chan[n][l][i + off[n][l]]

\* The channels d are those of c with more packets at the end.
Extends(d, c) ==
  \A n \in Node, l \in Link :
    /\ Len(c[n][l]) <= Len(d[n][l])
    /\ \A i \in DOMAIN c[n][l] : d[n][l][i] = c[n][l][i]

Added(d, c, n, l) == Len(c[n][l]) + 1 .. Len(d[n][l])

\* Nothing is emitted after c.
LEMMA NothingEmitted ==
  ASSUME NEW c \in Channels, NEW d, d = c
  PROVE  Extends(d, c) /\ \A n \in Node, l \in Link : Added(d, c, n, l) = {}
<1>1. \A n \in Node, l \in Link : Len(c[n][l]) \in Nat
  BY DEF Channels
<1> QED BY <1>1 DEF Extends, Added

NoneTaken == [n \in Node |-> [l \in Link |-> 0]]
OneTaken(m, k) == [n \in Node |-> [l \in Link |-> IF n = m /\ l = k THEN 1 ELSE 0]]

LEMMA RestOfAll == TypeOK => Rest(NoneTaken, chan)
<1> SUFFICES ASSUME TypeOK PROVE Rest(NoneTaken, chan)
  OBVIOUS
<1>1. chan \in Channels
  BY DEF TypeOK, Channels
<1>2. \A n \in Node, l \in Link : chan[n][l] \in Seq(Message)
  BY <1>1 DEF Channels
<1> QED BY <1>1, <1>2 DEF Rest, NoneTaken

LEMMA RestOfReceived ==
  ASSUME TypeOK, NEW n \in Node, NEW l \in Link, NEW t, Arrives(n, l, t)
  PROVE  Rest(OneTaken(Peer(n, l), l), Received(n, l))
<1>1. Peer(n, l) \in Node /\ Received(n, l) \in Channels /\ chan \in Channels
  BY ArrivalType DEF TypeOK, Channels
<1>2. chan[Peer(n, l)][l] \in Seq(Message) /\ chan[Peer(n, l)][l] # <<>>
  BY <1>1 DEF Arrives, Channels
<1>3. ASSUME NEW m \in Node, NEW k \in Link, m # Peer(n, l) \/ k # l
      PROVE  Received(n, l)[m][k] = chan[m][k] /\ chan[m][k] \in Seq(Message)
  BY <1>1, <1>3 DEF Received, Channels
<1>4. Received(n, l)[Peer(n, l)][l] = Tail(chan[Peer(n, l)][l])
  BY <1>1 DEF Received, Channels
<1>5. OneTaken(Peer(n, l), l) \in [Node -> [Link -> {0, 1}]]
  BY DEF OneTaken
<1>6. ASSUME NEW m \in Node, NEW k \in Link
      PROVE  LET c == Received(n, l)[m][k]
                 o == OneTaken(Peer(n, l), l)[m][k]
             IN  /\ Len(chan[m][k]) = Len(c) + o
                 /\ \A i \in DOMAIN c : c[i] = chan[m][k][i + o]
  <2>1. CASE m = Peer(n, l) /\ k = l
    <3>1. OneTaken(Peer(n, l), l)[m][k] = 1
      BY <2>1 DEF OneTaken
    <3>2. /\ Len(chan[m][k]) = Len(Tail(chan[m][k])) + 1
          /\ \A i \in DOMAIN Tail(chan[m][k]) : Tail(chan[m][k])[i] = chan[m][k][i + 1]
      BY <1>2, <2>1
    <3> QED BY <1>4, <2>1, <3>1, <3>2
  <2>2. CASE ~(m = Peer(n, l) /\ k = l)
    <3>1. OneTaken(Peer(n, l), l)[m][k] = 0
      BY <2>2 DEF OneTaken
    <3> QED BY <1>3, <2>2, <3>1
  <2> QED BY <2>1, <2>2
<1> QED BY <1>1, <1>5, <1>6 DEF Rest

\* Emitting adds the messages on one device.
LEMMA EmitExtends ==
  ASSUME NEW c \in Channels, NEW n \in Node, NEW l, NEW msgs \in Seq(Message),
         NEW d, d = Emit(c, n, l, msgs)
  PROVE  /\ Extends(d, c)
         /\ \A m \in Node, k \in Link : \A i \in Added(d, c, m, k) :
              /\ m = n /\ k = l /\ i - Len(c[m][k]) \in DOMAIN msgs
              /\ d[m][k][i] = msgs[i - Len(c[m][k])]
<1> SUFFICES ASSUME NEW m \in Node, NEW k \in Link
             PROVE  /\ Len(c[m][k]) <= Len(d[m][k])
                    /\ \A i \in DOMAIN c[m][k] : d[m][k][i] = c[m][k][i]
                    /\ \A i \in Added(d, c, m, k) :
                         /\ m = n /\ k = l /\ i - Len(c[m][k]) \in DOMAIN msgs
                         /\ d[m][k][i] = msgs[i - Len(c[m][k])]
  BY DEF Extends
<1>1. c[m][k] \in Seq(Message)
  BY DEF Channels
<1>2. CASE m = n /\ k = l
  <2>1. d[m][k] = c[m][k] \o msgs
    BY <1>2 DEF Emit, Channels
  <2> QED BY <1>1, <1>2, <2>1 DEF Added
<1>3. CASE ~(m = n /\ k = l)
  <2>1. d[m][k] = c[m][k]
    BY <1>3 DEF Emit, Channels
  <2> QED BY <1>1, <2>1 DEF Added
<1> QED BY <1>2, <1>3

LEMMA EmitOneExtends ==
  ASSUME NEW c \in Channels, NEW n \in Node, NEW l, NEW msg \in Message,
         NEW d, d = Emit(c, n, l, <<msg>>)
  PROVE  /\ Extends(d, c)
         /\ \A m \in Node, k \in Link : \A i \in Added(d, c, m, k) :
              m = n /\ k = l /\ i = Len(c[m][k]) + 1 /\ d[m][k][i] = msg
<1> SUFFICES ASSUME NEW m \in Node, NEW k \in Link
             PROVE  /\ Len(c[m][k]) <= Len(d[m][k])
                    /\ \A i \in DOMAIN c[m][k] : d[m][k][i] = c[m][k][i]
                    /\ \A i \in Added(d, c, m, k) :
                         m = n /\ k = l /\ i = Len(c[m][k]) + 1 /\ d[m][k][i] = msg
  BY DEF Extends
<1>1. c[m][k] \in Seq(Message)
  BY DEF Channels
<1>2. CASE m = n /\ k = l
  <2>1. d[m][k] = c[m][k] \o <<msg>>
    BY <1>2 DEF Emit, Channels
  <2>2. d[m][k] = Append(c[m][k], msg)
    BY <1>1, <2>1, AppendIsConcat
  <2>3. /\ Len(d[m][k]) = Len(c[m][k]) + 1 /\ Len(c[m][k]) \in Nat
        /\ \A i \in 1..Len(c[m][k]) : d[m][k][i] = c[m][k][i]
        /\ d[m][k][Len(c[m][k]) + 1] = msg
    BY <1>1, <2>2, AppendProperties
  <2>4. DOMAIN c[m][k] = 1..Len(c[m][k])
    BY <1>1
  <2>5. Added(d, c, m, k) = {Len(c[m][k]) + 1}
    BY <2>3 DEF Added
  <2> QED BY <1>2, <2>3, <2>4, <2>5
<1>3. CASE ~(m = n /\ k = l)
  <2>1. d[m][k] = c[m][k]
    BY <1>3 DEF Emit, Channels
  <2> QED BY <1>1, <2>1 DEF Added
<1> QED BY <1>2, <1>3

\* A broadcast adds one request on each of the devices it goes to.
LEMMA BroadcastExtends ==
  ASSUME NEW c \in Channels, NEW links, NEW gone, NEW n \in Node, NEW id, NEW h, NEW lasthop,
         NEW d, d = BroadcastReq(c, links, gone, n, id, h, lasthop)
  PROVE  /\ Extends(d, c)
         /\ \A m \in Node, k \in Link : \A i \in Added(d, c, m, k) :
              /\ HopsLeft(h) # 0 /\ m = n /\ k \in ReqDevices(links, gone, n, lasthop)
              /\ d[m][k][i] = TunnelReq(id, HopsLeft(h))
<1> DEFINE goes(m, k) == HopsLeft(h) # 0 /\ m = n /\ k \in ReqDevices(links, gone, n, lasthop)
<1> SUFFICES ASSUME NEW m \in Node, NEW k \in Link
             PROVE  /\ Len(c[m][k]) <= Len(d[m][k])
                    /\ \A i \in DOMAIN c[m][k] : d[m][k][i] = c[m][k][i]
                    /\ \A i \in Added(d, c, m, k) :
                         goes(m, k) /\ d[m][k][i] = TunnelReq(id, HopsLeft(h))
  BY DEF Extends
<1>1. c[m][k] \in Seq(Message)
  BY DEF Channels
<1>2. CASE goes(m, k)
  <2>1. d[m][k] = Append(c[m][k], TunnelReq(id, HopsLeft(h)))
    BY <1>2 DEF BroadcastReq, Channels
  <2> QED BY <1>1, <1>2, <2>1 DEF Added
<1>3. CASE ~goes(m, k)
  <2>1. d[m][k] = c[m][k]
    BY <1>3 DEF BroadcastReq, Channels
  <2> QED BY <1>1, <2>1 DEF Added
<1> QED BY <1>2, <1>3

----------------------------------------------------------------------------
(* What a step may do to keep LossInv.                                     *)

\* Entries are only replaced, a node that has been informed remains so, and
\* an ack taken from a channel leaves an entry.
EntriesStay(off) ==
  /\ \A n \in Node, id \in UserLink :
       /\ tib[n][id] # Absent => tib'[n][id] # Absent
       /\ Informed(n, id) => Informed(n, id)'
  /\ \A n \in Node, l \in Link :
       off[n][l] = 1 /\ chan[n][l][1].type = "TunnelAck"
         => tib'[Peer(n, l)][chan[n][l][1].id] # Absent

\* The packets emitted, after c, and the entries made, fit.
NewFit(c) ==
  /\ \A n \in Node, l \in Link : \A i \in Added(chan', c, n, l) : PacketFits(n, l, i)'
  /\ \A n \in Node, id \in UserLink :
       /\ prt'[n][id] = prt[n][id] \/ PrtFits(n, id)'
       /\ tib'[n][id] = tib[n][id] \/ TibFits(n, id)'

\* A packet that finds an entry keeps finding one, i packets behind or later.
LEMMA FindsEntryStays ==
  ASSUME TypeOK, TypeOK', LinksOnlyAdded,
         NEW off, NEW c, Rest(off, c), Extends(chan', c), EntriesStay(off),
         NEW n \in Node, NEW l \in Link, HasDevice(userLink, n, l), NEW id \in UserLink,
         NEW i \in 0..Len(chan[n][l]), FindsEntry(n, l, id, i),
         NEW j \in Nat, i <= j + off[n][l]
  PROVE  FindsEntry(n, l, id, j)'
<1>1. Peer(n, l)' = Peer(n, l) /\ Peer(n, l) \in Node
  BY PeerStays, PeerOfPeer
<1>2. CASE tib[Peer(n, l)][id] # Absent
  BY <1>1, <1>2 DEF EntriesStay, FindsEntry
<1>3. ASSUME NEW k \in 1..i, chan[n][l][k] = TunnelAck(id)
      PROVE  FindsEntry(n, l, id, j)'
  <2>1. off[n][l] \in {0, 1} /\ c[n][l] \in Seq(Message) /\ chan[n][l] \in Seq(Message)
        /\ chan'[n][l] \in Seq(Message)
    BY DEF Rest, Channels, TypeOK
  <2>2. CASE off[n][l] = 1 /\ k = 1
    <3>1. tib'[Peer(n, l)][id] # Absent
      BY <1>3, <2>2 DEF EntriesStay, TunnelAck
    <3> QED BY <1>1, <3>1 DEF FindsEntry
  <2>3. CASE ~(off[n][l] = 1 /\ k = 1)
    <3>1. k - off[n][l] \in DOMAIN c[n][l] /\ k - off[n][l] \in 1..j
      BY <2>1, <2>3 DEF Rest
    <3>2. c[n][l][k - off[n][l]] = chan[n][l][k]
      BY <2>1, <3>1 DEF Rest
    <3>3. chan'[n][l][k - off[n][l]] = TunnelAck(id)
      BY <1>3, <3>1, <3>2 DEF Extends
    <3> QED BY <3>1, <3>3 DEF FindsEntry
  <2> QED BY <2>2, <2>3
<1> QED BY <1>2, <1>3 DEF FindsEntry

\* A packet after the step is one that was there or one just emitted.
LEMMA OldOrAdded ==
  ASSUME TypeOK, TypeOK', NEW off, NEW c, Rest(off, c), Extends(chan', c),
         NEW n \in Node, NEW l \in Link, NEW i \in DOMAIN chan'[n][l]
  PROVE  \/ i \in Added(chan', c, n, l)
         \/ /\ i + off[n][l] \in DOMAIN chan[n][l]
            /\ chan'[n][l][i] = chan[n][l][i + off[n][l]]
            /\ chan[n][l] # <<>>
<1>1. off[n][l] \in {0, 1} /\ c[n][l] \in Seq(Message) /\ chan[n][l] \in Seq(Message)
      /\ chan'[n][l] \in Seq(Message)
  BY DEF Rest, Channels, TypeOK
<1>2. CASE i \in DOMAIN c[n][l]
  <2>1. chan'[n][l][i] = chan[n][l][i + off[n][l]]
    BY <1>2 DEF Rest, Extends
  <2>2. i + off[n][l] \in DOMAIN chan[n][l]
    BY <1>1, <1>2 DEF Rest
  <2> QED BY <1>1, <2>1, <2>2
<1>3. CASE i \notin DOMAIN c[n][l]
  BY <1>1, <1>3 DEF Added
<1> QED BY <1>2, <1>3

LEMMA LossKept ==
  ASSUME TypeOK, TypeOK', LossInv, LinksOnlyAdded, buffered \subseteq buffered',
         NEW off, NEW c, Rest(off, c), Extends(chan', c), EntriesStay(off), NewFit(c),
         WaitingIsBuffered', OnlyBufferedLost'
  PROVE  LossInv'
<1>1. ASSUME NEW n \in Node, NEW l \in Link
      PROVE  /\ off[n][l] \in {0, 1} /\ c[n][l] \in Seq(Message)
             /\ chan[n][l] \in Seq(Message) /\ chan'[n][l] \in Seq(Message)
             /\ Len(chan[n][l]) <= Len(chan'[n][l]) + off[n][l]
  BY DEF Rest, Extends, Channels, TypeOK
<1>2. ASSUME NEW n \in Node, NEW l \in Link, NEW i \in DOMAIN chan'[n][l]
      PROVE  PacketFits(n, l, i)'
  <2>1. CASE i \in Added(chan', c, n, l)
    BY <2>1 DEF NewFit
  <2>2. CASE i \notin Added(chan', c, n, l)
    <3>1. PICK o \in {0, 1} : o = off[n][l]
      BY <1>1
    <3>2. PICK m \in Message : m = chan'[n][l][i]
      BY <1>1
    <3>3. i + o \in DOMAIN chan[n][l] /\ m = chan[n][l][i + o]
      BY <2>2, <3>1, <3>2, OldOrAdded
    <3>4. Fits(n, l, i + o, m)
      BY <3>3 DEF LossInv, PacketFits
    <3>5. /\ HasDevice(userLink, n, l) /\ HasDevice(userLink', n, l)
          /\ Peer(n, l)' = Peer(n, l) /\ Peer(n, l) \in Node
      BY <3>4, PeerStays, PeerOfPeer DEF Fits
    <3>6. m.type = "TunnelReq" => Informed(n, m.id)'
      BY <3>4, MessageFields DEF Fits, EntriesStay
    <3>7. m.type = "TunnelAck" => tib'[n][m.id] # Absent /\ Informed(Peer(n, l), m.id)'
      BY <3>4, <3>5, MessageFields DEF Fits, EntriesStay, Informed
    <3>8. ASSUME m.type = "LinkPayload", m.pkt \notin buffered'
          PROVE  FindsEntry(n, l, m.id, i - 1)'
      <4>1. FindsEntry(n, l, m.id, (i + o) - 1) /\ m.id \in UserLink
        BY <3>4, <3>8, MessageFields DEF Fits
      <4>2. i - 1 \in Nat /\ (i + o) - 1 \in 0..Len(chan[n][l]) /\ (i + o) - 1 <= (i - 1) + off[n][l]
        <5>1. i \in Nat \ {0} /\ i + o \in 1..Len(chan[n][l]) /\ Len(chan[n][l]) \in Nat
          BY <1>1, <3>3
        <5> QED BY <3>1, <5>1
      <4> QED BY <3>5, <4>1, <4>2, FindsEntryStays
    <3> QED BY <3>2, <3>5, <3>6, <3>7, <3>8 DEF PacketFits, Fits
  <2> QED BY <2>1, <2>2
<1>3. ASSUME NEW n \in Node, NEW id \in UserLink PROVE PrtFits(n, id)'
  <2>1. CASE prt'[n][id] = prt[n][id] /\ prt[n][id] \notin {Null, Absent}
    <3>1. PICK l \in Link : l = prt[n][id] /\ l = prt'[n][id]
      BY <2>1 DEF TypeOK
    <3>2. HasDevice(userLink, n, l) /\ Informed(Peer(n, l), id)
      BY <2>1, <3>1 DEF LossInv, PrtFits, CameByInformed
    <3>3. HasDevice(userLink', n, l) /\ Peer(n, l)' = Peer(n, l) /\ Peer(n, l) \in Node
      BY <3>2, PeerStays, PeerOfPeer
    <3>4. CameByInformed(n, l, id)'
      BY <3>2, <3>3 DEF EntriesStay, CameByInformed, Informed
    <3> QED BY <3>1, <3>4 DEF PrtFits
  <2>2. CASE ~(prt'[n][id] = prt[n][id] /\ prt[n][id] \notin {Null, Absent})
    BY <2>2 DEF NewFit, PrtFits
  <2> QED BY <2>1, <2>2
<1>4. ASSUME NEW n \in Node, NEW id \in UserLink, tib[n][id] # Absent, NEW i \in {1, 2},
             tib[n][id][i] # Null
      PROVE  LeadsOn(n, tib[n][id][i], id)
  BY <1>4 DEF LossInv, TibFits
<1>5. ASSUME NEW n \in Node, NEW l \in Link, NEW id \in UserLink, LeadsOn(n, l, id)
      PROVE  LeadsOn(n, l, id)'
  <2>1. HasDevice(userLink, n, l) /\ FindsEntry(n, l, id, Len(chan[n][l]))
    BY <1>5 DEF LeadsOn
  <2>2. PICK j \in Nat : j = Len(chan'[n][l])
    BY <1>1
  <2>3. FindsEntry(n, l, id, j)'
    BY <1>1, <2>1, <2>2, FindsEntryStays
  <2> QED BY <2>1, <2>2, <2>3, PeerStays DEF LeadsOn
<1>6. ASSUME NEW n \in Node, NEW id \in UserLink PROVE TibFits(n, id)'
  <2>1. CASE tib'[n][id] = tib[n][id] /\ tib[n][id] # Absent
    <3>1. ASSUME NEW i \in {1, 2}, tib[n][id][i] # Null
          PROVE  LeadsOn(n, tib[n][id][i], id)'
      <4>1. PICK l \in Link : l = tib[n][id][i] /\ l = tib'[n][id][i]
        BY <2>1, <3>1 DEF TypeOK
      <4>2. LeadsOn(n, l, id)'
        BY <1>4, <1>5, <2>1, <3>1, <4>1
      <4> QED BY <4>1, <4>2
    <3> QED BY <2>1, <3>1 DEF TibFits
  <2>2. CASE ~(tib'[n][id] = tib[n][id] /\ tib[n][id] # Absent)
    BY <2>2 DEF NewFit, TibFits
  <2> QED BY <2>1, <2>2
<1> QED BY <1>2, <1>3, <1>6 DEF LossInv

----------------------------------------------------------------------------
(* Every step keeps LossInv.                                               *)

LEMMA LossInit == Init => LossInv
BY DEF Init, LossInv, PrtFits, TibFits, WaitingIsBuffered, OnlyBufferedLost

\* A step that leaves channels and tables alone.
LEMMA LossKeptQuietly ==
  ASSUME TypeOK, TypeOK', LossInv, LinksOnlyAdded, buffered \subseteq buffered',
         UNCHANGED <<chan, prt, tib>>, WaitingIsBuffered', OnlyBufferedLost'
  PROVE  LossInv'
<1>1. Rest(NoneTaken, chan)
  BY RestOfAll
<1>2. Extends(chan', chan)
  BY DEF Extends, TypeOK
<1>3. EntriesStay(NoneTaken)
  BY DEF EntriesStay, NoneTaken, Informed
<1>4. NewFit(chan)
  BY DEF NewFit, Added, TypeOK
<1> QED BY <1>1, <1>2, <1>3, <1>4, LossKept

\* The packet that reaches n on l.
LEMMA ArrivalFits ==
  ASSUME TypeOK, LossInv, NEW n \in Node, NEW l \in Link, NEW t, Arrives(n, l, t)
  PROVE  /\ Fits(Peer(n, l), l, 1, Arriving(n, l))
         /\ HasDevice(userLink, n, l) /\ Peer(n, l) \in Node
         /\ Peer(n, l) # n /\ Peer(Peer(n, l), l) = n
         /\ chan[Peer(n, l)][l][1] = Arriving(n, l)
         /\ Arriving(n, l) \in Message /\ Arriving(n, l).type = t
<1>1. HasDevice(userLink, n, l)
  BY DEF Arrives
<1>2. Peer(n, l) \in Node /\ Peer(n, l) # n /\ Peer(Peer(n, l), l) = n
  BY <1>1, PeerOfPeer
<1>3. chan[Peer(n, l)][l] \in Seq(Message) /\ chan[Peer(n, l)][l] # <<>>
  BY <1>2 DEF TypeOK, Arrives
<1>4. 1 \in DOMAIN chan[Peer(n, l)][l] /\ chan[Peer(n, l)][l][1] = Arriving(n, l)
  BY <1>3 DEF Arriving
<1> QED BY <1>1, <1>2, <1>4, ArrivalType DEF LossInv, PacketFits

\* A step that only takes a packet: the entries stay if the ack leaves one.
LEMMA TakenStays ==
  ASSUME TypeOK, LossInv, NEW n \in Node, NEW l \in Link, NEW t, Arrives(n, l, t),
         \A m \in Node, id \in UserLink :
           /\ tib[m][id] # Absent => tib'[m][id] # Absent
           /\ Informed(m, id) => Informed(m, id)',
         t = "TunnelAck" => tib'[n][Arriving(n, l).id] # Absent
  PROVE  EntriesStay(OneTaken(Peer(n, l), l))
BY ArrivalFits DEF EntriesStay, OneTaken

LEMMA LossStep == TypeOK /\ LossInv /\ [Next]_vars => LossInv'
<1> SUFFICES ASSUME TypeOK, LossInv, [Next]_vars PROVE LossInv'
  OBVIOUS
<1> USE DEF linkVars, shimVars, ndnVars
<1>type. TypeOK'
  BY TypeStep
<1>waits. ASSUME UNCHANGED <<dt, buffered>> PROVE WaitingIsBuffered'
  BY <1>waits DEF LossInv, WaitingIsBuffered
<1>lost. ASSUME UNCHANGED <<buffered, lost>> PROVE OnlyBufferedLost'
  BY <1>lost DEF LossInv, OnlyBufferedLost
<1>1. ASSUME UNCHANGED <<userLink, chan, prt, tib, dt, buffered, lost>> PROVE LossInv'
  BY <1>type, <1>waits, <1>lost, <1>1, LossKeptQuietly DEF LinksOnlyAdded
<1>2. ASSUME NEW st \in Station, NEW s \in Sat, Enter(st, s) PROVE LossInv'
  BY <1>type, <1>waits, <1>lost, <1>2, LossKeptQuietly DEF Enter, LinksOnlyAdded
<1>3. ASSUME NEW st \in Station, NEW s \in Sat, Move(st, s) PROVE LossInv'
  <2>0. PICK old \in UserLink : old = p2pDevice[st]
    BY <1>3 DEF Move, TypeOK, Node
  <2>1. st \in Node /\ chan \in Channels
    BY DEF TypeOK, Node, Channels
  <2>2. LinksOnlyAdded /\ UNCHANGED <<tib, dt, buffered, lost>>
    BY <1>3 DEF Move, LinksOnlyAdded
  <2>3. CASE UNCHANGED <<chan, prt>>
    BY <1>type, <1>waits, <1>lost, <2>2, <2>3, LossKeptQuietly
  <2>4. CASE /\ chan' = BroadcastReq(chan, userLink', Detached(st)[st], st, old, 0, Null)
             /\ prt' = DestinationMark(prt, st, old)
    <3>1. /\ Extends(chan', chan)
          /\ \A m \in Node, k \in Link : \A i \in Added(chan', chan, m, k) :
               /\ HopsLeft(0) # 0 /\ m = st /\ HasDevice(userLink', st, k)
               /\ chan'[m][k][i] = TunnelReq(old, HopsLeft(0))
      <4>1. \A k : k \in ReqDevices(userLink', Detached(st)[st], st, Null) => HasDevice(userLink', st, k)
        BY DEF ReqDevices
      <4> QED BY <2>1, <2>4, <4>1, BroadcastExtends
    <3>2. ASSUME NEW n \in Node, NEW id \in UserLink
          PROVE  \/ prt'[n][id] = prt[n][id]
                 \/ n = st /\ id = old /\ HopsLeft(0) # 0 /\ prt'[n][id] = Null
      BY <2>1, <2>4 DEF DestinationMark, TypeOK
    <3>3. HopsLeft(0) # 0 => prt'[st][old] = Null
      BY <2>1, <2>4 DEF DestinationMark, TypeOK
    <3>4. EntriesStay(NoneTaken)
      BY <2>2, <3>2, MarkerAssumption DEF EntriesStay, NoneTaken, Informed
    <3>5. NewFit(chan)
      <4>1. ASSUME NEW n \in Node, NEW l \in Link, NEW i \in Added(chan', chan, n, l)
            PROVE  PacketFits(n, l, i)'
        <5>1. Informed(st, old)'
          BY <3>1, <3>3, <4>1, MarkerAssumption DEF Informed
        <5> QED BY <3>1, <5>1 DEF PacketFits, Fits, TunnelReq
      <4> QED BY <2>2, <3>2, <4>1 DEF NewFit, PrtFits
    <3> QED BY <1>type, <1>waits, <1>lost, <2>2, <3>1, <3>4, <3>5, RestOfAll, LossKept
  <2> QED BY <1>3, <2>0, <2>3, <2>4 DEF Move
<1>4. ASSUME NEW n \in Node, NEW id \in UserLink, SendDirect(n, id) PROVE LossInv'
  <2>1. n \in {userLink[id][1], userLink[id][2]} /\ id \in DOMAIN userLink
    BY <1>4 DEF SendDirect, CanSend
  <2>2. HasDevice(userLink, n, id)
    BY <2>1, IslAssumption DEF HasDevice, EndsOf, UserLink
  <2>3. Ndn(NextPacket(n, id)) \in Message /\ chan \in Channels
    BY <1>4, SendType, MessageKinds DEF SendDirect, TypeOK, Channels
  <2>4. /\ Extends(chan', chan)
        /\ \A m \in Node, k \in Link : \A i \in Added(chan', chan, m, k) :
             m = n /\ k = id /\ chan'[m][k][i] = Ndn(NextPacket(n, id))
    BY <1>4, <2>3, EmitOneExtends DEF SendDirect
  <2>5. UNCHANGED <<userLink, prt, tib, dt, buffered, lost>>
    BY <1>4 DEF SendDirect
  <2>6. NewFit(chan)
    BY <2>2, <2>4, <2>5 DEF NewFit, PacketFits, Fits, Ndn
  <2>7. EntriesStay(NoneTaken) /\ LinksOnlyAdded
    BY <2>5 DEF EntriesStay, NoneTaken, Informed, LinksOnlyAdded
  <2> QED BY <1>type, <1>waits, <1>lost, <2>4, <2>5, <2>6, <2>7, RestOfAll, LossKept
<1>5. ASSUME NEW n \in Node, NEW id \in UserLink, SendTunnelled(n, id) PROVE LossInv'
  <2> DEFINE dev == TunnelDevice(tib[n][id])
  <2>1. UNCHANGED <<userLink, prt, tib, dt, buffered, lost>> /\ tib[n][id] # Absent
    BY <1>5 DEF SendTunnelled
  <2>2. LinkPayload(NextPacket(n, id)) \in Message /\ chan \in Channels
    BY <1>5, SendType, MessageKinds DEF SendTunnelled, TypeOK, Channels
  <2>3. /\ Extends(chan', chan)
        /\ \A m \in Node, k \in Link : \A i \in Added(chan', chan, m, k) :
             /\ m = n /\ k = dev /\ i = Len(chan[m][k]) + 1
             /\ chan'[m][k][i] = LinkPayload(NextPacket(n, id))
    BY <1>5, <2>2, EmitOneExtends DEF SendTunnelled
  <2>4. EntriesStay(NoneTaken) /\ LinksOnlyAdded
    BY <2>1 DEF EntriesStay, NoneTaken, Informed, LinksOnlyAdded
  <2>5. ASSUME NEW l \in Link, NEW i \in Added(chan', chan, n, l) PROVE PacketFits(n, l, i)'
    <3>1. l = dev /\ i = Len(chan[n][l]) + 1 /\ chan'[n][l][i] = LinkPayload(NextPacket(n, id))
      BY <2>3
    <3>2. LeadsOn(n, l, id)
      BY <2>1, <3>1, MarkerAssumption DEF LossInv, TibFits, TunnelDevice
    <3>3. FindsEntry(n, l, id, i - 1)'
      <4>1. i - 1 = Len(chan[n][l]) /\ Len(chan[n][l]) \in Nat
        BY <3>1 DEF TypeOK
      <4> QED BY <1>type, <2>3, <2>4, <3>2, <4>1, RestOfAll, FindsEntryStays DEF LeadsOn, NoneTaken
    <3> QED BY <2>1, <3>1, <3>2, <3>3 DEF PacketFits, Fits, LeadsOn, LinkPayload, NextPacket
  <2>6. NewFit(chan)
    BY <2>1, <2>3, <2>5 DEF NewFit
  <2> QED BY <1>type, <1>waits, <1>lost, <2>1, <2>3, <2>4, <2>6, RestOfAll, LossKept
<1>6. ASSUME NEW n \in Node, NEW l \in Link, NEW t, Arrives(n, l, t), t # "TunnelAck",
             chan' = Received(n, l), UNCHANGED <<userLink, prt, tib, dt, buffered>>,
             OnlyBufferedLost'
      PROVE  LossInv'
  <2>1. Received(n, l) \in Channels /\ Extends(chan', Received(n, l)) /\ NewFit(Received(n, l))
    BY <1>6, ArrivalType DEF Extends, Channels, NewFit, Added
  <2>2. EntriesStay(OneTaken(Peer(n, l), l)) /\ LinksOnlyAdded
    BY <1>6, TakenStays DEF Informed, LinksOnlyAdded
  <2> QED BY <1>type, <1>waits, <1>6, <2>1, <2>2, RestOfReceived, LossKept
<1>7. ASSUME NEW n \in Node, NEW l \in Link, ReceiveNdn(n, l) \/ ReqLoop(n, l) \/ PayloadHandedUp(n, l)
      PROVE  LossInv'
  BY <1>lost, <1>6, <1>7 DEF ReceiveNdn, ReqLoop, PayloadArrives, PayloadHandedUp
<1>8. ASSUME NEW n \in Node, NEW l \in Link, AckUnsolicited(n, l) PROVE LossInv'
  <2> DEFINE id == Arriving(n, l).id
  <2>1. tib[n][id] # Absent
    BY <1>8, ArrivalFits DEF AckUnsolicited, Fits, Informed
  <2>2. UNCHANGED <<userLink, prt, tib, dt, buffered, lost>> /\ Arrives(n, l, "TunnelAck")
        /\ chan' = Received(n, l)
    BY <1>8 DEF AckUnsolicited
  <2>3. Extends(chan', Received(n, l)) /\ NewFit(Received(n, l))
    BY <2>2, ArrivalType DEF Extends, Channels, NewFit, Added
  <2>4. EntriesStay(OneTaken(Peer(n, l), l)) /\ LinksOnlyAdded
    BY <2>1, <2>2, TakenStays DEF Informed, LinksOnlyAdded
  <2> QED BY <1>type, <1>waits, <1>lost, <2>2, <2>3, <2>4, RestOfReceived, LossKept
<1>9. ASSUME NEW n \in Node, NEW l \in Link, PayloadDiscarded(n, l) PROVE LossInv'
  <2>1. /\ UNCHANGED <<userLink, prt, tib, dt, buffered>> /\ Arrives(n, l, "LinkPayload")
        /\ chan' = Received(n, l) /\ tib[n][Arriving(n, l).id] = Absent
        /\ lost' = lost \cup {Arriving(n, l).pkt}
    BY <1>9 DEF PayloadDiscarded, PayloadArrives
  <2>2. Arriving(n, l).pkt \in buffered
    BY <2>1, ArrivalFits DEF Fits, FindsEntry
  <2>3. OnlyBufferedLost'
    BY <2>1, <2>2 DEF LossInv, OnlyBufferedLost
  <2> QED BY <1>6, <2>1, <2>3
<1>10. ASSUME NEW n \in Node, NEW l \in Link, PayloadRelayed(n, l) PROVE LossInv'
  <2>0. PICK m \in Message : m = Arriving(n, l) /\ m.type = "LinkPayload"
    BY <1>10, ArrivalFits DEF PayloadRelayed, PayloadArrives
  <2>1. PICK id \in UserLink : id = m.id
    BY <2>0, MessageFields
  <2> DEFINE c == Received(n, l)
             dev == PayloadDevice(tib[n][id], l)
  <2>2. /\ UNCHANGED <<userLink, prt, tib, dt, buffered, lost>> /\ tib[n][id] # Absent
        /\ Arrives(n, l, "LinkPayload") /\ chan' = Emit(c, n, dev, <<m>>)
    BY <1>10, <2>0, <2>1 DEF PayloadRelayed, PayloadArrives
  <2>3. c \in Channels /\ Rest(OneTaken(Peer(n, l), l), c)
    BY <2>2, ArrivalType, RestOfReceived
  <2>4. /\ Extends(chan', c)
        /\ \A x \in Node, k \in Link : \A i \in Added(chan', c, x, k) :
             x = n /\ k = dev /\ i = Len(c[x][k]) + 1 /\ chan'[x][k][i] = m
    <3> HIDE DEF c, dev
    <3> QED BY <2>2, <2>3, EmitOneExtends
  <2>5. EntriesStay(OneTaken(Peer(n, l), l)) /\ LinksOnlyAdded
    BY <2>2, TakenStays DEF Informed, LinksOnlyAdded
  <2>6. ASSUME NEW k \in Link, NEW i \in Added(chan', c, n, k) PROVE PacketFits(n, k, i)'
    <3>1. k = dev /\ i = Len(c[n][k]) + 1 /\ chan'[n][k][i] = m
      BY <2>4
    <3>2. LeadsOn(n, k, id)
      BY <2>2, <3>1, MarkerAssumption DEF LossInv, TibFits, PayloadDevice
    <3>3. FindsEntry(n, k, id, i - 1)'
      <4>1. i - 1 = Len(c[n][k]) /\ Len(c[n][k]) \in Nat /\ Len(chan[n][k]) \in Nat
            /\ Len(chan[n][k]) = Len(c[n][k]) + OneTaken(Peer(n, l), l)[n][k]
        BY <2>3, <3>1 DEF Rest, Channels, TypeOK
      <4> HIDE DEF c
      <4> QED BY <1>type, <2>3, <2>4, <2>5, <3>2, <4>1, FindsEntryStays DEF LeadsOn
    <3> QED BY <2>0, <2>1, <2>2, <3>1, <3>2, <3>3 DEF PacketFits, Fits, LeadsOn
  <2>7. NewFit(c)
    BY <2>2, <2>4, <2>6 DEF NewFit
  <2> HIDE DEF c
  <2> QED BY <1>type, <1>waits, <1>lost, <2>2, <2>3, <2>4, <2>5, <2>7, LossKept
<1>11. ASSUME NEW n \in Node, NEW l \in Link, ReqRelay(n, l) PROVE LossInv'
  <2>0. PICK m \in Message : m = Arriving(n, l) /\ m.type = "TunnelReq"
    BY <1>11, ArrivalFits DEF ReqRelay
  <2>1. PICK id \in UserLink : id = m.id
    BY <2>0, MessageFields
  <2> DEFINE c == Received(n, l)
  <2>2. /\ UNCHANGED <<userLink, tib, dt, buffered, lost>>
        /\ Arrives(n, l, "TunnelReq") /\ prt' = [prt EXCEPT ![n][id] = l]
        /\ chan' = BroadcastReq(c, userLink, isGone[n], n, id, m.hopLimit, l)
    BY <1>11, <2>0, <2>1 DEF ReqRelay, Pending
  <2>3. c \in Channels /\ Rest(OneTaken(Peer(n, l), l), c)
    BY <2>2, ArrivalType, RestOfReceived
  <2>4. /\ Extends(chan', c)
        /\ \A x \in Node, k \in Link : \A i \in Added(chan', c, x, k) :
             /\ x = n /\ HasDevice(userLink, n, k)
             /\ chan'[x][k][i] = TunnelReq(id, HopsLeft(m.hopLimit))
    <3>1. \A k : k \in ReqDevices(userLink, isGone[n], n, l) => HasDevice(userLink, n, k)
      BY DEF ReqDevices
    <3> HIDE DEF c
    <3> QED BY <2>2, <2>3, <3>1, BroadcastExtends
  <2>5. prt'[n][id] = l /\ Informed(n, id)'
    BY <2>2, MarkerAssumption DEF TypeOK, Informed
  <2>6. CameByInformed(n, l, id)'
    <3>1. HasDevice(userLink', n, l) /\ Informed(Peer(n, l), id) /\ Peer(n, l)' = Peer(n, l)
      BY <2>0, <2>1, <2>2, ArrivalFits DEF Fits, Peer
    <3>2. \A x \in Node : Informed(x, id) => Informed(x, id)'
      BY <2>2, <2>5 DEF TypeOK, Informed
    <3> QED BY <2>2, <3>1, <3>2, ArrivalFits DEF CameByInformed, Informed
  <2>7. EntriesStay(OneTaken(Peer(n, l), l)) /\ LinksOnlyAdded
    <3>1. ASSUME NEW x \in Node, NEW k \in UserLink, Informed(x, k) PROVE Informed(x, k)'
      BY <2>2, <2>5, <3>1 DEF TypeOK, Informed
    <3> QED BY <2>2, <3>1, TakenStays DEF LinksOnlyAdded
  <2>8. NewFit(c)
    <3>1. ASSUME NEW x \in Node, NEW k \in Link, NEW i \in Added(chan', c, x, k)
          PROVE  PacketFits(x, k, i)'
      <4>1. PICK h : h = HopsLeft(m.hopLimit)
        OBVIOUS
      <4>2. x = n /\ HasDevice(userLink', n, k) /\ chan'[x][k][i] = TunnelReq(id, h)
        BY <2>2, <2>4, <4>1
      <4>3. Fits(n, k, i, TunnelReq(id, h))'
        BY <2>5, <4>2 DEF Fits, TunnelReq
      <4> QED BY <4>2, <4>3 DEF PacketFits
    <3>2. ASSUME NEW x \in Node, NEW k \in UserLink PROVE prt'[x][k] = prt[x][k] \/ PrtFits(x, k)'
      BY <2>2, <2>5, <2>6 DEF TypeOK, PrtFits
    <3> QED BY <2>2, <3>1, <3>2 DEF NewFit
  <2> HIDE DEF c
  <2> QED BY <1>type, <1>waits, <1>lost, <2>2, <2>3, <2>4, <2>7, <2>8, LossKept
<1>12. ASSUME NEW n \in Node, NEW l \in Link, ReqAtTarget(n, l) PROVE LossInv'
  <2>0. PICK m \in Message : m = Arriving(n, l) /\ m.type = "TunnelReq"
    BY <1>12, ArrivalFits DEF ReqAtTarget
  <2>1. PICK id \in UserLink : id = m.id
    BY <2>0, MessageFields
  <2> DEFINE c == Received(n, l)
             msgs == Answer(n, id)
  <2>2. /\ UNCHANGED <<userLink, prt, buffered, lost>> /\ Arrives(n, l, "TunnelReq")
        /\ tib' = [tib EXCEPT ![n][id] = <<Null, l>>]
        /\ chan' = Emit(c, n, l, msgs) /\ dt' = [dt EXCEPT ![n][id] = <<>>]
    BY <1>12, <2>0, <2>1 DEF ReqAtTarget, TargetEntry, BufferErased
  <2>3. c \in Channels /\ Rest(OneTaken(Peer(n, l), l), c)
    BY <2>2, ArrivalType, RestOfReceived
  <2>4. /\ msgs \in Seq(Message) /\ msgs # <<>> /\ msgs[Len(msgs)] = TunnelAck(id)
        /\ \A i \in DOMAIN msgs : \/ msgs[i] = TunnelAck(id)
                                  \/ \E p \in buffered : msgs[i] = LinkPayload(p)
    <3> DEFINE front == FlushedPayloads(n, id)
    <3>1. /\ front \in Seq(Message)
          /\ \A i \in DOMAIN front : \E p \in buffered : front[i] = LinkPayload(p)
      <4>1. dt[n][id] \in Seq(NdnPacket)
        BY DEF TypeOK
      <4>2. \A i \in DOMAIN dt[n][id] : dt[n][id][i] \in buffered
        BY DEF LossInv, WaitingIsBuffered
      <4> QED BY <4>1, <4>2, MessageKinds DEF FlushedPayloads
    <3>2. TunnelAck(id) \in Message
      BY MessageKinds
    <3>3. msgs = Append(front, TunnelAck(id))
      BY <3>1, <3>2, AppendIsConcat DEF Answer
    <3> HIDE DEF front, msgs
    <3> QED BY <3>1, <3>2, <3>3, AppendProperties
  <2>5. /\ Extends(chan', c)
        /\ \A x \in Node, k \in Link : \A i \in Added(chan', c, x, k) :
             /\ x = n /\ k = l
             /\ chan'[x][k][i] = TunnelAck(id) \/ \E p \in buffered : chan'[x][k][i] = LinkPayload(p)
    <3> HIDE DEF c, msgs
    <3> QED BY <2>2, <2>3, <2>4, EmitExtends
  <2>6. /\ tib'[n][id] = <<Null, l>> /\ tib'[n][id] # Absent
        /\ \A x \in Node, k \in UserLink : ~(x = n /\ k = id) => tib'[x][k] = tib[x][k]
    BY <2>2, MarkerAssumption DEF TypeOK
  <2>7. Peer(n, l)' = Peer(n, l) /\ HasDevice(userLink', n, l) /\ Informed(Peer(n, l), id)
    BY <2>0, <2>1, <2>2, ArrivalFits DEF Fits, Peer
  <2>8. \A x \in Node, k \in UserLink : Informed(x, k) => Informed(x, k)'
    BY <2>2, <2>6 DEF Informed
  <2>9. EntriesStay(OneTaken(Peer(n, l), l)) /\ LinksOnlyAdded
    BY <2>2, <2>6, <2>8, TakenStays DEF LinksOnlyAdded
  <2>10. LeadsOn(n, l, id)'
    <3>1. Len(chan'[n][l]) \in 1..Len(chan'[n][l]) /\ chan'[n][l][Len(chan'[n][l])] = TunnelAck(id)
      <4>1. c[n][l] \in Seq(Message) /\ chan'[n][l] = c[n][l] \o msgs
        BY <2>2, <2>3 DEF Emit, Channels
      <4> HIDE DEF c, msgs
      <4> QED BY <2>4, <4>1
    <3> QED BY <2>7, <3>1 DEF LeadsOn, FindsEntry
  <2>11. NewFit(c)
    <3>1. ASSUME NEW x \in Node, NEW k \in Link, NEW i \in Added(chan', c, x, k)
          PROVE  PacketFits(x, k, i)'
      <4>1. Informed(Peer(n, l), id)'
        BY <2>7, <2>8, ArrivalFits, <2>2 DEF Informed
      <4>2. Fits(n, l, i, TunnelAck(id))'
        BY <2>6, <2>7, <4>1 DEF Fits, TunnelAck
      <4>3. \A p \in buffered : Fits(n, l, i, LinkPayload(p))'
        BY <2>2, <2>7 DEF Fits, LinkPayload
      <4> QED BY <2>5, <4>2, <4>3 DEF PacketFits
    <3>2. TibFits(n, id)'
      BY <2>6, <2>10 DEF TibFits
    <3> QED BY <2>2, <2>6, <3>1, <3>2 DEF NewFit
  <2>12. WaitingIsBuffered'
    <3>1. \A x \in Node, k \in UserLink : dt'[x][k] \in {dt[x][k], <<>>}
      BY <2>2 DEF TypeOK
    <3>2. \A x \in Node, k \in UserLink : \A i \in DOMAIN dt[x][k] : dt[x][k][i] \in buffered
      BY DEF LossInv, WaitingIsBuffered
    <3> HIDE DEF c, msgs
    <3> QED BY <2>2, <3>1, <3>2 DEF WaitingIsBuffered
  <2> HIDE DEF c
  <2> QED BY <1>type, <1>lost, <2>2, <2>3, <2>5, <2>9, <2>11, <2>12, LossKept
<1>13. ASSUME NEW n \in Node, NEW l \in Link, AckTaken(n, l) PROVE LossInv'
  <2>0. PICK m \in Message : m = Arriving(n, l) /\ m.type = "TunnelAck"
    BY <1>13, ArrivalFits DEF AckTaken
  <2>1. PICK id \in UserLink : id = m.id
    BY <2>0, MessageFields
  <2>2. m = TunnelAck(id)
    BY <2>0, <2>1 DEF Message, TunnelAck
  <2> DEFINE c == Received(n, l)
  <2>3. PICK r \in Link \cup {Null} : r = prt[n][id]
    BY <1>13, <2>0, <2>1 DEF AckTaken, TypeOK
  <2>4. /\ UNCHANGED <<userLink, dt, buffered, lost>> /\ Arrives(n, l, "TunnelAck")
        /\ tib' = [tib EXCEPT ![n][id] = <<l, r>>] /\ prt' = [prt EXCEPT ![n][id] = Absent]
        /\ chan' = IF r = Null THEN c ELSE Emit(c, n, r, <<m>>)
    BY <1>13, <2>0, <2>1, <2>3 DEF AckTaken, RelayEntry
  <2>5. c \in Channels /\ Rest(OneTaken(Peer(n, l), l), c)
    BY <2>4, ArrivalType, RestOfReceived
  <2>6. /\ Extends(chan', c)
        /\ \A x \in Node, k \in Link : \A i \in Added(chan', c, x, k) :
             r # Null /\ x = n /\ k = r /\ chan'[x][k][i] = m
    <3>1. CASE r = Null
      BY <2>4, <2>5, <3>1 DEF Extends, Added, Channels
    <3>2. CASE r # Null
      <4> HIDE DEF c
      <4> QED BY <2>4, <2>5, <3>2, EmitOneExtends
    <3> QED BY <3>1, <3>2
  <2>7. /\ tib'[n][id] = <<l, r>> /\ tib'[n][id] # Absent
        /\ \A x \in Node, k \in UserLink :
             ~(x = n /\ k = id) => tib'[x][k] = tib[x][k] /\ prt'[x][k] = prt[x][k]
        /\ prt'[n][id] = Absent
    <3>1. /\ tib'[n][id] = <<l, r>>
          /\ \A x \in Node, k \in UserLink : ~(x = n /\ k = id) => tib'[x][k] = tib[x][k]
      BY <2>4, Typed, CellChanged
    <3>2. /\ prt'[n][id] = Absent
          /\ \A x \in Node, k \in UserLink : ~(x = n /\ k = id) => prt'[x][k] = prt[x][k]
      BY <2>4, Typed, CellChanged
    <3>3. <<l, r>> # Absent
      BY MarkerAssumption
    <3> QED BY <3>1, <3>2, <3>3
  <2>8. \A x \in Node, k \in UserLink : Informed(x, k) => Informed(x, k)'
    BY <2>7 DEF Informed
  <2>9. EntriesStay(OneTaken(Peer(n, l), l)) /\ LinksOnlyAdded
    BY <2>0, <2>1, <2>4, <2>7, <2>8, TakenStays DEF LinksOnlyAdded
  <2>10. r # Null => /\ HasDevice(userLink, n, r) /\ Peer(n, r) \in Node
                     /\ Informed(Peer(n, r), id)
    BY <1>13, <2>0, <2>1, <2>3, PeerOfPeer
    DEF AckTaken, LossInv, PrtFits, CameByInformed
  <2>11. LeadsOn(n, l, id)'
    <3>1. tib[Peer(n, l)][id] # Absent /\ Peer(n, l) \in Node /\ HasDevice(userLink', n, l)
      BY <2>0, <2>1, <2>4, ArrivalFits DEF Fits
    <3>2. tib'[Peer(n, l)][id] # Absent /\ Peer(n, l)' = Peer(n, l)
      BY <2>4, <2>7, <3>1 DEF Peer
    <3> QED BY <3>1, <3>2 DEF LeadsOn, FindsEntry
  <2>12. r # Null => LeadsOn(n, r, id)'
    <3>1. ASSUME r # Null
          PROVE  Len(chan'[n][r]) \in 1..Len(chan'[n][r]) /\ chan'[n][r][Len(chan'[n][r])] = m
      <4>1. c[n][r] \in Seq(Message) /\ chan'[n][r] = c[n][r] \o <<m>>
        BY <2>4, <2>5, <3>1 DEF Emit, Channels
      <4>2. chan'[n][r] = Append(c[n][r], m)
        BY <4>1, AppendIsConcat
      <4> HIDE DEF c
      <4> QED BY <4>1, <4>2, AppendProperties
    <3> QED BY <2>2, <2>4, <2>10, <3>1 DEF LeadsOn, FindsEntry
  <2>13. NewFit(c)
    <3>1. ASSUME NEW x \in Node, NEW k \in Link, NEW i \in Added(chan', c, x, k)
          PROVE  PacketFits(x, k, i)'
      <4>1. r # Null /\ x = n /\ k = r /\ chan'[x][k][i] = TunnelAck(id)
        BY <2>2, <2>6
      <4>2. Informed(Peer(n, r), id)' /\ HasDevice(userLink', n, r)
        BY <2>4, <2>8, <2>10, <4>1 DEF Informed, Peer
      <4>3. Fits(n, r, i, TunnelAck(id))'
        BY <2>7, <4>2 DEF Fits, TunnelAck
      <4> QED BY <4>1, <4>3 DEF PacketFits
    <3>2. TibFits(n, id)' /\ PrtFits(n, id)'
      BY <2>7, <2>11, <2>12 DEF TibFits, PrtFits
    <3> QED BY <2>7, <3>1, <3>2 DEF NewFit
  <2> HIDE DEF c
  <2> QED BY <1>type, <1>waits, <1>lost, <2>4, <2>5, <2>6, <2>9, <2>13, LossKept
<1>14. ASSUME NEW n \in Node, NEW id \in UserLink, SendBuffered(n, id) PROVE LossInv'
  <2>1. /\ UNCHANGED <<userLink, chan, prt, tib, lost>>
        /\ dt' = [dt EXCEPT ![n][id] = Append(@, NextPacket(n, id))]
        /\ buffered' = buffered \cup {NextPacket(n, id)}
    BY <1>14 DEF SendBuffered
  <2>2. WaitingIsBuffered'
    <3>1. ASSUME NEW m \in Node, NEW k \in UserLink, ~(m = n /\ k = id)
          PROVE  dt'[m][k] = dt[m][k]
      BY <2>1, <3>1 DEF TypeOK
    <3>2. dt'[n][id] = Append(dt[n][id], NextPacket(n, id)) /\ dt[n][id] \in Seq(NdnPacket)
      BY <2>1 DEF TypeOK
    <3>3. \A i \in DOMAIN dt'[n][id] : dt'[n][id][i] \in buffered'
      BY <2>1, <3>2 DEF LossInv, WaitingIsBuffered
    <3> QED BY <2>1, <3>1, <3>3 DEF LossInv, WaitingIsBuffered
  <2>3. OnlyBufferedLost'
    BY <2>1 DEF LossInv, OnlyBufferedLost
  <2> QED BY <1>type, <2>1, <2>2, <2>3, LossKeptQuietly DEF LinksOnlyAdded
<1>15. ASSUME \/ UpdateStart \/ UNCHANGED vars
              \/ \E st \in Station : Stay(st) \/ Leave(st)
       PROVE  LossInv'
  BY <1>1, <1>15 DEF UpdateStart, Stay, Leave, vars
<1> QED
  BY <1>2, <1>3, <1>4, <1>5, <1>7, <1>8, <1>9, <1>10, <1>11, <1>12, <1>13, <1>14, <1>15
  DEF Next, UpdateStation, DoSend, Receive, ProcessPacket, ProcessAck

\* A packet that did not wait in m_dt is never discarded for want of a TIB
\* entry: no node of a tunnel gets payload before the ack.
THEOREM UnbufferedNeverLost == Spec => []OnlyBufferedLost
<1>1. TypeOK /\ LossInv /\ [Next]_vars => (TypeOK /\ LossInv)'
  BY TypeStep, LossStep
<1>2. LossInv => OnlyBufferedLost
  BY DEF LossInv
<1> QED BY <1>1, <1>2, InitType, LossInit, PTL DEF Spec
=============================================================================
