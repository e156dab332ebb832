-------------------------- MODULE HandoverManager --------------------------
(***************************************************************************)
(* The shim layer of extensions/sat (DRLS): the HandoverManager of every   *)
(* node, the UserLinkTransports of its faces, the point-to-point devices   *)
(* that join them, and the part of Update (common.cpp) that moves stations *)
(* from satellite to satellite.  Shim mechanisms are on (m_doShim).        *)
(*                                                                         *)
(* A device is named by its link: a node has one device on each link it is *)
(* an end of, and one face for each device.  A user link is named by its   *)
(* number of creation, which stands for the "<mac>-<mac>" id of the code.  *)
(***************************************************************************)
EXTENDS Naturals, Sequences

CONSTANTS
  Sat,              \* satellites
  Station,          \* ground stations that are hosts
  Mobile,           \* stations with role "consumer" or "m_producer"
  Isl,              \* inter-satellite links
  IslEnds,          \* the two satellites of every link of Isl
  HopLimit,         \* HandoverManager::m_hopLimit
  MaxLink,          \* bound: user links created in a run
  MaxSend,          \* bound: packets NDN sends on one face
  Null,             \* nullptr
  Absent            \* no entry in a table

Node == Sat \cup Station
UserLink == 1..MaxLink
Link == Isl \cup UserLink

ASSUME NodeAssumption == Sat \cap Station = {} /\ Mobile \subseteq Station
ASSUME IslAssumption ==
  /\ Isl \cap Nat = {}
  /\ IslEnds \in [Isl -> Sat \X Sat]
  /\ \A l \in Isl : IslEnds[l][1] # IslEnds[l][2]
ASSUME BoundAssumption == HopLimit \in Nat /\ MaxLink \in Nat /\ MaxSend \in Nat
ASSUME MarkerAssumption ==
  /\ Null \notin Link /\ Absent \notin Link /\ Null # Absent
  /\ Absent \notin (Link \cup {Null}) \X (Link \cup {Null})

VARIABLES
  userLink,         \* the <<station, satellite>> of every user link so far
  p2pDevice,        \* the user link a station or satellite now has, or Null
  todo,             \* stations the running Update has still to look at
  isGone,           \* user links whose face at a node is marked m_isGone
  idList,           \* m_idList: user links a node would answer a request for
  faceIdTable,      \* m_faceIdTable: user links a node recorded its face for
  prt,              \* m_prt: the device the pending request of a link came by
  tib,              \* m_tib: the two devices of a tunnel
  dt,               \* m_dt: packets waiting for a tunnel
  chan,             \* packets in flight from a node on a link
  sent,             \* packets NDN sent so far on a face
  handed,           \* packets a face handed up to NDN, in order
  buffered,         \* history: packets that were put into m_dt
  lost              \* history: packets discarded for want of a TIB entry

\* Definitions whose name ends a pair (BroadcastReqAlways before BroadcastReq,
\* BufferKept before BufferErased, ...) and that nothing uses are slips the
\* code could have made; PROJECT.json lists the property that rules each out.

linkVars == <<userLink, p2pDevice, todo, isGone>>
shimVars == <<idList, faceIdTable, prt, tib, dt>>
ndnVars == <<sent, handed, buffered, lost>>
vars == <<linkVars, shimVars, chan, ndnVars>>

(***************************************************************************)
(* Packets.  An NDN packet is known by the face it was sent on and its     *)
(* number there; adaptation packets are those of core.hpp.                 *)
(***************************************************************************)
NdnPacket == [from : Node, id : UserLink, k : 1..MaxSend]

Ndn(p)         == [type |-> "Ndn", pkt |-> p]
LinkPayload(p) == [type |-> "LinkPayload", id |-> p.id, pkt |-> p]
TunnelReq(id, h) == [type |-> "TunnelReq", id |-> id, hopLimit |-> h]
TunnelAck(id)  == [type |-> "TunnelAck", id |-> id]

Message ==
  [type : {"Ndn"}, pkt : NdnPacket]
    \cup [type : {"LinkPayload"}, id : UserLink, pkt : NdnPacket]
    \cup [type : {"TunnelReq"}, id : UserLink, hopLimit : 1..HopLimit]
    \cup [type : {"TunnelAck"}, id : UserLink]

(***************************************************************************)
(* Links and devices.  `links' is a value of userLink.                     *)
(***************************************************************************)
EndsOf(links, l) == IF l \in Isl THEN IslEnds[l] ELSE links[l]

HasDevice(links, n, l) ==
  l \in Isl \cup DOMAIN links /\ n \in {EndsOf(links, l)[1], EndsOf(links, l)[2]}

Peer(n, l) ==
  IF EndsOf(userLink, l)[1] = n THEN EndsOf(userLink, l)[2] ELSE EndsOf(userLink, l)[1]

\* UserLinkTransport::emit, and NetDevice::Send: queue on the device, whether
\* its face is gone or not.
Emit(c, n, l, msgs) == [c EXCEPT ![n][l] = @ \o msgs]

(***************************************************************************)
(* BroadcastReq: the devices it emits on, and the channels after it.  A    *)
(* zero hopLimit marks the sender of the request.                          *)
(***************************************************************************)
HopsLeftLong(hopLimit) == IF hopLimit = 0 THEN HopLimit + 1 ELSE hopLimit - 1
HopsLeft(hopLimit) == (IF hopLimit = 0 THEN HopLimit + 1 ELSE hopLimit) - 1

ReqDevices(links, gone, n, lasthop) ==
  {l \in Link \ (gone \cup {lasthop}) : HasDevice(links, n, l)}

BroadcastReqAlways(c, links, gone, n, id, hopLimit, lasthop) ==
  [c EXCEPT ![n] = [l \in Link |->
     IF l \in ReqDevices(links, gone, n, lasthop)
     THEN Append(c[n][l], TunnelReq(id, HopsLeft(hopLimit)))
     ELSE c[n][l]]]

BroadcastReq(c, links, gone, n, id, hopLimit, lasthop) ==
  [c EXCEPT ![n] = [l \in Link |->
     IF HopsLeft(hopLimit) # 0 /\ l \in ReqDevices(links, gone, n, lasthop)
     THEN Append(c[n][l], TunnelReq(id, HopsLeft(hopLimit)))
     ELSE c[n][l]]]

\* The sender of the request marks itself as destination in its PRT.
DestinationMark(table, n, id) ==
  IF HopsLeft(0) # 0 THEN [table EXCEPT ![n][id] = Null] ELSE table

(***************************************************************************)
(* Initially there is no user link: the first Update attaches stations.    *)
(***************************************************************************)
Init ==
  /\ userLink = <<>>
  /\ p2pDevice = [n \in Node |-> Null]
  /\ todo = {}
  /\ isGone = [n \in Node |-> {}]
  /\ idList = [n \in Node |-> {}]
  /\ faceIdTable = [n \in Node |-> {}]
  /\ prt = [n \in Node |-> [id \in UserLink |-> Absent]]
  /\ tib = [n \in Node |-> [id \in UserLink |-> Absent]]
  /\ dt = [n \in Node |-> [id \in UserLink |-> <<>>]]
  /\ chan = [n \in Node |-> [l \in Link |-> <<>>]]
  /\ sent = [n \in Node |-> [id \in UserLink |-> 0]]
  /\ handed = [n \in Node |-> [id \in UserLink |-> <<>>]]
  /\ buffered = {}
  /\ lost = {}

(***************************************************************************)
(* Update runs every `updateInterval' minutes as one event that goes over  *)
(* all stations.  A link takes 10 ms and carries 1 Gb/s, so what the       *)
(* Update before set off is over: its requests and acks, the payload in    *)
(* its tunnels, and what was on the links it left.  Applications go on     *)
(* sending, so the present links may have packets on them, which are still *)
(* in flight when a station leaves its link.                               *)
(***************************************************************************)
Settled ==
  \A n \in Node, l \in Link : \A i \in DOMAIN chan[n][l] :
    chan[n][l][i].type = "Ndn" /\ l \notin isGone[n]

UpdateStart ==
  /\ todo = {} /\ Settled
  /\ todo' = Station
  /\ UNCHANGED <<userLink, p2pDevice, isGone, shimVars, chan, ndnVars>>

\* The station keeps its satellite, or still has none.
Stay(st) ==
  /\ st \in todo
  /\ todo' = todo \ {st}
  /\ UNCHANGED <<userLink, p2pDevice, isGone, shimVars, chan, ndnVars>>

\* DetachPrefix: both faces of the station's user link are marked gone.
Detached(st) ==
  LET id == p2pDevice[st]
  IN  [n \in Node |-> IF n \in {st, userLink[id][2]} THEN isGone[n] \cup {id} ELSE isGone[n]]

\* Handover to "-": no satellite is within range.
Leave(st) ==
  /\ st \in todo /\ p2pDevice[st] # Null
  /\ isGone' = Detached(st)
  /\ p2pDevice' = [p2pDevice EXCEPT ![st] = Null, ![userLink[p2pDevice[st]][2]] = Null]
  /\ todo' = todo \ {st}
  /\ UNCHANGED <<userLink, shimVars, chan, ndnVars>>

NewId == Len(userLink) + 1

\* AddUserLink, called for the station and for its new access satellite.
AddUserLink(table, st, s) ==
  [n \in Node |-> IF n \in {st, s} THEN table[n] \cup {NewId} ELSE table[n]]

RecordFaceAtStation(st, s) ==
  [n \in Node |-> IF n = st THEN faceIdTable[n] \cup {NewId} ELSE faceIdTable[n]]
RecordFace(st, s) == AddUserLink(faceIdTable, st, s)

\* The first attachment, or the first after a period without a satellite:
\* there is no previous user link, so no request is sent.  A satellite is
\* taken to serve one station at a time (the unasserted TODO of Update).
Enter(st, s) ==
  /\ st \in todo /\ p2pDevice[st] = Null /\ p2pDevice[s] = Null
  /\ NewId <= MaxLink
  /\ userLink' = Append(userLink, <<st, s>>)
  /\ p2pDevice' = [p2pDevice EXCEPT ![st] = NewId, ![s] = NewId]
  /\ idList' = AddUserLink(idList, st, s)
  /\ faceIdTable' = RecordFace(st, s)
  /\ todo' = todo \ {st}
  /\ UNCHANGED <<isGone, prt, tib, dt, chan, ndnVars>>

\* Handover from one satellite to another, or to a new link of the same one:
\* a mobile station then requests a tunnel for the link it has left.
Move(st, s) ==
  LET oldId == p2pDevice[st]
      links == Append(userLink, <<st, s>>)
  IN  /\ st \in todo /\ oldId # Null
      /\ s = userLink[oldId][2] \/ p2pDevice[s] = Null
      /\ NewId <= MaxLink
      /\ isGone' = Detached(st)
      /\ userLink' = links
      /\ p2pDevice' = [p2pDevice EXCEPT ![userLink[oldId][2]] = Null, ![st] = NewId, ![s] = NewId]
      /\ idList' = AddUserLink(idList, st, s)
      /\ faceIdTable' = RecordFace(st, s)
      /\ IF st \in Mobile
           THEN /\ chan' = BroadcastReq(chan, links, Detached(st)[st], st, oldId, 0, Null)
                /\ prt' = DestinationMark(prt, st, oldId)
           ELSE UNCHANGED <<chan, prt>>
      /\ todo' = todo \ {st}
      /\ UNCHANGED <<tib, dt, ndnVars>>

(***************************************************************************)
(* UserLinkTransport::doSend: NDN sends its next packet on the face of a   *)
(* user link.  A gone face hands the packet to TunnelPacket, which buffers *)
(* it until the tunnel is there.                                           *)
(***************************************************************************)
TunnelDevice(entry) == IF entry[1] = Null THEN entry[2] ELSE entry[1]

NextPacket(n, id) == [from |-> n, id |-> id, k |-> sent[n][id] + 1]

CanSend(n, id) ==
  /\ todo = {}
  /\ id \in DOMAIN userLink /\ n \in {userLink[id][1], userLink[id][2]}
  /\ sent[n][id] < MaxSend

SendDirect(n, id) ==
  /\ CanSend(n, id) /\ id \notin isGone[n]
  /\ chan' = Emit(chan, n, id, <<Ndn(NextPacket(n, id))>>)
  /\ sent' = [sent EXCEPT ![n][id] = @ + 1]
  /\ UNCHANGED <<linkVars, shimVars, handed, buffered, lost>>

SendTunnelled(n, id) ==
  /\ CanSend(n, id) /\ id \in isGone[n] /\ tib[n][id] # Absent
  /\ chan' = Emit(chan, n, TunnelDevice(tib[n][id]), <<LinkPayload(NextPacket(n, id))>>)
  /\ sent' = [sent EXCEPT ![n][id] = @ + 1]
  /\ UNCHANGED <<linkVars, shimVars, handed, buffered, lost>>

SendBuffered(n, id) ==
  /\ CanSend(n, id) /\ id \in isGone[n] /\ tib[n][id] = Absent
  /\ dt' = [dt EXCEPT ![n][id] = Append(@, NextPacket(n, id))]
  /\ buffered' = buffered \cup {NextPacket(n, id)}
  /\ sent' = [sent EXCEPT ![n][id] = @ + 1]
  /\ UNCHANGED <<linkVars, idList, faceIdTable, prt, tib, chan, handed, lost>>

(***************************************************************************)
(* UserLinkTransport::receiveFromNetDevice: the packet at the head of a    *)
(* link reaches node n by its device l.                                    *)
(***************************************************************************)
Arrives(n, l, type) ==
  /\ todo = {}
  /\ HasDevice(userLink, n, l)
  /\ chan[Peer(n, l)][l] # <<>>
  /\ Head(chan[Peer(n, l)][l]).type = type

Arriving(n, l) == Head(chan[Peer(n, l)][l])
Received(n, l) == [chan EXCEPT ![Peer(n, l)][l] = Tail(@)]

ReceiveNdn(n, l) ==
  /\ Arrives(n, l, "Ndn")
  /\ chan' = Received(n, l)
  /\ handed' = [handed EXCEPT ![n][l] = Append(@, Arriving(n, l).pkt)]
  /\ UNCHANGED <<linkVars, shimVars, sent, buffered, lost>>

(***************************************************************************)
(* ProcessPacket, TunnelReq.                                               *)
(***************************************************************************)
\* The device the answering node records, and what it emits towards lasthop:
\* the packets it had buffered, then the ack.
TargetEntry(lasthop) == <<Null, lasthop>>
FlushedPayloads(n, id) == [i \in DOMAIN dt[n][id] |-> LinkPayload(dt[n][id][i])]
AnswerWithoutAck(n, id) == FlushedPayloads(n, id)
Answer(n, id) == FlushedPayloads(n, id) \o <<TunnelAck(id)>>

BufferKept(n, id) == dt
BufferErased(n, id) == [dt EXCEPT ![n][id] = <<>>]

TargetKept(n, id) == idList
TargetErased(n, id) == [idList EXCEPT ![n] = @ \ {id}]

ReqAtTarget(n, l) ==
  LET id == Arriving(n, l).id
  IN  /\ Arrives(n, l, "TunnelReq") /\ id \in idList[n]
      /\ tib' = [tib EXCEPT ![n][id] = TargetEntry(l)]
      /\ chan' = Emit(Received(n, l), n, l, Answer(n, id))
      /\ dt' = BufferErased(n, id)
      /\ idList' = TargetErased(n, id)
      /\ UNCHANGED <<linkVars, faceIdTable, prt, ndnVars>>

ReqLoop(n, l) ==
  LET id == Arriving(n, l).id
  IN  /\ Arrives(n, l, "TunnelReq") /\ id \notin idList[n] /\ prt[n][id] # Absent
      /\ chan' = Received(n, l)
      /\ UNCHANGED <<linkVars, shimVars, ndnVars>>

Pending(n, id, lasthop) == [prt EXCEPT ![n][id] = lasthop]

ReqRelay(n, l) ==
  LET id == Arriving(n, l).id
  IN  /\ Arrives(n, l, "TunnelReq") /\ id \notin idList[n] /\ prt[n][id] = Absent
      /\ prt' = Pending(n, id, l)
      /\ chan' = BroadcastReq(Received(n, l), userLink, isGone[n], n, id,
                              Arriving(n, l).hopLimit, l)
      /\ UNCHANGED <<linkVars, idList, faceIdTable, tib, dt, ndnVars>>

(***************************************************************************)
(* ProcessPacket, TunnelAck.                                               *)
(***************************************************************************)
RelayEntry(lasthop, rLasthop) == <<lasthop, rLasthop>>

AckUnsolicited(n, l) ==
  /\ Arrives(n, l, "TunnelAck") /\ prt[n][Arriving(n, l).id] = Absent
  /\ chan' = Received(n, l)
  /\ UNCHANGED <<linkVars, shimVars, ndnVars>>

AckTaken(n, l) ==
  LET id == Arriving(n, l).id
      rLasthop == prt[n][id]
  IN  /\ Arrives(n, l, "TunnelAck") /\ rLasthop # Absent
      /\ chan' = IF rLasthop = Null
                   THEN Received(n, l)
                   ELSE Emit(Received(n, l), n, rLasthop, <<Arriving(n, l)>>)
      /\ tib' = [tib EXCEPT ![n][id] = RelayEntry(l, rLasthop)]
      /\ prt' = [prt EXCEPT ![n][id] = Absent]
      /\ UNCHANGED <<linkVars, idList, faceIdTable, dt, ndnVars>>

\* Whether the Ack is still expected is for the PRT to say.  With the hop
\* limits in use it always is (AckSolicited).
ProcessAck(n, l) ==
  /\ Arrives(n, l, "TunnelAck")
  /\ IF prt[n][Arriving(n, l).id] = Absent THEN AckUnsolicited(n, l) ELSE AckTaken(n, l)

(***************************************************************************)
(* ProcessPacket, LinkPayload.  Tunnel `id' exists no sooner than a request *)
(* has crossed a link, so its payload arrives at least two delays after     *)
(* the Update that left link `id'.  What was in flight on that link then    *)
(* arrives within one, all links having the same delay.                     *)
(***************************************************************************)
InFlightDirectly(id) ==
  \E n \in Node : \E i \in DOMAIN chan[n][id] : chan[n][id][i].type = "Ndn"

PayloadArrives(n, l) ==
  Arrives(n, l, "LinkPayload") /\ ~InFlightDirectly(Arriving(n, l).id)

IsTargetEnd(entry, lasthop) == entry = <<Null, lasthop>>
IsTunnelEnd(entry, lasthop) == entry \in {<<Null, lasthop>>, <<lasthop, Null>>}
PayloadBack(entry, lasthop) == IF entry[1] = lasthop THEN entry[1] ELSE entry[2]
PayloadFirst(entry, lasthop) == entry[1]
PayloadDevice(entry, lasthop) == IF entry[1] = lasthop THEN entry[2] ELSE entry[1]

PayloadDiscarded(n, l) ==
  /\ PayloadArrives(n, l) /\ tib[n][Arriving(n, l).id] = Absent
  /\ chan' = Received(n, l)
  /\ lost' = lost \cup {Arriving(n, l).pkt}
  /\ UNCHANGED <<linkVars, shimVars, sent, handed, buffered>>

PayloadHandedUp(n, l) ==
  LET id == Arriving(n, l).id
  IN  /\ PayloadArrives(n, l) /\ tib[n][id] # Absent /\ IsTunnelEnd(tib[n][id], l)
      /\ chan' = Received(n, l)
      /\ handed' = [handed EXCEPT ![n][id] = Append(@, Arriving(n, l).pkt)]
      /\ UNCHANGED <<linkVars, shimVars, sent, buffered, lost>>

PayloadRelayed(n, l) ==
  LET id == Arriving(n, l).id
  IN  /\ PayloadArrives(n, l) /\ tib[n][id] # Absent /\ ~IsTunnelEnd(tib[n][id], l)
      /\ chan' = Emit(Received(n, l), n, PayloadDevice(tib[n][id], l), <<Arriving(n, l)>>)
      /\ UNCHANGED <<linkVars, shimVars, ndnVars>>

(***************************************************************************)
(* The specification.                                                      *)
(***************************************************************************)
ProcessPacket(n, l) ==
  \/ ReqAtTarget(n, l) \/ ReqLoop(n, l) \/ ReqRelay(n, l)
  \/ ProcessAck(n, l)
  \/ PayloadDiscarded(n, l) \/ PayloadHandedUp(n, l) \/ PayloadRelayed(n, l)

Receive(n, l) == ReceiveNdn(n, l) \/ ProcessPacket(n, l)

UpdateStation(st) == Stay(st) \/ Leave(st) \/ \E s \in Sat : Enter(st, s) \/ Move(st, s)

DoSend(n, id) == SendDirect(n, id) \/ SendTunnelled(n, id) \/ SendBuffered(n, id)

Next ==
  \/ UpdateStart
  \/ \E st \in Station : UpdateStation(st)
  \/ \E n \in Node, id \in UserLink : DoSend(n, id)
  \/ \E n \in Node, l \in Link : Receive(n, l)

Spec == Init /\ [][Next]_vars

\* The simulator delivers every packet, also when Updates follow each other,
\* and ends every Update event.
Fairness ==
  /\ SF_vars(\E n \in Node, l \in Link : Receive(n, l))
  /\ \A st \in Station : WF_vars(UpdateStation(st))

FairSpec == Spec /\ Fairness
=============================================================================
