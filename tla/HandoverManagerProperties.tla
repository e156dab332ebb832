--------------------- MODULE HandoverManagerProperties ---------------------
(***************************************************************************)
(* What makes the shim layer correct.                                      *)
(***************************************************************************)
EXTENDS HandoverManager

\* Types of all variables; a TIB or PRT entry names devices, a request in
\* flight has at least one and at most m_hopLimit hops left.
TypeOK ==
  /\ userLink \in Seq(Station \X Sat) /\ Len(userLink) <= MaxLink
  /\ p2pDevice \in [Node -> UserLink \cup {Null}]
  /\ todo \subseteq Station
  /\ isGone \in [Node -> SUBSET UserLink]
  /\ idList \in [Node -> SUBSET UserLink]
  /\ faceIdTable \in [Node -> SUBSET UserLink]
  /\ prt \in [Node -> [UserLink -> Link \cup {Null, Absent}]]
  /\ tib \in [Node -> [UserLink -> ((Link \cup {Null}) \X (Link \cup {Null})) \cup {Absent}]]
  /\ dt \in [Node -> [UserLink -> Seq(NdnPacket)]]
  /\ chan \in [Node -> [Link -> Seq(Message)]]
  /\ sent \in [Node -> [UserLink -> 0..MaxSend]]
  /\ handed \in [Node -> [UserLink -> Seq(NdnPacket)]]
  /\ buffered \subseteq NdnPacket
  /\ lost \subseteq NdnPacket

----------------------------------------------------------------------------
(* Devices and faces of the packets that use a tunnel.                     *)

\* TunnelPacket and ProcessPacket never use a null device or face, nor one the
\* node does not have: a payload in flight that finds a TIB entry comes by one
\* of its two devices, so that it either is at the end of the tunnel, whose
\* m_faceIdTable knows the link (else getFaceById(0) would be used), or goes on
\* by the other device, and that is one; and an end whose face is gone has a
\* device to send its own packets on.
PayloadHasDevice ==
  /\ \A n \in Node, l \in Link :
       LET id == Arriving(n, l).id
           entry == tib[n][id]
       IN  Arrives(n, l, "LinkPayload") /\ entry # Absent =>
             IF IsTunnelEnd(entry, l) THEN id \in faceIdTable[n]
             ELSE HasDevice(userLink, n, PayloadDevice(entry, l))
  /\ \A n \in Node : \A id \in isGone[n] :
       tib[n][id] # Absent => HasDevice(userLink, n, TunnelDevice(tib[n][id]))

\* The part of it that is about the entries alone, whatever packets meet them: an
\* entry has a device, and one with only one device is at a node that has recorded
\* a face for the link.
TunnelEndHasFace ==
  \A n \in Node, id \in UserLink :
    tib[n][id] # Absent =>
      /\ tib[n][id] # <<Null, Null>>
      /\ Null \in {tib[n][id][1], tib[n][id][2]} => id \in faceIdTable[n]

\* Why that holds: everything that leads to such an entry is about a link the
\* node has a face for, namely being a possible target, being the sender of
\* a request, and having a link to leave.
FaceRecorded ==
  /\ TunnelEndHasFace
  /\ \A n \in Node : idList[n] \subseteq faceIdTable[n]
  /\ \A n \in Node, id \in UserLink : prt[n][id] = Null => id \in faceIdTable[n]
  /\ \A st \in Station : p2pDevice[st] # Null => p2pDevice[st] \in faceIdTable[st]

----------------------------------------------------------------------------
(* Establishing a tunnel.                                                  *)

\* Nothing is in flight.
Quiet == \A n \in Node, l \in Link : chan[n][l] = <<>>

\* Satellites at most k inter-satellite links away from s.
Within(s, k) ==
  LET ball[i \in Nat] ==
        IF i = 0 THEN {s}
        ELSE ball[i-1] \cup
             {t \in Sat : \E l \in Isl : {IslEnds[l][1], IslEnds[l][2]} \in {{t, u} : u \in ball[i-1]}}
  IN  ball[k]

\* The access satellite the station of link id moved to when it left id.
NewAccess(id) ==
  LET later == {j \in DOMAIN userLink : j > id /\ userLink[j][1] = userLink[id][1]}
  IN  userLink[CHOOSE j \in later : \A i \in later : j <= i][2]

Requested(id) == prt[userLink[id][1]][id] = Null \/ tib[userLink[id][1]][id] # Absent

\* Once the network is quiet, a requested tunnel has reached the station if
\* and only if the previous access satellite is within m_hopLimit - 1
\* inter-satellite hops of the new one.
RequestAnswered ==
  Quiet /\ HopLimit > 0 => \A id \in DOMAIN userLink :
    Requested(id) =>
      (tib[userLink[id][1]][id] # Absent
         <=> userLink[id][2] \in Within(NewAccess(id), HopLimit - 1))

\* The node and device a payload of tunnel id has reached after i more hops.
Walk(n, id, hops) ==
  LET start == TunnelDevice(tib[n][id])
      at[i \in Nat] ==
        IF i = 0 THEN [node |-> Peer(n, start), by |-> start]
        ELSE LET h == at[i-1]
                 entry == tib[h.node][id]
             IN  IF entry = Absent \/ IsTunnelEnd(entry, h.by) THEN h
                 ELSE [node |-> Peer(h.node, PayloadDevice(entry, h.by)),
                       by   |-> PayloadDevice(entry, h.by)]
  IN  at[hops]

\* m leads to n: a payload that n sends into tunnel id is handed up by m.
LeadsTo(n, m, id) ==
  LET end == Walk(n, id, HopLimit + 1)
  IN  /\ tib[n][id] # Absent /\ end.node = m
      /\ tib[m][id] # Absent /\ IsTunnelEnd(tib[m][id], end.by)

\* When the ack has reached the station, the TIB entries of all nodes join
\* into one path between the station and the previous access satellite,
\* usable in both directions.
TunnelJoinsEnds ==
  Quiet => \A id \in DOMAIN userLink :
    LET st == userLink[id][1]
        sat == userLink[id][2]
    IN  tib[st][id] # Absent => LeadsTo(st, sat, id) /\ LeadsTo(sat, st, id)

\* A TIB entry is never overwritten or dropped: late copies of a request, of
\* an ack, and later handovers leave established tunnels alone.
TunnelNeverRerouted ==
  [][\A n \in Node, id \in UserLink : tib[n][id] # Absent => tib'[n][id] = tib[n][id]]_vars

\* No ack is "unsolicited or redundant" where it arrives: only one copy of a
\* request is answered, and nothing purges or changes the PRT entries on its
\* way before the ack does.
AckSolicited ==
  \A n \in Node, l \in Link :
    Arrives(n, l, "TunnelAck") => prt[n][Arriving(n, l).id] # Absent

----------------------------------------------------------------------------
(* Payload.                                                                *)

\* The shim layer implements the service it promises to NDN: at most once,
\* in order, and only by the other end of the same user link.
Service == INSTANCE UserLinkService
ServiceSpec == Service!Spec

\* The ack runs ahead of every payload sent into an established tunnel: only
\* packets that waited in m_dt can be discarded for want of a TIB entry.
OnlyBufferedLost == lost \subseteq buffered

\* Every packet that did not have to wait for a tunnel is handed up by the
\* other end of its user link: again and again all that were sent have been.
Arrived(p) ==
  \E m \in Node \ {p.from} : \E i \in DOMAIN handed[m][p.id] : handed[m][p.id][i] = p
Sent == {p \in NdnPacket : p.k <= sent[p.from][p.id]}
SentArrives == []<>(\A p \in Sent \ buffered : Arrived(p))

\* A satellite whose tunnel is established has nothing left in m_dt for it.
SatelliteBufferFlushed ==
  \A s \in Sat, id \in UserLink : tib[s][id] # Absent => dt[s][id] = <<>>

\* "send buffered data" (handover-manager.cpp:155): what was queued "for
\* later transmission" is not discarded on its way.
BufferedNotLost == lost = {}
=============================================================================
