------------------------ MODULE HandoverService_proofs ------------------------
(***************************************************************************)
(* Proof that the shim layer implements UserLinkService: NDN's packets are *)
(* handed up at most once, in order, and only at the other end of their    *)
(* own user link.  It holds for every constellation, set of stations and   *)
(* number of handovers, and any hop limit up to 3; the code's is 2.        *)
(*                                                                         *)
(* The TIB entries of a link form a chain from the satellite that was left *)
(* towards the station, where each names the devices that lead to the next *)
(* and to the one before.  Numbered along the chain, packets from one end  *)
(* that are further on have smaller numbers, and all have larger ones than *)
(* what the other end has handed up and what is still on the link itself.  *)
(* The chain also shows that a packet in a tunnel always finds a device to *)
(* go on by.                                                               *)
(***************************************************************************)
EXTENDS HandoverTunnel_proofs

HasEntry(n, id) == tib[n][id] # Absent

\* The next node towards the station, and the one towards the satellite.
Onward(n, id) == Peer(n, tib[n][id][2])
Back(n, id) == Peer(n, tib[n][id][1])

\* A node that is not the first of the chain is known to the one before, which
\* it names; the last one is the station or leads to a node without an entry.
KnowsBack(n, id, rank) ==
  IF n = Target(id) THEN tib[n][id][1] = Null /\ rank[n] = 0
  ELSE /\ tib[n][id][1] # Null /\ HasEntry(Back(n, id), id)
       /\ tib[Back(n, id)][id][2] = tib[n][id][1]
       /\ rank[n] = rank[Back(n, id)] + 1
KnowsOnward(n, id, rank) ==
  /\ tib[n][id][2] = Null <=> n = Owner(id)
  /\ \/ /\ n # Owner(id) /\ HasEntry(Onward(n, id), id)
        /\ tib[Onward(n, id)][id][1] = tib[n][id][2]
     \/ /\ n # Owner(id) => ~HasEntry(Onward(n, id), id)
        /\ \A m \in Node : HasEntry(m, id) => rank[m] <= rank[n]

Chain(id, rank) ==
  /\ \A n \in Node : HasEntry(n, id) =>
       id \in DOMAIN userLink /\ KnowsBack(n, id, rank) /\ KnowsOnward(n, id, rank)
  /\ \A n, m \in Node : HasEntry(n, id) /\ HasEntry(m, id) /\ rank[n] = rank[m] => n = m

\* Acks run along the chain.
AckOnChain(id) ==
  \A n \in Node, l \in Link : \A i \in DOMAIN chan[n][l] :
    chan[n][l][i] = TunnelAck(id) => HasEntry(n, id) /\ l = tib[n][id][2]

----------------------------------------------------------------------------
(* The packets on their way.                                               *)

OtherEnd(n, id) == IF n = Owner(id) THEN Target(id) ELSE Owner(id)

\* p has been sent, and neither it nor a later one has been handed up.
Unread(p) ==
  /\ p.id \in DOMAIN userLink /\ p.from \in {Owner(p.id), Target(p.id)}
  /\ p.k <= sent[p.from][p.id]
  /\ Service!LastHanded(OtherEnd(p.from, p.id), p.id) < p.k

\* It is unread, and the face it was sent on is gone.
Detoured(p) == Unread(p) /\ p.id \in isGone[p.from]

\* Payload follows the chain, in one direction or the other.
IsPayload(m, id) == m.type = "LinkPayload" /\ m.id = id
IsDown(p) == p.from = Target(p.id)
PayloadFits(n, l, id, p) ==
  /\ p.id = id /\ Detoured(p) /\ HasEntry(n, id)
  /\ l = IF IsDown(p) THEN tib[n][id][2] ELSE tib[n][id][1]
PayloadOnChain(id) ==
  \A n \in Node, l \in Link : \A i \in DOMAIN chan[n][l] :
    IsPayload(chan[n][l][i], id) => PayloadFits(n, l, id, chan[n][l][i].pkt)

\* The i-th packet from n on l has further to go than the j-th from m on k.
Behind(n, l, i, m, k, j, down, rank) ==
  \/ n = m /\ l = k /\ i > j
  \/ IF down THEN rank[n] < rank[m] ELSE rank[m] < rank[n]

SameFlow(x, y, id) == IsPayload(x, id) /\ IsPayload(y, id) /\ x.pkt.from = y.pkt.from
Ordered(n, l, i, m, k, j, id, rank) ==
  /\ SameFlow(chan[n][l][i], chan[m][k][j], id)
  /\ Behind(n, l, i, m, k, j, IsDown(chan[n][l][i].pkt), rank)
  => chan[m][k][j].pkt.k < chan[n][l][i].pkt.k
InOrder(id, rank) ==
  \A n, m \in Node, l, k \in Link : \A i \in DOMAIN chan[n][l], j \in DOMAIN chan[m][k] :
    Ordered(n, l, i, m, k, j, id, rank)

Served(id) ==
  /\ AckOnChain(id) /\ PayloadOnChain(id)
  /\ \E rank \in [Node -> Nat] : Chain(id, rank) /\ InOrder(id, rank)

\* What NDN has sent directly is on the link itself, in order.
IsDirect(n, l, p) == p.id = l /\ p.from = n /\ Unread(p)
DirectFits(n, l, i) ==
  /\ IsDirect(n, l, chan[n][l][i].pkt)
  /\ \A j \in DOMAIN chan[n][l] :
       chan[n][l][j].type = "Ndn" /\ j < i => chan[n][l][j].pkt.k < chan[n][l][i].pkt.k
DirectServed ==
  \A n \in Node, l \in Link : \A i \in DOMAIN chan[n][l] :
    chan[n][l][i].type = "Ndn" => DirectFits(n, l, i)

\* What waits in m_dt of a satellite is in order.
BufferServed ==
  \A s \in Sat, id \in UserLink : \A i \in DOMAIN dt[s][id] :
    /\ dt[s][id][i].id = id /\ dt[s][id][i].from = s /\ Detoured(dt[s][id][i])
    /\ \A j \in DOMAIN dt[s][id] : j < i => dt[s][id][j].k < dt[s][id][i].k

\* Nothing is handed up that has not been sent.
HandedSent ==
  \A n \in Node, id \in UserLink : handed[n][id] # <<>> =>
    /\ id \in DOMAIN userLink /\ n \in {Owner(id), Target(id)}
    /\ Service!LastHanded(n, id) <= sent[OtherEnd(n, id)][id]

\* What was sent on the link before it was left is ahead of what came later: a
\* packet that is in a tunnel, or waits for one, is after those sent directly.
Direct(p) ==
  \E n \in Node, l \in Link : \E i \in DOMAIN chan[n][l] :
    chan[n][l][i].type = "Ndn" /\ chan[n][l][i].pkt = p
OnDetour(q) ==
  \/ \E n \in Node, l \in Link : \E i \in DOMAIN chan[n][l] :
       chan[n][l][i].type = "LinkPayload" /\ chan[n][l][i].pkt = q
  \/ \E s \in Sat, id \in UserLink : \E i \in DOMAIN dt[s][id] : dt[s][id][i] = q
AfterDirect(q) == \A p \in NdnPacket : Direct(p) /\ p.from = q.from /\ p.id = q.id => p.k < q.k
DirectFirst == \A q \in NdnPacket : OnDetour(q) => AfterDirect(q)

ServiceInv ==
  /\ DirectServed /\ BufferServed /\ DirectFirst /\ HandedSent
  /\ \A id \in UserLink : Served(id)
----------------------------------------------------------------------------
(* Packets that wait to be handed up.                                      *)

\* A packet that waits for a tunnel.
LEMMA WaitingIs ==
  ASSUME TypeOK, BufferServed, NEW s \in Sat, NEW id \in UserLink, NEW i \in DOMAIN dt[s][id]
  PROVE  /\ dt[s][id][i] \in NdnPacket /\ Detoured(dt[s][id][i])
         /\ dt[s][id][i].id = id /\ dt[s][id][i].from = s
<1>1. dt[s][id] \in Seq(NdnPacket)
  BY Typed DEF Node
<1>2. dt[s][id][i] \in NdnPacket
  BY <1>1
<1> QED BY <1>2 DEF BufferServed

\* Nothing is put into m_dt or flushed from it.
LEMMA WaitingSame ==
  ASSUME BufferServed, dt' = dt,
         \A s \in Sat, id \in UserLink : \A i \in DOMAIN dt[s][id] : Detoured(dt[s][id][i])'
  PROVE  BufferServed'
<1> SUFFICES ASSUME NEW s \in Sat, NEW id \in UserLink, NEW i \in DOMAIN dt[s][id]
             PROVE  /\ dt[s][id][i].id = id /\ dt[s][id][i].from = s /\ Detoured(dt[s][id][i])'
                    /\ \A j \in DOMAIN dt[s][id] : j < i => dt[s][id][j].k < dt[s][id][i].k
  BY DEF BufferServed
<1> QED BY DEF BufferServed

\* What every step does with links and counts.
Grows ==
  /\ LinksOnlyAdded
  /\ \A n \in Node, id \in UserLink : sent[n][id] <= sent'[n][id]
  /\ \A n \in Node : isGone[n] \subseteq isGone'[n]

LEMMA EndsStay ==
  ASSUME TypeOK, LinksOnlyAdded, NEW id \in DOMAIN userLink
  PROVE  /\ id \in DOMAIN userLink' /\ id \in UserLink
         /\ Owner(id) \in Node /\ Target(id) \in Node /\ Owner(id) # Target(id)
         /\ Target(id) \in Sat /\ Owner(id) \notin Sat
         /\ Owner(id)' = Owner(id) /\ Target(id)' = Target(id)
         /\ \A n : OtherEnd(n, id)' = OtherEnd(n, id) /\ OtherEnd(n, id) \in Node
<1>1. /\ id \in DOMAIN userLink' /\ userLink'[id] = userLink[id]
  BY LinksStay
<1>2. /\ id \in UserLink /\ Owner(id) \in Node /\ Target(id) \in Node /\ Owner(id) # Target(id)
      /\ Target(id) \in Sat /\ Owner(id) \notin Sat
  BY OwnerType, NodeAssumption
<1>3. Owner(id)' = Owner(id) /\ Target(id)' = Target(id)
  BY <1>1 DEF Owner, Target
<1> QED BY <1>1, <1>2, <1>3 DEF OtherEnd

\* A packet remains unread unless its own face hands something up.
LEMMA UnreadStays ==
  ASSUME TypeOK, TypeOK', Grows, NEW p \in NdnPacket, Unread(p),
         handed'[OtherEnd(p.from, p.id)][p.id] = handed[OtherEnd(p.from, p.id)][p.id]
  PROVE  /\ Unread(p)'
         /\ Detoured(p) => Detoured(p)'
<1>1. p.id \in DOMAIN userLink /\ p.from \in Node /\ p.id \in UserLink /\ p.k \in Nat
  BY BoundAssumption DEF Unread, NdnPacket
<1>2. /\ p.id \in DOMAIN userLink'
      /\ Owner(p.id)' = Owner(p.id) /\ Target(p.id)' = Target(p.id)
      /\ OtherEnd(p.from, p.id)' = OtherEnd(p.from, p.id)
  BY <1>1, EndsStay DEF Grows
<1>3. sent[p.from][p.id] \in Nat /\ sent'[p.from][p.id] \in Nat
      /\ sent[p.from][p.id] <= sent'[p.from][p.id]
  BY <1>1 DEF TypeOK, Grows
<1>4. Service!LastHanded(OtherEnd(p.from, p.id), p.id)'
        = Service!LastHanded(OtherEnd(p.from, p.id), p.id)
  BY <1>2 DEF Service!LastHanded
<1>5. Unread(p)'
  BY <1>1, <1>2, <1>3, <1>4 DEF Unread
<1> QED BY <1>1, <1>5 DEF Detoured, Grows

\* A face hands up the first unread packet of the other end of its link.
LEMMA HandedUp ==
  ASSUME TypeOK, TypeOK', HandedSent, NEW p \in NdnPacket, Unread(p),
         NEW n, n = OtherEnd(p.from, p.id), NEW id, id = p.id,
         handed' = [handed EXCEPT ![n][id] = Append(@, p)],
         UNCHANGED <<userLink, sent, isGone>>
  PROVE  /\ Service!HandUp(n, id) /\ HandedSent'
         /\ \A q \in NdnPacket :
              Unread(q) /\ (q.from = p.from /\ q.id = p.id => p.k < q.k) => Unread(q)'
<1>1. /\ id \in DOMAIN userLink /\ id \in UserLink /\ p.from \in Node /\ p.k \in Nat
      /\ p.from \in {Owner(id), Target(id)} /\ p.k <= sent[p.from][id]
      /\ Service!LastHanded(n, id) < p.k
  BY BoundAssumption DEF Unread, NdnPacket
<1>2. /\ Owner(id) # Target(id) /\ Owner(id) \in Node /\ Target(id) \in Node /\ n \in Node
      /\ n \in {Owner(id), Target(id)} /\ n # p.from /\ OtherEnd(n, id) = p.from
  BY <1>1, OwnerType DEF OtherEnd
<1>3. /\ handed[n][id] \in Seq(NdnPacket) /\ handed'[n][id] = Append(handed[n][id], p)
      /\ \A m \in Node, k \in UserLink : ~(m = n /\ k = id) => handed'[m][k] = handed[m][k]
  <2>1. handed \in [Node -> [UserLink -> Seq(NdnPacket)]]
    BY DEF TypeOK
  <2> QED BY <1>1, <1>2, <2>1
<1>4. Service!LastHanded(n, id)' = p.k /\ handed'[n][id] # <<>>
  <2>1. /\ Len(Append(handed[n][id], p)) = Len(handed[n][id]) + 1
        /\ Append(handed[n][id], p)[Len(handed[n][id]) + 1] = p
        /\ Len(handed[n][id]) \in Nat /\ Append(handed[n][id], p) \in Seq(NdnPacket)
    BY <1>3, AppendProperties
  <2>2. \A s \in Seq(NdnPacket) : Len(s) = Len(handed[n][id]) + 1 => s # <<>>
    BY <2>1
  <2>3. handed'[n][id] # <<>> /\ handed'[n][id][Len(handed'[n][id])] = p
    BY <1>3, <2>1, <2>2
  <2> QED BY <2>3 DEF Service!LastHanded
<1>5. Service!HandUp(n, id)
  <2>1. p = Service!Packet(p.from, id, p.k)
    BY DEF NdnPacket, Service!Packet
  <2>2. p.from \in Service!EndsOf(id) \ {n} /\ n \in Service!EndsOf(id)
    BY <1>1, <1>2 DEF Service!EndsOf, Owner, Target
  <2>3. Service!LastHanded(n, id) \in Nat /\ sent[p.from][id] \in Nat
    <3>1. handed[n][id] # <<>> => handed[n][id][Len(handed[n][id])] \in NdnPacket
      BY <1>3
    <3>2. \A q \in NdnPacket : q.k \in Nat
      BY BoundAssumption DEF NdnPacket
    <3>3. Service!LastHanded(n, id) \in Nat
      BY <3>1, <3>2 DEF Service!LastHanded
    <3>4. sent[p.from][id] \in Nat
      BY <1>1 DEF TypeOK
    <3> QED BY <3>3, <3>4
  <2>4. p.k \in Service!LastHanded(n, id)+1 .. sent[p.from][id]
    BY <1>1, <2>3
  <2> QED BY <1>1, <2>1, <2>2, <2>4 DEF Service!HandUp
<1>6. \A x, k : OtherEnd(x, k)' = OtherEnd(x, k) /\ Owner(k)' = Owner(k) /\ Target(k)' = Target(k)
  BY DEF OtherEnd, Owner, Target
<1>7. HandedSent'
  <2> SUFFICES ASSUME NEW m \in Node, NEW k \in UserLink, handed'[m][k] # <<>>
               PROVE  /\ k \in DOMAIN userLink /\ m \in {Owner(k), Target(k)}
                      /\ Service!LastHanded(m, k)' <= sent[OtherEnd(m, k)][k]
    BY <1>6 DEF HandedSent
  <2>1. CASE m = n /\ k = id
    BY <1>1, <1>2, <1>4, <2>1
  <2>2. CASE ~(m = n /\ k = id)
    <3>1. handed'[m][k] = handed[m][k]
      BY <1>3, <2>2
    <3> QED BY <3>1 DEF HandedSent, Service!LastHanded
  <2> QED BY <2>1, <2>2
<1>8. ASSUME NEW q \in NdnPacket, Unread(q), q.from = p.from /\ q.id = p.id => p.k < q.k
      PROVE  Unread(q)'
  <2>1. q.from \in Node /\ q.id \in UserLink /\ q.id \in DOMAIN userLink
    BY <1>8 DEF NdnPacket, Unread
  <2>2. CASE q.from = p.from /\ q.id = p.id
    BY <1>4, <1>6, <1>8, <2>2 DEF Unread
  <2>3. CASE ~(q.from = p.from /\ q.id = p.id)
    <3>1. ~(OtherEnd(q.from, q.id) = n /\ q.id = id) /\ OtherEnd(q.from, q.id) \in Node
      BY <1>2, <1>8, <2>1, <2>3, OwnerType DEF Unread, OtherEnd
    <3>2. handed'[OtherEnd(q.from, q.id)][q.id] = handed[OtherEnd(q.from, q.id)][q.id]
      BY <1>3, <2>1, <3>1
    <3> QED BY <1>6, <1>8, <3>2 DEF Unread, Service!LastHanded
  <2> QED BY <2>2, <2>3
<1> QED BY <1>5, <1>7, <1>8

----------------------------------------------------------------------------
(* Chains.                                                                 *)

\* The devices of an entry lead to nodes.
LEMMA EntryDevices ==
  ASSUME TypeOK, LossInv, NEW n \in Node, NEW id \in UserLink, HasEntry(n, id), NEW d \in {1, 2},
         NEW l, l = tib[n][id][d], l # Null
  PROVE  /\ l \in Link /\ HasDevice(userLink, n, l)
         /\ Peer(n, l) \in Node /\ Peer(n, l) # n /\ Peer(Peer(n, l), l) = n
<1>1. HasDevice(userLink, n, l)
  BY DEF LossInv, TibFits, LeadsOn, HasEntry
<1> QED BY <1>1, PeerOfPeer

LEMMA ChainKept ==
  ASSUME TypeOK, LossInv, LinksOnlyAdded, NEW id \in UserLink, NEW rank, Chain(id, rank),
         \A n \in Node : tib'[n][id] = tib[n][id]
  PROVE  Chain(id, rank)'
<1>1. ASSUME NEW n \in Node, HasEntry(n, id)
      PROVE  /\ id \in DOMAIN userLink' /\ KnowsBack(n, id, rank)' /\ KnowsOnward(n, id, rank)'
  <2>1. id \in DOMAIN userLink /\ KnowsBack(n, id, rank) /\ KnowsOnward(n, id, rank)
    BY <1>1 DEF Chain
  <2>2. id \in DOMAIN userLink' /\ Owner(id)' = Owner(id) /\ Target(id)' = Target(id)
    BY <2>1, EndsStay
  <2>3. ASSUME NEW d \in {1, 2}, tib[n][id][d] # Null
        PROVE  /\ Peer(n, tib[n][id][d])' = Peer(n, tib[n][id][d])
               /\ Peer(n, tib[n][id][d]) \in Node
    <3>1. PICK l : l = tib[n][id][d]
      OBVIOUS
    <3>2. l \in Link /\ HasDevice(userLink, n, l) /\ Peer(n, l) \in Node
      BY <1>1, <2>3, <3>1, EntryDevices
    <3>3. Peer(n, l)' = Peer(n, l)
      BY <3>2, PeerStays
    <3>4. tib'[n][id][d] = l
      BY <3>1
    <3> QED BY <3>1, <3>2, <3>3, <3>4 DEF Peer
  <2>4. KnowsBack(n, id, rank)'
    BY <2>1, <2>2, <2>3 DEF KnowsBack, HasEntry, Back
  <2>5. KnowsOnward(n, id, rank)'
    BY <2>1, <2>2, <2>3 DEF KnowsOnward, HasEntry, Onward
  <2> QED BY <2>2, <2>4, <2>5
<1> QED BY <1>1 DEF Chain, HasEntry

\* The next node of a packet's way, when it has an entry.
LEMMA NextOnChain ==
  ASSUME TypeOK, LossInv, NEW id \in UserLink, NEW rank \in [Node -> Nat], Chain(id, rank),
         NEW q \in Node, NEW l \in Link, NEW p, PayloadFits(q, l, id, p),
         NEW n, n = Peer(q, l), HasEntry(n, id)
  PROVE  /\ n \in Node /\ n # q
         /\ IsDown(p) => n # Target(id) /\ tib[n][id][1] = l /\ rank[n] = rank[q] + 1
         /\ ~IsDown(p) => n # Owner(id) /\ tib[n][id][2] = l /\ rank[q] = rank[n] + 1
<1>1. l # Null /\ HasEntry(q, id) /\ l = IF IsDown(p) THEN tib[q][id][2] ELSE tib[q][id][1]
  BY MarkerAssumption DEF PayloadFits
<1>2. n \in Node /\ n # q /\ Peer(n, l) = q
  BY <1>1, EntryDevices
<1>3. /\ KnowsBack(n, id, rank) /\ KnowsOnward(n, id, rank)
      /\ KnowsBack(q, id, rank) /\ KnowsOnward(q, id, rank)
  BY <1>1, <1>2 DEF Chain
<1>4. CASE IsDown(p)
  <2>1. q # Owner(id) /\ Onward(q, id) = n
    BY <1>1, <1>3, <1>4 DEF KnowsOnward, Onward
  <2>2. tib[n][id][1] = l
    BY <1>1, <1>3, <1>4, <2>1 DEF KnowsOnward
  <2> QED BY <1>1, <1>2, <1>3, <1>4, <2>2 DEF KnowsBack, Back
<1>5. CASE ~IsDown(p)
  BY <1>1, <1>2, <1>3, <1>5 DEF KnowsBack, KnowsOnward, Back
<1> QED BY <1>2, <1>4, <1>5

\* What has further to go is behind: the packet with the least to go is first.
Precedes(p, q, l, id) ==
  \A m \in Node, k \in Link : \A j \in DOMAIN chan[m][k] :
    SameFlow([type |-> "LinkPayload", id |-> id, pkt |-> p], chan[m][k][j], id)
      /\ ~(m = q /\ k = l /\ j = 1)
    => p.k < chan[m][k][j].pkt.k

LEMMA TunnelEndIsFirst ==
  ASSUME TypeOK, LossInv, NEW id \in UserLink, Served(id),
         NEW q \in Node, NEW l \in Link, 1 \in DOMAIN chan[q][l],
         NEW x, x = chan[q][l][1], IsPayload(x, id),
         NEW n, n = Peer(q, l), HasEntry(n, id), IsTunnelEnd(tib[n][id], l)
  PROVE  /\ id \in DOMAIN userLink /\ n = OtherEnd(x.pkt.from, id) /\ x.pkt.id = id
         /\ Detoured(x.pkt) /\ Precedes(x.pkt, q, l, id)
<1>1. PICK rank \in [Node -> Nat] : Chain(id, rank) /\ InOrder(id, rank)
  BY DEF Served
<1>2. PICK p : p = x.pkt
  OBVIOUS
<1>3. PayloadFits(q, l, id, p)
  BY <1>2 DEF Served, PayloadOnChain
<1>4. /\ n \in Node /\ n # q
      /\ IsDown(p) => n # Target(id) /\ tib[n][id][1] = l /\ rank[n] = rank[q] + 1
      /\ ~IsDown(p) => n # Owner(id) /\ tib[n][id][2] = l /\ rank[q] = rank[n] + 1
  BY <1>1, <1>3, NextOnChain
<1>5. /\ id \in DOMAIN userLink /\ p.from \in {Owner(id), Target(id)} /\ Detoured(p) /\ p.id = id
      /\ HasEntry(q, id) /\ l # Null /\ Owner(id) # Target(id)
  BY <1>3, MarkerAssumption, OwnerType DEF PayloadFits, Detoured, Unread
<1>6. KnowsBack(n, id, rank) /\ KnowsOnward(n, id, rank)
  BY <1>1, <1>4 DEF Chain
<1>7. /\ IsDown(p) => n = Owner(id) /\ tib[n][id][2] = Null
      /\ ~IsDown(p) => n = Target(id) /\ tib[n][id][1] = Null
  BY <1>4, <1>5, <1>6 DEF IsTunnelEnd, KnowsBack, KnowsOnward
<1>8. n = OtherEnd(p.from, id)
  BY <1>5, <1>7 DEF IsDown, OtherEnd
<1>9. ASSUME NEW m \in Node, NEW k \in Link, NEW j \in DOMAIN chan[m][k],
             IsPayload(chan[m][k][j], id), chan[m][k][j].pkt.from = p.from,
             ~(m = q /\ k = l /\ j = 1)
      PROVE  p.k < chan[m][k][j].pkt.k
  <2>1. PayloadFits(m, k, id, chan[m][k][j].pkt)
    BY <1>9 DEF Served, PayloadOnChain
  <2>2. /\ HasEntry(m, id) /\ k # Null
        /\ IsDown(chan[m][k][j].pkt) <=> IsDown(p)
        /\ k = IF IsDown(p) THEN tib[m][id][2] ELSE tib[m][id][1]
    BY <1>5, <1>9, <2>1, MarkerAssumption DEF PayloadFits, IsDown
  <2>3. m # n
    BY <1>7, <2>2
  <2>4. /\ rank[m] \in Nat /\ rank[n] \in Nat /\ rank[q] \in Nat /\ rank[m] # rank[n]
        /\ rank[m] = rank[q] => m = q
    <3>1. \A a, b \in Node : HasEntry(a, id) /\ HasEntry(b, id) /\ rank[a] = rank[b] => a = b
      BY <1>1 DEF Chain
    <3> QED BY <1>4, <1>5, <2>2, <2>3, <3>1
  <2>5. /\ IsDown(p) => rank[m] <= rank[q]
        /\ ~IsDown(p) => rank[q] <= rank[m]
    <3>1. IsDown(p) => rank[m] <= rank[n]
      BY <1>6, <1>7, <2>2 DEF KnowsOnward
    <3>2. ~IsDown(p) => rank[n] = 0
      BY <1>6, <1>7 DEF KnowsBack
    <3> QED BY <1>4, <2>4, <3>1, <3>2
  <2>6. m = q => k = l /\ j > 1
    <3>1. m = q => k = l
      BY <1>3, <1>5, <2>2 DEF PayloadFits
    <3>2. j \in Nat \ {0}
      <4>1. chan[m][k] \in Seq(Message)
        BY DEF TypeOK
      <4> QED BY <4>1
    <3> QED BY <1>9, <3>1, <3>2
  <2>7. Behind(m, k, j, q, l, 1, IsDown(chan[m][k][j].pkt), rank)
    <3>1. m # q => IF IsDown(p) THEN rank[m] < rank[q] ELSE rank[q] < rank[m]
      BY <2>4, <2>5
    <3>2. m = q => m = q /\ k = l /\ j > 1
      BY <2>6
    <3> QED BY <2>2, <3>1, <3>2 DEF Behind
  <2>8. Ordered(m, k, j, q, l, 1, id, rank) /\ SameFlow(chan[m][k][j], x, id)
    BY <1>1, <1>2, <1>9 DEF InOrder, SameFlow
  <2> QED BY <1>2, <2>2, <2>7, <2>8 DEF Ordered
<1>10. Precedes(p, q, l, id)
  BY <1>9 DEF Precedes, SameFlow, IsPayload
<1> QED BY <1>2, <1>5, <1>8, <1>10

----------------------------------------------------------------------------
(* What a step may do to packets in tunnels.                               *)

\* Payload in flight that was there before is still unread, and what is
\* emitted after c fits.
PayloadStays(c, id) ==
  \A n \in Node, l \in Link : \A i \in DOMAIN chan'[n][l] :
    IsPayload(chan'[n][l][i], id) =>
      IF i \in Added(chan', c, n, l) THEN PayloadFits(n, l, id, chan[n][l][i].pkt)'
                                     ELSE Detoured(chan[n][l][i].pkt)'

LEMMA PayloadKept ==
  ASSUME TypeOK, TypeOK', LinksOnlyAdded, NEW id \in UserLink, PayloadOnChain(id),
         NEW off, NEW c, Rest(off, c), Extends(chan', c), PayloadStays(c, id),
         \A n \in Node : HasEntry(n, id) => tib'[n][id] = tib[n][id]
  PROVE  PayloadOnChain(id)'
<1>1. ASSUME NEW n \in Node, NEW l \in Link, NEW i \in DOMAIN chan'[n][l],
             IsPayload(chan'[n][l][i], id), i \notin Added(chan', c, n, l)
      PROVE  PayloadFits(n, l, id, chan[n][l][i].pkt)'
  <2>1. PICK p : p = chan'[n][l][i].pkt
    OBVIOUS
  <2>2. PayloadFits(n, l, id, p)
    <3>1. PICK j \in DOMAIN chan[n][l] : chan'[n][l][i] = chan[n][l][j]
      BY <1>1, OldOrAdded
    <3> QED BY <1>1, <2>1, <3>1 DEF PayloadOnChain
  <2>3. Detoured(p)'
    BY <1>1, <2>1 DEF PayloadStays
  <2>4. Target(p.id)' = Target(p.id)
    BY <2>2, EndsStay DEF PayloadFits, Detoured, Unread
  <2>5. PayloadFits(n, l, id, p)'
    BY <2>2, <2>3, <2>4 DEF PayloadFits, HasEntry, IsDown
  <2> QED BY <2>1, <2>5
<1>2. ASSUME NEW n \in Node, NEW l \in Link, NEW i \in DOMAIN chan'[n][l],
             IsPayload(chan'[n][l][i], id)
      PROVE  PayloadFits(n, l, id, chan[n][l][i].pkt)'
  BY <1>1, <1>2 DEF PayloadStays
<1> QED BY <1>2 DEF PayloadOnChain

\* What is emitted after c is in order with the rest.
AddedInOrder(c, id, rank) ==
  \A n, m \in Node, l, k \in Link : \A i \in DOMAIN chan'[n][l], j \in DOMAIN chan'[m][k] :
    i \in Added(chan', c, n, l) \/ j \in Added(chan', c, m, k)
      => Ordered(n, l, i, m, k, j, id, rank)'

LEMMA OrderKept ==
  ASSUME TypeOK, TypeOK', LinksOnlyAdded, NEW id \in UserLink, PayloadOnChain(id),
         NEW off, NEW c, Rest(off, c), Extends(chan', c),
         NEW rank \in [Node -> Nat], NEW new \in [Node -> Nat], InOrder(id, rank),
         \A n \in Node : HasEntry(n, id) => new[n] = rank[n],
         AddedInOrder(c, id, new)
  PROVE  InOrder(id, new)'
<1> SUFFICES ASSUME NEW n \in Node, NEW m \in Node, NEW l \in Link, NEW k \in Link,
                    NEW i \in DOMAIN chan'[n][l], NEW j \in DOMAIN chan'[m][k],
                    i \notin Added(chan', c, n, l), j \notin Added(chan', c, m, k)
             PROVE  Ordered(n, l, i, m, k, j, id, new)'
  BY DEF InOrder, AddedInOrder
<1>1. PICK x, y : x = chan'[n][l][i] /\ y = chan'[m][k][j]
  OBVIOUS
<1>2. PICK a, b : a = i + off[n][l] /\ b = j + off[m][k]
  OBVIOUS
<1>3. /\ a \in DOMAIN chan[n][l] /\ chan[n][l][a] = x
      /\ b \in DOMAIN chan[m][k] /\ chan[m][k][b] = y
  BY <1>1, <1>2, OldOrAdded
<1>4. n = m /\ l = k /\ i > j => a > b
  <2>1. chan'[n][l] \in Seq(Message) /\ chan'[m][k] \in Seq(Message) /\ off[n][l] \in {0, 1}
    BY DEF TypeOK, Rest
  <2>2. i \in Nat /\ j \in Nat
    BY <2>1
  <2> QED BY <1>2, <2>1, <2>2
<1>5. ASSUME SameFlow(x, y, id), Behind(n, l, i, m, k, j, IsDown(x.pkt)', new)
      PROVE  y.pkt.k < x.pkt.k
  <2>1. PayloadFits(n, l, id, x.pkt) /\ PayloadFits(m, k, id, y.pkt)
    BY <1>3, <1>5 DEF PayloadOnChain, SameFlow
  <2>2. IsDown(x.pkt)' <=> IsDown(x.pkt)
    BY <2>1, EndsStay DEF PayloadFits, Detoured, Unread, IsDown
  <2>3. new[n] = rank[n] /\ new[m] = rank[m]
    BY <2>1 DEF PayloadFits
  <2>4. Behind(n, l, a, m, k, b, IsDown(x.pkt), rank)
    BY <1>4, <1>5, <2>2, <2>3 DEF Behind
  <2>5. Ordered(n, l, a, m, k, b, id, rank)
    BY <1>3 DEF InOrder
  <2> QED BY <1>3, <1>5, <2>4, <2>5 DEF Ordered
<1> QED BY <1>1, <1>5 DEF Ordered, SameFlow, IsPayload, Behind

\* A step that emits nothing about the tunnel of id.
NothingAdded(c, id) ==
  \A n \in Node, l \in Link : \A i \in Added(chan', c, n, l) :
    chan'[n][l][i] # TunnelAck(id) /\ ~IsPayload(chan'[n][l][i], id)

LEMMA AcksKept ==
  ASSUME TypeOK, TypeOK', NEW id \in UserLink, AckOnChain(id),
         NEW off, NEW c, Rest(off, c), Extends(chan', c),
         \A n \in Node, l \in Link : \A i \in Added(chan', c, n, l) :
           chan'[n][l][i] = TunnelAck(id) => tib'[n][id] # Absent /\ l = tib'[n][id][2],
         \A n \in Node : HasEntry(n, id) => tib'[n][id] = tib[n][id]
  PROVE  AckOnChain(id)'
<1> SUFFICES ASSUME NEW n \in Node, NEW l \in Link, NEW i \in DOMAIN chan'[n][l],
                    chan'[n][l][i] = TunnelAck(id), i \notin Added(chan', c, n, l)
             PROVE  tib'[n][id] # Absent /\ l = tib'[n][id][2]
  BY DEF AckOnChain, HasEntry
<1>1. PICK j \in DOMAIN chan[n][l] : chan[n][l][j] = TunnelAck(id)
  BY OldOrAdded
<1> QED BY <1>1 DEF AckOnChain, HasEntry

LEMMA ServedKept ==
  ASSUME TypeOK, TypeOK', LossInv, LinksOnlyAdded, NEW id \in UserLink, Served(id),
         NEW off, NEW c, Rest(off, c), Extends(chan', c), NothingAdded(c, id),
         \A n \in Node : tib'[n][id] = tib[n][id],
         \A n \in Node, l \in Link : \A i \in DOMAIN chan'[n][l] :
           IsPayload(chan'[n][l][i], id) => Detoured(chan[n][l][i].pkt)'
  PROVE  Served(id)'
<1>1. PICK rank \in [Node -> Nat] : Chain(id, rank) /\ InOrder(id, rank)
  BY DEF Served
<1>2. AckOnChain(id) /\ PayloadOnChain(id)
  BY DEF Served
<1>3. AckOnChain(id)'
  BY <1>2, AcksKept DEF NothingAdded
<1>4. PayloadOnChain(id)'
  <2>1. PayloadStays(c, id)
    BY DEF PayloadStays, NothingAdded
  <2> QED BY <1>2, <2>1, PayloadKept
<1>5. InOrder(id, rank)'
  <2>1. AddedInOrder(c, id, rank)
    BY DEF AddedInOrder, NothingAdded, Ordered, SameFlow
  <2> QED BY <1>1, <1>2, <2>1, OrderKept
<1>6. Chain(id, rank)'
  BY <1>1, ChainKept
<1> QED BY <1>3, <1>4, <1>5, <1>6 DEF Served

----------------------------------------------------------------------------
(* The steps that use or extend a tunnel.                                  *)

LEMMA RelayServes ==
  ASSUME TypeOK, TypeOK', LossInv, NEW n \in Node, NEW l \in Link, PayloadRelayed(n, l),
         NEW id, id = Arriving(n, l).id, Served(id)
  PROVE  Served(id)'
<1>1. PICK q, x, c : q = Peer(n, l) /\ x = Arriving(n, l) /\ c = Received(n, l)
  OBVIOUS
<1>2. PICK dev : dev = PayloadDevice(tib[n][id], l)
  OBVIOUS
<1>3. /\ q \in Node /\ q # n /\ Peer(q, l) = n /\ x \in Message /\ chan[q][l][1] = x
      /\ x.type = "LinkPayload" /\ x.id = id /\ id \in UserLink /\ IsPayload(x, id)
      /\ c \in Channels /\ Rest(OneTaken(q, l), c) /\ OneTaken(q, l)[q][l] = 1
  <2>1. Arrives(n, l, "LinkPayload")
    BY DEF PayloadRelayed, PayloadArrives
  <2>2. q \in Node /\ OneTaken(q, l)[q][l] = 1
    BY <1>1, <2>1, ArrivalFits DEF OneTaken
  <2> QED BY <1>1, <2>1, <2>2, ArrivalFits, RestOfReceived, MessageFields DEF IsPayload, Rest
<1>4. 1 \in DOMAIN chan[q][l]
  <2>1. chan[q][l] \in Seq(Message) /\ chan[q][l] # <<>>
    BY <1>1, <1>3 DEF TypeOK, PayloadRelayed, PayloadArrives, Arrives
  <2> QED BY <2>1
<1>5. /\ UNCHANGED <<linkVars, tib, sent, handed>> /\ HasEntry(n, id)
      /\ ~IsTunnelEnd(tib[n][id], l) /\ chan' = Emit(c, n, dev, <<x>>)
  BY <1>1, <1>2 DEF PayloadRelayed, HasEntry, shimVars, ndnVars
<1>6. /\ Extends(chan', c)
      /\ \A m \in Node, k \in Link : \A i \in Added(chan', c, m, k) :
           m = n /\ k = dev /\ i = Len(c[m][k]) + 1 /\ chan'[m][k][i] = x
  BY <1>3, <1>5, EmitOneExtends
<1>7. PICK p : p = x.pkt
  OBVIOUS
<1>8. PICK rank \in [Node -> Nat] : Chain(id, rank) /\ InOrder(id, rank)
  BY DEF Served
<1>9. AckOnChain(id) /\ PayloadOnChain(id) /\ PayloadFits(q, l, id, p)
  BY <1>3, <1>4, <1>7 DEF Served, PayloadOnChain
<1>10. /\ IsDown(p) => tib[n][id][1] = l /\ rank[n] = rank[q] + 1
       /\ ~IsDown(p) => tib[n][id][2] = l /\ rank[q] = rank[n] + 1
       /\ HasEntry(q, id) /\ l # Null
  <2>1. HasEntry(q, id) /\ l # Null
    BY <1>9, MarkerAssumption DEF PayloadFits
  <2> QED BY <1>1, <1>3, <1>5, <1>8, <1>9, <2>1, NextOnChain
<1>11. dev = IF IsDown(p) THEN tib[n][id][2] ELSE tib[n][id][1]
  <2>1. CASE IsDown(p)
    BY <1>2, <1>10, <2>1 DEF PayloadDevice
  <2>2. CASE ~IsDown(p)
    <3>1. ASSUME tib[n][id][1] = l PROVE FALSE
      <4>1. KnowsBack(n, id, rank)
        BY <1>5, <1>8 DEF Chain
      <4>2. rank[n] = rank[q] + 1
        BY <1>1, <1>10, <3>1, <4>1 DEF KnowsBack, Back
      <4> QED BY <1>3, <1>8, <1>10, <2>2, <4>2
    <3> QED BY <1>2, <2>2, <3>1 DEF PayloadDevice
  <2> QED BY <2>1, <2>2
<1>12. LinksOnlyAdded /\ Grows
  BY <1>5 DEF LinksOnlyAdded, Grows, linkVars, TypeOK
<1>13. ASSUME NEW m \in Node, NEW k \in Link, NEW i \in DOMAIN chan'[m][k],
              IsPayload(chan'[m][k][i], id), i \notin Added(chan', c, m, k)
       PROVE  \E j \in DOMAIN chan[m][k] :
                /\ chan[m][k][j] = chan'[m][k][i] /\ ~(m = q /\ k = l /\ j = 1)
                /\ PayloadFits(m, k, id, chan'[m][k][i].pkt)
  <2>1. PICK y \in Message : \E j \in DOMAIN chan[m][k] :
          y = chan'[m][k][i] /\ y = chan[m][k][j] /\ ~(m = q /\ k = l /\ j = 1)
    BY <1>3, <1>6, <1>13, OldNotTaken
  <2> QED BY <1>9, <1>13, <2>1 DEF PayloadOnChain
<1>14. \A r \in NdnPacket : Detoured(r) => Detoured(r)'
  BY <1>5, <1>12, UnreadStays DEF Detoured
<1>15. PayloadStays(c, id)
  <2> SUFFICES ASSUME NEW m \in Node, NEW k \in Link, NEW i \in DOMAIN chan'[m][k],
                      IsPayload(chan'[m][k][i], id)
               PROVE  IF i \in Added(chan', c, m, k) THEN PayloadFits(m, k, id, chan[m][k][i].pkt)'
                                                     ELSE Detoured(chan[m][k][i].pkt)'
    BY DEF PayloadStays
  <2>1. PICK r \in NdnPacket : r = chan'[m][k][i].pkt
    <3>1. chan'[m][k][i] \in Message
      BY DEF TypeOK
    <3> QED BY <3>1, MessageFields DEF IsPayload
  <2>2. CASE i \notin Added(chan', c, m, k)
    BY <1>13, <1>14, <2>1, <2>2 DEF PayloadFits
  <2>3. CASE i \in Added(chan', c, m, k)
    <3>1. m = n /\ k = dev /\ r = p
      BY <1>6, <1>7, <2>1, <2>3
    <3>2. p.id = id /\ Detoured(p)'
      BY <1>9, <1>14, <2>1, <3>1 DEF PayloadFits
    <3>3. IsDown(p)' <=> IsDown(p)
      BY <1>5 DEF IsDown, Target, linkVars
    <3>4. PayloadFits(m, k, id, r)'
      BY <1>5, <1>11, <3>1, <3>2, <3>3 DEF PayloadFits, HasEntry
    <3> QED BY <2>1, <2>3, <3>4
  <2> QED BY <2>2, <2>3
<1>16. AddedInOrder(c, id, rank)
  <2> SUFFICES ASSUME NEW m1 \in Node, NEW m2 \in Node, NEW k1 \in Link, NEW k2 \in Link,
                      NEW i1 \in DOMAIN chan'[m1][k1], NEW i2 \in DOMAIN chan'[m2][k2],
                      i1 \in Added(chan', c, m1, k1) \/ i2 \in Added(chan', c, m2, k2),
                      SameFlow(chan'[m1][k1][i1], chan'[m2][k2][i2], id),
                      Behind(m1, k1, i1, m2, k2, i2, IsDown(chan[m1][k1][i1].pkt)', rank)
               PROVE  chan'[m2][k2][i2].pkt.k < chan'[m1][k1][i1].pkt.k
    BY DEF AddedInOrder, Ordered
  <2>1. PICK x1, x2 : x1 = chan'[m1][k1][i1] /\ x2 = chan'[m2][k2][i2]
    OBVIOUS
  <2>2. /\ IsPayload(x1, id) /\ IsPayload(x2, id) /\ x1.pkt.from = x2.pkt.from
        /\ x1.pkt.id = id /\ x2.pkt.id = id
    <3>1. ASSUME NEW m \in Node, NEW k \in Link, NEW i \in DOMAIN chan'[m][k],
                 IsPayload(chan'[m][k][i], id)
          PROVE  chan'[m][k][i].pkt.id = id
      <4>1. CASE i \in Added(chan', c, m, k)
        BY <1>6, <1>7, <1>9, <4>1 DEF PayloadFits
      <4>2. CASE i \notin Added(chan', c, m, k)
        BY <1>13, <3>1, <4>2 DEF PayloadFits
      <4> QED BY <4>1, <4>2
    <3> QED BY <2>1, <3>1 DEF SameFlow
  <2>3. /\ Behind(m1, k1, i1, m2, k2, i2, IsDown(p), rank)
        /\ x1.pkt.from = p.from /\ x2.pkt.from = p.from
        /\ IsDown(x1.pkt) <=> IsDown(p)
        /\ IsDown(x2.pkt) <=> IsDown(p)
    <3>1. x1.pkt = p \/ x2.pkt = p
      BY <1>6, <1>7, <2>1
    <3>2. x1.pkt.from = p.from /\ x2.pkt.from = p.from /\ p.id = id
      BY <2>2, <3>1
    <3>3. /\ IsDown(x1.pkt) <=> IsDown(p)
          /\ IsDown(x2.pkt) <=> IsDown(p)
          /\ IsDown(x1.pkt)' <=> IsDown(p)
      BY <1>5, <2>2, <3>2 DEF IsDown, Target, linkVars
    <3> QED BY <2>1, <3>2, <3>3 DEF Behind
  <2>4. rank[n] \in Nat /\ rank[q] \in Nat /\ rank[m1] \in Nat /\ rank[m2] \in Nat
    BY <1>3, <1>8
  <2>5. i1 \in Nat /\ i2 \in Nat /\ \A m \in Node, k \in Link :
                                     \A i \in DOMAIN chan'[m][k] : i <= Len(chan'[m][k])
    <3>1. \A m \in Node, k \in Link : chan'[m][k] \in Seq(Message)
      BY DEF TypeOK
    <3> QED BY <3>1
  <2>6. CASE i1 \notin Added(chan', c, m1, k1)
    <3>1. PICK j \in DOMAIN chan[m1][k1] :
            /\ chan[m1][k1][j] = x1 /\ ~(m1 = q /\ k1 = l /\ j = 1)
            /\ PayloadFits(m1, k1, id, x1.pkt)
      BY <1>13, <2>1, <2>2, <2>6
    <3>2. m2 = n /\ k2 = dev /\ i2 = Len(c[n][dev]) + 1 /\ x2 = x
      BY <1>6, <2>1, <2>6
    <3>3. ~(m1 = n /\ k1 = dev /\ i1 > i2)
      <4>1. ASSUME m1 = n, k1 = dev, i1 > i2 PROVE i1 \in Added(chan', c, m1, k1)
        BY <1>3, <2>5, <3>2, <4>1 DEF Added, Channels
      <4> QED BY <2>6, <4>1
    <3>4. /\ IsDown(p) => rank[m1] < rank[n]
          /\ ~IsDown(p) => rank[n] < rank[m1]
      BY <2>3, <3>2, <3>3 DEF Behind
    <3>5. rank[m1] = rank[q] => m1 = q /\ k1 = l /\ j > 1
      <4>1. rank[m1] = rank[q] => m1 = q
        <5>1. \A a, b \in Node : HasEntry(a, id) /\ HasEntry(b, id) /\ rank[a] = rank[b] => a = b
          BY <1>8 DEF Chain
        <5> QED BY <1>3, <1>10, <3>1, <5>1 DEF PayloadFits
      <4>2. m1 = q => k1 = l
        BY <1>9, <2>3, <3>1 DEF PayloadFits
      <4>3. j \in Nat \ {0}
        <5>1. chan[m1][k1] \in Seq(Message)
          BY DEF TypeOK
        <5> QED BY <5>1
      <4> QED BY <3>1, <4>1, <4>2, <4>3
    <3>6. Behind(m1, k1, j, q, l, 1, IsDown(x1.pkt), rank)
      <4>1. CASE rank[m1] = rank[q]
        BY <3>5, <4>1 DEF Behind
      <4>2. CASE rank[m1] # rank[q]
        BY <1>10, <2>3, <2>4, <3>4, <4>2 DEF Behind
      <4> QED BY <4>1, <4>2
    <3>7. Ordered(m1, k1, j, q, l, 1, id, rank) /\ SameFlow(x1, x, id)
      BY <1>3, <1>4, <1>8, <2>2, <3>2 DEF InOrder, SameFlow
    <3> QED BY <1>3, <2>1, <3>1, <3>2, <3>6, <3>7 DEF Ordered
  <2>7. CASE i1 \in Added(chan', c, m1, k1)
    <3>1. m1 = n /\ k1 = dev /\ i1 = Len(c[n][dev]) + 1 /\ x1 = x
      BY <1>6, <2>1, <2>7
    <3>2. i2 \notin Added(chan', c, m2, k2)
      <4>1. i2 \in Added(chan', c, m2, k2) => m2 = n /\ k2 = dev /\ i2 = i1
        BY <1>6, <3>1
      <4> QED BY <2>3, <2>4, <2>5, <3>1, <4>1 DEF Behind
    <3>3. PICK j \in DOMAIN chan[m2][k2] :
            /\ chan[m2][k2][j] = x2 /\ ~(m2 = q /\ k2 = l /\ j = 1)
            /\ PayloadFits(m2, k2, id, x2.pkt)
      BY <1>13, <2>1, <2>2, <3>2
    <3>4. Behind(q, l, 1, m2, k2, j, IsDown(p), rank)
      BY <1>10, <2>3, <2>4, <3>1 DEF Behind
    <3>5. Ordered(q, l, 1, m2, k2, j, id, rank) /\ SameFlow(x, x2, id)
      BY <1>3, <1>4, <1>8, <2>2, <3>1, <3>3 DEF InOrder, SameFlow
    <3> QED BY <1>3, <1>7, <2>1, <3>1, <3>3, <3>4, <3>5 DEF Ordered
  <2> QED BY <2>6, <2>7
<1>17. AckOnChain(id)'
  <2>1. x # TunnelAck(id)
    BY <1>3 DEF TunnelAck
  <2> QED BY <1>3, <1>5, <1>6, <1>9, <2>1, AcksKept
<1>18. PayloadOnChain(id)'
  BY <1>3, <1>5, <1>6, <1>9, <1>12, <1>15, PayloadKept
<1>19. InOrder(id, rank)'
  BY <1>3, <1>6, <1>8, <1>9, <1>12, <1>16, OrderKept
<1>20. Chain(id, rank)'
  BY <1>3, <1>5, <1>8, <1>12, ChainKept
<1> QED BY <1>8, <1>17, <1>18, <1>19, <1>20 DEF Served

\* NDN sends a packet on a face.
SendsOne(n, id) ==
  /\ CanSend(n, id) /\ UNCHANGED <<userLink, handed, isGone>>
  /\ sent' = [sent EXCEPT ![n][id] = @ + 1]

\* The next packet NDN sends on a face is unread, and later than those before.
LEMMA NextUnread ==
  ASSUME TypeOK, HandedSent, NEW n \in Node, NEW id \in UserLink, SendsOne(n, id),
         NEW p, p = NextPacket(n, id)
  PROVE  /\ p \in NdnPacket /\ p.id = id /\ p.from = n /\ Unread(p)' /\ Grows
         /\ n \in {Owner(id), Target(id)} /\ id \in DOMAIN userLink
         /\ \A q \in NdnPacket : Unread(q) /\ q.from = n /\ q.id = id => q.k < p.k
<1> USE DEF SendsOne
<1>1. /\ p \in NdnPacket /\ p.id = id /\ p.from = n /\ p.k = sent[n][id] + 1
  BY SendType DEF NextPacket
<1>2. id \in DOMAIN userLink /\ n \in {Owner(id), Target(id)}
  BY DEF CanSend, Owner, Target
<1>3. Owner(id) # Target(id) /\ Owner(id) \in Node /\ Target(id) \in Node
  BY <1>2, OwnerType
<1>4. sent \in [Node -> [UserLink -> 0..MaxSend]] /\ MaxSend \in Nat
  BY BoundAssumption DEF TypeOK
<1>5. /\ sent[n][id] \in Nat /\ sent'[n][id] = sent[n][id] + 1
      /\ \A m \in Node, k \in UserLink : sent[m][k] <= sent'[m][k]
  BY <1>4
<1>6. Grows
  BY <1>5 DEF Grows, LinksOnlyAdded
<1>7. Service!LastHanded(OtherEnd(n, id), id) <= sent[n][id]
  <2>1. PICK m : m = OtherEnd(n, id)
    OBVIOUS
  <2>2. m \in Node /\ OtherEnd(m, id) = n
    BY <1>2, <1>3, <2>1 DEF OtherEnd
  <2>3. CASE handed[m][id] = <<>>
    BY <1>5, <2>1, <2>3 DEF Service!LastHanded
  <2>4. CASE handed[m][id] # <<>>
    BY <2>1, <2>2, <2>4 DEF HandedSent
  <2> QED BY <2>3, <2>4
<1>8. Service!LastHanded(OtherEnd(n, id), id) \in Nat
  <2>1. PICK m \in Node : m = OtherEnd(n, id)
    BY <1>3 DEF OtherEnd
  <2>2. handed[m][id] \in Seq(NdnPacket)
    BY DEF TypeOK
  <2>3. handed[m][id] # <<>> => handed[m][id][Len(handed[m][id])] \in NdnPacket
    BY <2>2
  <2>4. \A q \in NdnPacket : q.k \in Nat
    BY BoundAssumption DEF NdnPacket
  <2> QED BY <2>1, <2>3, <2>4 DEF Service!LastHanded
<1>9. Unread(p)'
  <2>1. /\ Service!LastHanded(OtherEnd(n, id), id)' = Service!LastHanded(OtherEnd(n, id), id)
        /\ OtherEnd(n, id)' = OtherEnd(n, id) /\ Owner(id)' = Owner(id) /\ Target(id)' = Target(id)
    BY DEF Service!LastHanded, OtherEnd, Owner, Target
  <2>2. Service!LastHanded(OtherEnd(n, id), id) < p.k
    BY <1>1, <1>5, <1>7, <1>8
  <2>3. p.k <= sent'[n][id]
    BY <1>1, <1>5
  <2> QED BY <1>1, <1>2, <2>1, <2>2, <2>3 DEF Unread
<1>10. ASSUME NEW q \in NdnPacket, Unread(q), q.from = n, q.id = id PROVE q.k < p.k
  <2>1. q.k <= sent[n][id] /\ Service!LastHanded(OtherEnd(n, id), id) < q.k
    BY <1>10 DEF Unread
  <2>2. q.k \in Nat
    BY BoundAssumption DEF NdnPacket
  <2> QED BY <1>1, <1>5, <2>1, <2>2
<1> QED BY <1>1, <1>2, <1>6, <1>9, <1>10

LEMMA SendServes ==
  ASSUME TypeOK, TypeOK', LossInv, HandedSent, NEW n \in Node, NEW id \in UserLink,
         SendTunnelled(n, id), Served(id)
  PROVE  Served(id)'
<1>1. PICK p, x, dev : p = NextPacket(n, id) /\ x = LinkPayload(p) /\ dev = TunnelDevice(tib[n][id])
  OBVIOUS
<1>2. /\ CanSend(n, id) /\ UNCHANGED <<linkVars, tib, handed>>
      /\ HasEntry(n, id) /\ id \in isGone[n]
      /\ sent' = [sent EXCEPT ![n][id] = @ + 1] /\ chan' = Emit(chan, n, dev, <<x>>)
  BY <1>1 DEF SendTunnelled, HasEntry, shimVars
<1>3. /\ p \in NdnPacket /\ p.id = id /\ p.from = n /\ Unread(p)' /\ Grows /\ LinksOnlyAdded
      /\ n \in {Owner(id), Target(id)} /\ id \in DOMAIN userLink
      /\ \A q \in NdnPacket : Unread(q) /\ q.from = n /\ q.id = id => q.k < p.k
  <2>1. SendsOne(n, id) /\ p = NextPacket(n, id)
    BY <1>1, <1>2 DEF SendsOne, linkVars
  <2>2. /\ p \in NdnPacket /\ p.id = id /\ p.from = n /\ Unread(p)' /\ Grows
        /\ n \in {Owner(id), Target(id)} /\ id \in DOMAIN userLink
        /\ \A q \in NdnPacket : Unread(q) /\ q.from = n /\ q.id = id => q.k < p.k
    BY <2>1, NextUnread
  <2> QED BY <2>2 DEF Grows
<1>4. /\ x \in Message /\ x.pkt = p /\ x # TunnelAck(id)
      /\ chan \in Channels /\ Rest(NoneTaken, chan)
  BY <1>1, <1>3, MessageKinds, RestOfAll DEF TypeOK, Channels, LinkPayload, TunnelAck
<1>5. /\ Extends(chan', chan)
      /\ \A m \in Node, k \in Link : \A i \in Added(chan', chan, m, k) :
           m = n /\ k = dev /\ i = Len(chan[m][k]) + 1 /\ chan'[m][k][i] = x
  BY <1>2, <1>4, EmitOneExtends
<1>6. PICK rank \in [Node -> Nat] : Chain(id, rank) /\ InOrder(id, rank)
  BY DEF Served
<1>7. /\ AckOnChain(id) /\ PayloadOnChain(id) /\ Owner(id) # Target(id)
      /\ KnowsBack(n, id, rank) /\ KnowsOnward(n, id, rank)
  BY <1>2, <1>3, <1>6, OwnerType DEF Served, Chain
<1>8. dev = IF IsDown(p) THEN tib[n][id][2] ELSE tib[n][id][1]
  BY <1>1, <1>3, <1>7 DEF TunnelDevice, IsDown, KnowsBack
<1>9. \A r \in NdnPacket : Detoured(r) => Detoured(r)'
  BY <1>2, <1>3, UnreadStays DEF Detoured
<1>10. ASSUME NEW m \in Node, NEW k \in Link, NEW i \in DOMAIN chan'[m][k],
              IsPayload(chan'[m][k][i], id), i \notin Added(chan', chan, m, k)
       PROVE  chan'[m][k][i].pkt \in NdnPacket /\ PayloadFits(m, k, id, chan'[m][k][i].pkt)
  <2>1. chan'[m][k][i] \in Message
    BY TypedNext
  <2>2. PICK j \in DOMAIN chan[m][k] : chan'[m][k][i] = chan[m][k][j]
    BY <1>4, <1>5, <1>10, OldOrAdded
  <2> QED BY <1>7, <1>10, <2>1, <2>2, MessageFields DEF PayloadOnChain, IsPayload
<1>11. PayloadStays(chan, id)
  <2>1. PayloadFits(n, dev, id, p)'
    <3>1. /\ IsDown(p)' <=> IsDown(p)
          /\ id \in isGone'[n]
      BY <1>2 DEF IsDown, Target, linkVars
    <3> QED BY <1>2, <1>3, <1>8, <3>1 DEF PayloadFits, Detoured, HasEntry
  <2> QED BY <1>4, <1>5, <1>9, <1>10, <2>1 DEF PayloadStays, PayloadFits
<1>12. AddedInOrder(chan, id, rank)
  <2> SUFFICES ASSUME NEW m1 \in Node, NEW m2 \in Node, NEW k1 \in Link, NEW k2 \in Link,
                      NEW i1 \in DOMAIN chan'[m1][k1], NEW i2 \in DOMAIN chan'[m2][k2],
                      i1 \in Added(chan', chan, m1, k1) \/ i2 \in Added(chan', chan, m2, k2),
                      SameFlow(chan'[m1][k1][i1], chan'[m2][k2][i2], id),
                      Behind(m1, k1, i1, m2, k2, i2, IsDown(chan[m1][k1][i1].pkt)', rank)
               PROVE  chan'[m2][k2][i2].pkt.k < chan'[m1][k1][i1].pkt.k
    BY DEF AddedInOrder, Ordered
  <2>1. i1 \in Nat /\ i2 \in Nat /\ \A m \in Node, k \in Link :
                                     \A i \in DOMAIN chan'[m][k] : i <= Len(chan'[m][k])
    BY TypedNext
  <2>2. rank[n] \in Nat /\ rank[m1] \in Nat /\ rank[m2] \in Nat
    BY <1>6
  <2>3. CASE i2 \notin Added(chan', chan, m2, k2)
    <3>1. i1 \in Added(chan', chan, m1, k1)
      BY <2>3
    <3>2. chan'[m1][k1][i1] = x
      BY <1>5, <3>1
    <3>3. PICK r : r = chan'[m2][k2][i2].pkt
      OBVIOUS
    <3>4. r \in NdnPacket /\ PayloadFits(m2, k2, id, r) /\ r.from = n
      BY <1>3, <1>4, <1>10, <2>3, <3>2, <3>3 DEF SameFlow
    <3>5. Unread(r) /\ r.id = id
      BY <3>4 DEF PayloadFits, Detoured
    <3> QED BY <1>3, <1>4, <3>2, <3>3, <3>4, <3>5
  <2>4. CASE i2 \in Added(chan', chan, m2, k2)
    <3>1. m2 = n /\ k2 = dev /\ i2 = Len(chan[n][dev]) + 1 /\ chan'[m2][k2][i2] = x
      BY <1>5, <2>4
    <3>2. ~(m1 = n /\ k1 = dev /\ i1 > i2)
      <4>1. m1 = n /\ k1 = dev /\ i1 > i2 => i1 \in Added(chan', chan, m1, k1)
        BY <1>4, <2>1, <3>1 DEF Added, Channels
      <4> QED BY <1>5, <2>1, <3>1, <4>1
    <3>3. i1 \notin Added(chan', chan, m1, k1)
      <4>1. i1 \in Added(chan', chan, m1, k1) => m1 = n /\ k1 = dev /\ i1 = i2
        BY <1>5, <3>1
      <4> QED BY <2>1, <2>2, <3>1, <4>1 DEF Behind
    <3>4. PICK r : r = chan'[m1][k1][i1].pkt
      OBVIOUS
    <3>5. PayloadFits(m1, k1, id, r) /\ r.from = n
      BY <1>3, <1>4, <1>10, <3>1, <3>3, <3>4 DEF SameFlow
    <3>6. IsDown(r)' <=> n = Target(id)
      BY <1>2, <3>5 DEF IsDown, Target, PayloadFits, linkVars
    <3>7. HasEntry(m1, id)
      BY <3>5 DEF PayloadFits
    <3>8. n = Target(id) => rank[n] = 0
      BY <1>7 DEF KnowsBack
    <3>9. n # Target(id) => rank[m1] <= rank[n]
      BY <1>3, <1>7, <3>7 DEF KnowsOnward
    <3>10. IF n = Target(id) THEN rank[m1] < rank[n] ELSE rank[n] < rank[m1]
      BY <3>1, <3>2, <3>4, <3>6 DEF Behind
    <3> QED BY <2>2, <3>8, <3>9, <3>10
  <2> QED BY <2>3, <2>4
<1>13. AckOnChain(id)'
  BY <1>2, <1>4, <1>5, <1>7, AcksKept
<1>14. PayloadOnChain(id)'
  BY <1>2, <1>3, <1>4, <1>5, <1>7, <1>11, PayloadKept
<1>15. InOrder(id, rank)'
  BY <1>3, <1>4, <1>5, <1>6, <1>7, <1>12, OrderKept
<1>16. Chain(id, rank)'
  BY <1>2, <1>3, <1>6, ChainKept
<1> QED BY <1>6, <1>13, <1>14, <1>15, <1>16 DEF Served

\* The payload of an answer is what waited in m_dt, in the same order.
LEMMA AnswerOrder ==
  ASSUME TypeOK, NEW n \in Node, NEW id \in UserLink, NEW a, a = Answer(n, id)
  PROVE  \A i \in DOMAIN a :
           \/ a[i] = TunnelAck(id)
           \/ i \in DOMAIN dt[n][id] /\ a[i] = LinkPayload(dt[n][id][i])
<1> DEFINE front == FlushedPayloads(n, id)
<1>1. dt[n][id] \in Seq(NdnPacket)
  BY DEF TypeOK
<1>2. /\ front \in Seq(Message) /\ Len(front) = Len(dt[n][id])
      /\ \A i \in DOMAIN front : i \in DOMAIN dt[n][id] /\ front[i] = LinkPayload(dt[n][id][i])
  BY <1>1, MessageKinds DEF FlushedPayloads
<1>3. a = Append(front, TunnelAck(id)) /\ TunnelAck(id) \in Message
  <2>1. TunnelAck(id) \in Message
    BY MessageKinds
  <2> QED BY <1>2, <2>1, AppendIsConcat DEF Answer
<1> HIDE DEF front
<1>4. \A i \in DOMAIN a : i = Len(front) + 1 \/ i \in DOMAIN front
  BY <1>2, <1>3
<1>5. a[Len(front) + 1] = TunnelAck(id) /\ \A i \in DOMAIN front : a[i] = front[i]
  BY <1>2, <1>3
<1> QED BY <1>2, <1>4, <1>5

LEMMA AnswerServes ==
  ASSUME TypeOK, TypeOK', LossInv, TunnelInv, BufferServed, NEW n \in Node, NEW l \in Link,
         ReqAtTarget(n, l), NEW id, id = Arriving(n, l).id, Served(id)
  PROVE  Served(id)'
<1>1. PICK q, c, a : q = Peer(n, l) /\ c = Received(n, l) /\ a = Answer(n, id)
  OBVIOUS
<1>2. /\ q \in Node /\ q # n /\ Peer(n, l) = q /\ id \in UserLink /\ id \in DOMAIN userLink
      /\ c \in Channels /\ Rest(OneTaken(q, l), c)
  BY <1>1, ArrivalPlaced DEF ReqAtTarget
<1>3. /\ UNCHANGED <<linkVars, sent, handed>> /\ tib' = [tib EXCEPT ![n][id] = <<Null, l>>]
      /\ chan' = Emit(c, n, l, a)
  BY <1>1 DEF ReqAtTarget, TargetEntry, ndnVars
<1>4. n = Target(id) /\ n # Owner(id) /\ n \in Sat /\ \A m \in Node : ~HasEntry(m, id)
  BY <1>2, OwnerType, TargetAnswers DEF HasEntry
<1>5. /\ tib'[n][id] = <<Null, l>> /\ tib'[n][id] # Absent /\ l # Null
      /\ \A m \in Node : m # n => tib'[m][id] = Absent
  <2>1. /\ tib'[n][id] = <<Null, l>>
        /\ \A m \in Node : m # n => tib'[m][id] = tib[m][id]
    BY <1>2, <1>3, Typed, CellChanged
  <2>2. l # Null /\ <<Null, l>> # Absent
    BY MarkerAssumption
  <2> QED BY <1>4, <2>1, <2>2 DEF HasEntry
<1>6. a \in Seq(Message)
  BY <1>1, <1>2, AnswerShape
<1>7. /\ Extends(chan', c)
      /\ \A m \in Node, k \in Link : \A i \in Added(chan', c, m, k) :
           /\ m = n /\ k = l /\ i - Len(c[m][k]) \in DOMAIN a
           /\ chan'[m][k][i] = a[i - Len(c[m][k])]
  BY <1>2, <1>3, <1>6, EmitExtends
<1>8. Grows
  BY <1>3 DEF Grows, LinksOnlyAdded, linkVars, TypeOK
<1>9. ASSUME NEW m \in Node, NEW k \in Link, NEW i \in DOMAIN chan'[m][k],
             chan'[m][k][i] = TunnelAck(id) \/ IsPayload(chan'[m][k][i], id)
      PROVE  i \in Added(chan', c, m, k)
  <2> SUFFICES ASSUME i \notin Added(chan', c, m, k) PROVE FALSE
    OBVIOUS
  <2>1. PICK j \in DOMAIN chan[m][k] : chan'[m][k][i] = chan[m][k][j]
    BY <1>2, <1>7, OldOrAdded
  <2>2. HasEntry(m, id)
    BY <1>9, <2>1 DEF Served, AckOnChain, PayloadOnChain, PayloadFits
  <2> QED BY <1>4, <2>2
\* Where the payload comes from: n's buffer.
<1>10. ASSUME NEW m \in Node, NEW k \in Link, NEW i \in DOMAIN chan'[m][k],
              IsPayload(chan'[m][k][i], id)
       PROVE  /\ m = n /\ k = l /\ i - Len(c[n][l]) \in DOMAIN dt[n][id]
              /\ chan'[m][k][i].pkt = dt[n][id][i - Len(c[n][l])]
  <2>1. m = n /\ k = l /\ i - Len(c[m][k]) \in DOMAIN a /\ chan'[m][k][i] = a[i - Len(c[m][k])]
    BY <1>7, <1>9, <1>10
  <2>2. chan'[m][k][i] # TunnelAck(id)
    BY <1>10 DEF IsPayload, TunnelAck
  <2>3. /\ i - Len(c[m][k]) \in DOMAIN dt[n][id]
        /\ chan'[m][k][i] = LinkPayload(dt[n][id][i - Len(c[m][k])])
    BY <1>1, <1>2, <2>1, <2>2, AnswerOrder
  <2> QED BY <2>1, <2>3 DEF LinkPayload
<1>11. ASSUME NEW j \in DOMAIN dt[n][id], NEW p, p = dt[n][id][j]
       PROVE  PayloadFits(n, l, id, p)'
  <2>1. p \in NdnPacket
    <3>1. dt[n][id] \in Seq(NdnPacket)
      BY <1>2 DEF TypeOK
    <3> QED BY <1>11, <3>1
  <2>2. p.id = id /\ p.from = n /\ Detoured(p)
    <3>1. n \in Sat /\ id \in UserLink
      BY <1>2, <1>4
    <3> QED BY <1>11, <3>1, WaitingIs
  <2>3. Detoured(p)'
    BY <1>3, <1>8, <2>1, <2>2, UnreadStays DEF Detoured
  <2>4. IsDown(p)'
    BY <1>3, <1>4, <2>2 DEF IsDown, Target, linkVars
  <2> QED BY <1>5, <2>2, <2>3, <2>4 DEF PayloadFits, HasEntry
<1>12. PayloadOnChain(id)'
  <2> SUFFICES ASSUME NEW m \in Node, NEW k \in Link, NEW i \in DOMAIN chan'[m][k],
                      IsPayload(chan'[m][k][i], id), NEW p, p = chan'[m][k][i].pkt
               PROVE  PayloadFits(m, k, id, p)'
    BY DEF PayloadOnChain
  <2> QED BY <1>10, <1>11
<1>13. AckOnChain(id)'
  <2> SUFFICES ASSUME NEW m \in Node, NEW k \in Link, NEW i \in DOMAIN chan'[m][k],
                      chan'[m][k][i] = TunnelAck(id)
               PROVE  tib'[m][id] # Absent /\ k = tib'[m][id][2]
    BY DEF AckOnChain, HasEntry
  <2>1. m = n /\ k = l
    BY <1>7, <1>9
  <2> QED BY <1>5, <2>1
<1>14. PICK rank \in [Node -> Nat] : rank = [m \in Node |-> 0]
  OBVIOUS
<1>15. Chain(id, rank)'
  <2>1. /\ Target(id)' = n /\ Owner(id)' # n /\ id \in DOMAIN userLink'
        /\ \A m \in Node : HasEntry(m, id)' <=> m = n
    BY <1>2, <1>3, <1>4, <1>5 DEF Target, Owner, HasEntry, linkVars
  <2>2. KnowsBack(n, id, rank)'
    BY <1>5, <1>14, <2>1 DEF KnowsBack
  <2>3. Onward(n, id)' = q
    BY <1>1, <1>3, <1>5 DEF Onward, Peer, linkVars
  <2>4. KnowsOnward(n, id, rank)'
    BY <1>2, <1>5, <1>14, <2>1, <2>3 DEF KnowsOnward
  <2> QED BY <2>1, <2>2, <2>4 DEF Chain
<1>16. InOrder(id, rank)'
  <2> SUFFICES ASSUME NEW m1 \in Node, NEW m2 \in Node, NEW k1 \in Link, NEW k2 \in Link,
                      NEW i1 \in DOMAIN chan'[m1][k1], NEW i2 \in DOMAIN chan'[m2][k2],
                      SameFlow(chan'[m1][k1][i1], chan'[m2][k2][i2], id),
                      Behind(m1, k1, i1, m2, k2, i2, IsDown(chan[m1][k1][i1].pkt)', rank)
               PROVE  chan'[m2][k2][i2].pkt.k < chan'[m1][k1][i1].pkt.k
    BY DEF InOrder, Ordered
  <2>1. PICK o : o = Len(c[n][l])
    OBVIOUS
  <2>2. /\ i1 - o \in DOMAIN dt[n][id] /\ chan'[m1][k1][i1].pkt = dt[n][id][i1 - o]
        /\ i2 - o \in DOMAIN dt[n][id] /\ chan'[m2][k2][i2].pkt = dt[n][id][i2 - o]
    BY <1>10, <2>1 DEF SameFlow
  <2>3. i1 > i2
    BY <1>14 DEF Behind
  <2>4. o \in Nat /\ i1 \in Nat /\ i2 \in Nat
    <3>1. i1 \in Nat /\ i2 \in Nat
      BY TypedNext
    <3>2. c[n][l] \in Seq(Message)
      BY <1>2 DEF Channels
    <3>3. o \in Nat
      BY <2>1, <3>2
    <3> QED BY <3>1, <3>3
  <2>5. PICK j1, j2 : j1 = i1 - o /\ j2 = i2 - o
    OBVIOUS
  <2>6. j2 < j1 /\ j1 \in DOMAIN dt[n][id] /\ j2 \in DOMAIN dt[n][id]
    BY <2>2, <2>3, <2>4, <2>5
  <2>7. dt[n][id][j2].k < dt[n][id][j1].k
    BY <1>2, <1>4, <2>6 DEF BufferServed
  <2> QED BY <2>2, <2>5, <2>7
<1> QED BY <1>12, <1>13, <1>15, <1>16 DEF Served

LEMMA AckServes ==
  ASSUME TypeOK, TypeOK', LossInv, TunnelInv, BufferInv, NEW n \in Node, NEW l \in Link,
         AckTaken(n, l), NEW id, id = Arriving(n, l).id, Served(id)
  PROVE  Served(id)'
<1>1. PICK q, x, c, r :
        q = Peer(n, l) /\ x = Arriving(n, l) /\ c = Received(n, l) /\ r = prt[n][id]
  OBVIOUS
<1>2. /\ q \in Node /\ q # n /\ Peer(q, l) = n /\ id \in UserLink /\ id \in DOMAIN userLink
      /\ c \in Channels /\ Rest(OneTaken(q, l), c)
      /\ x \in Message /\ x.type = "TunnelAck" /\ x.id = id
      /\ 1 \in DOMAIN chan[q][l] /\ chan[q][l][1] = x
  BY <1>1, ArrivalPlaced DEF AckTaken
<1>3. x = TunnelAck(id) /\ ~IsPayload(x, id) /\ r \in Link \cup {Null}
  BY <1>1, <1>2 DEF Message, TunnelAck, IsPayload, AckTaken, TypeOK
<1>4. /\ UNCHANGED <<linkVars, sent, handed>> /\ tib' = [tib EXCEPT ![n][id] = <<l, r>>]
      /\ chan' = IF r = Null THEN c ELSE Emit(c, n, r, <<x>>)
  BY <1>1 DEF AckTaken, RelayEntry, ndnVars
<1>5. /\ ~HasEntry(n, id) /\ ~Unanswered(id) /\ (r = Null <=> n = Owner(id))
      /\ (r # Null => tib'[Peer(n, r)][id] = Absent)
  BY <1>1, AckPassedOn DEF AckFindsWay, HasEntry
<1>6. n # Target(id) /\ Owner(id) # Target(id)
  BY <1>2, <1>5, OwnerType DEF BufferInv, TargetOrTunnel, Unanswered, Target, HasEntry
<1>7. /\ tib'[n][id] = <<l, r>> /\ tib'[n][id] # Absent /\ l # Null
      /\ \A m \in Node : m # n => tib'[m][id] = tib[m][id]
      /\ \A m \in Node : HasEntry(m, id) => tib'[m][id] = tib[m][id]
  <2>1. /\ tib'[n][id] = <<l, r>>
        /\ \A m \in Node : m # n => tib'[m][id] = tib[m][id]
    BY <1>2, <1>4, Typed, CellChanged
  <2>2. l # Null /\ <<l, r>> # Absent
    BY <1>3, MarkerAssumption
  <2> QED BY <1>5, <2>1, <2>2
<1>8. /\ Extends(chan', c)
      /\ \A m \in Node, k \in Link : \A i \in Added(chan', c, m, k) :
           m = n /\ k = r /\ chan'[m][k][i] = x
  <2>1. CASE r = Null
    BY <1>2, <1>4, <2>1 DEF Extends, Added, Channels
  <2>2. CASE r # Null
    BY <1>2, <1>4, <2>2, EmitOneExtends
  <2> QED BY <2>1, <2>2
<1>9. Grows /\ LinksOnlyAdded
  BY <1>4 DEF Grows, LinksOnlyAdded, linkVars, TypeOK
<1>10. PICK rank \in [Node -> Nat] : Chain(id, rank) /\ InOrder(id, rank)
  BY DEF Served
<1>11. AckOnChain(id) /\ PayloadOnChain(id) /\ HasEntry(q, id) /\ l = tib[q][id][2]
  BY <1>2, <1>3 DEF Served, AckOnChain
\* The ack comes from the last of the chain, which n joins.
<1>12. /\ q # Owner(id) /\ \A m \in Node : HasEntry(m, id) => rank[m] <= rank[q]
  <2>1. KnowsOnward(q, id, rank) /\ Onward(q, id) = n
    BY <1>2, <1>10, <1>11 DEF Chain, Onward
  <2> QED BY <1>5, <1>7, <1>11, <2>1 DEF KnowsOnward
<1>13. PICK new \in [Node -> Nat] : new = [rank EXCEPT ![n] = rank[q] + 1]
  <2>1. rank[q] + 1 \in Nat
    BY <1>2, <1>10
  <2> QED BY <1>10, <2>1
<1>14. new[n] = rank[q] + 1 /\ \A m \in Node : m # n => new[m] = rank[m]
  BY <1>13
<1>15. /\ Owner(id)' = Owner(id) /\ Target(id)' = Target(id)
       /\ \A m, k : Peer(m, k)' = Peer(m, k)
       /\ \A m \in Node : HasEntry(m, id)' <=> (HasEntry(m, id) \/ m = n)
  BY <1>2, <1>4, <1>7 DEF Owner, Target, Peer, HasEntry, linkVars
<1>16. ASSUME NEW m \in Node, m # n, HasEntry(m, id)
       PROVE  KnowsBack(m, id, new)' /\ KnowsOnward(m, id, new)'
  <2>1. KnowsBack(m, id, rank) /\ KnowsOnward(m, id, rank) /\ tib'[m][id] = tib[m][id]
    BY <1>7, <1>10, <1>16 DEF Chain
  <2>2. ASSUME NEW d \in {1, 2}, tib[m][id][d] # Null
        PROVE  Peer(m, tib[m][id][d]) \in Node
    <3>1. PICK k : k = tib[m][id][d]
      OBVIOUS
    <3> QED BY <1>2, <1>16, <2>2, <3>1, EntryDevices
  <2>3. KnowsBack(m, id, new)'
    <3>1. CASE m = Target(id)
      BY <1>14, <1>15, <1>16, <2>1, <3>1 DEF KnowsBack
    <3>2. CASE m # Target(id)
      <4>1. PICK b \in Node : b = Back(m, id)
        BY <2>1, <2>2, <3>2 DEF KnowsBack, Back
      <4>2. Back(m, id)' = b
        BY <1>15, <2>1, <4>1 DEF Back, Peer
      <4>3. b # n /\ HasEntry(b, id) /\ tib'[b][id] = tib[b][id]
        BY <1>5, <1>7, <2>1, <3>2, <4>1 DEF KnowsBack
      <4> QED BY <1>14, <1>15, <1>16, <2>1, <3>2, <4>1, <4>2, <4>3 DEF KnowsBack
    <3> QED BY <3>1, <3>2
  <2>4. KnowsOnward(m, id, new)'
    <3>1. CASE m = q
      <4>1. tib'[m][id][2] = l /\ userLink' = userLink /\ Peer(m, l) = n
        BY <1>2, <1>4, <1>11, <2>1, <3>1 DEF linkVars
      <4>2. Onward(m, id)' = n
        BY <4>1 DEF Onward, Peer
      <4>3. HasEntry(n, id)' /\ tib'[n][id][1] = tib'[m][id][2]
        <5>1. tib'[n][id][1] = l /\ tib'[n][id] # Absent
          BY <1>7
        <5> QED BY <4>1, <5>1 DEF HasEntry
      <4> QED BY <1>12, <1>15, <2>1, <3>1, <4>2, <4>3 DEF KnowsOnward
    <3>2. CASE m # q
      <4>1. rank[m] < rank[q]
        <5>1. \A a, b \in Node : HasEntry(a, id) /\ HasEntry(b, id) /\ rank[a] = rank[b] => a = b
          BY <1>10 DEF Chain
        <5>2. rank[m] \in Nat /\ rank[q] \in Nat
          BY <1>2, <1>10
        <5>3. HasEntry(q, id) /\ rank[m] <= rank[q]
          BY <1>11, <1>12, <1>16
        <5>4. rank[m] # rank[q]
          BY <1>2, <1>16, <3>2, <5>1, <5>3
        <5> QED BY <5>2, <5>3, <5>4
      <4>2. /\ m # Owner(id) /\ HasEntry(Onward(m, id), id)
            /\ tib[Onward(m, id)][id][1] = tib[m][id][2]
        <5>1. rank[m] \in Nat /\ rank[q] \in Nat
          BY <1>2, <1>10
        <5>2. ~(rank[q] <= rank[m])
          BY <4>1, <5>1
        <5>3. ~\A a \in Node : HasEntry(a, id) => rank[a] <= rank[m]
          BY <1>2, <1>11, <5>2
        <5> QED BY <2>1, <5>3 DEF KnowsOnward
      <4>3. PICK b \in Node : b = Onward(m, id)
        BY <2>1, <2>2, <4>2 DEF KnowsOnward, Onward
      <4>4. Onward(m, id)' = b
        BY <1>15, <2>1, <4>3 DEF Onward, Peer
      <4>5. HasEntry(b, id)' /\ tib'[b][id] = tib[b][id]
        BY <1>7, <1>15, <4>2, <4>3
      <4> QED BY <1>15, <2>1, <4>2, <4>3, <4>4, <4>5 DEF KnowsOnward
    <3> QED BY <3>1, <3>2
  <2> QED BY <2>3, <2>4
<1>17. KnowsBack(n, id, new)' /\ KnowsOnward(n, id, new)'
  <2> DEFINE e == tib'[n][id]
  <2>0. /\ e[1] = l /\ e[2] = r /\ l # Null /\ userLink' = userLink
        /\ \A a \in Node : a # n => tib'[a][id] = tib[a][id]
    BY <1>4, <1>7 DEF linkVars
  <2>1. Back(n, id)' = q
    BY <1>1, <2>0 DEF Back, Peer
  <2>2. KnowsBack(n, id, new)'
    <3>1. HasEntry(q, id)' /\ tib'[q][id][2] = l
      BY <1>2, <1>11, <1>15, <2>0
    <3>2. n # Target(id)' /\ new[n] = new[q] + 1
      BY <1>2, <1>6, <1>14, <1>15
    <3> QED BY <2>0, <2>1, <3>1, <3>2 DEF KnowsBack
  <2>3. \A m \in Node : HasEntry(m, id)' => new[m] <= new[n]
    <3>1. \A m \in Node : rank[m] \in Nat
      BY <1>10
    <3>2. \A m \in Node : HasEntry(m, id) => rank[m] <= rank[q] + 1
      BY <1>2, <1>12, <3>1
    <3> QED BY <1>2, <1>14, <1>15, <3>1, <3>2
  <2>4. n # Owner(id) => ~HasEntry(Onward(n, id), id)'
    <3>1. Onward(n, id)' = Peer(n, r)
      BY <2>0 DEF Onward, Peer
    <3> QED BY <1>5, <3>1 DEF HasEntry
  <2>5. e[2] = Null <=> n = Owner(id)'
    BY <1>5, <1>15, <2>0
  <2>6. KnowsOnward(n, id, new)'
    BY <1>15, <2>3, <2>4, <2>5 DEF KnowsOnward
  <2> QED BY <2>2, <2>6
<1>18. Chain(id, new)'
  <2>1. \A m \in Node : HasEntry(m, id)' =>
          id \in DOMAIN userLink' /\ KnowsBack(m, id, new)' /\ KnowsOnward(m, id, new)'
    BY <1>2, <1>4, <1>15, <1>16, <1>17 DEF linkVars
  <2>2. ASSUME NEW a \in Node, NEW b \in Node, HasEntry(a, id)', HasEntry(b, id)', new[a] = new[b]
        PROVE  a = b
    <3>1. \A m \in Node : HasEntry(m, id) => new[m] < new[n]
      <4>1. \A m \in Node : rank[m] \in Nat
        BY <1>10
      <4> QED BY <1>2, <1>5, <1>12, <1>14, <4>1
    <3>2. HasEntry(a, id) /\ HasEntry(b, id) => a = b
      BY <1>5, <1>10, <1>14, <2>2 DEF Chain
    <3>3. new[a] \in Nat /\ new[b] \in Nat
      BY <1>13
    <3> QED BY <1>15, <2>2, <3>1, <3>2, <3>3
  <2> QED BY <2>1, <2>2 DEF Chain
<1>19. AckOnChain(id)'
  <2>1. ASSUME NEW m \in Node, NEW k \in Link, NEW i \in Added(chan', c, m, k)
        PROVE  tib'[m][id] # Absent /\ k = tib'[m][id][2]
    <3>1. m = n /\ k = r
      BY <1>8
    <3>2. tib'[n][id][2] = r /\ tib'[n][id] # Absent
      BY <1>7
    <3> QED BY <3>1, <3>2
  <2>2. AckOnChain(id) /\ \A m \in Node : HasEntry(m, id) => tib'[m][id] = tib[m][id]
    BY <1>7, <1>11
  <2>3. Extends(chan', c) /\ id \in UserLink /\ Rest(OneTaken(q, l), c)
    BY <1>2, <1>8
  <2> QED BY <2>1, <2>2, <2>3, AcksKept
<1>20. ASSUME NEW m \in Node, NEW k \in Link, NEW i \in Added(chan', c, m, k)
       PROVE  ~IsPayload(chan'[m][k][i], id)
  BY <1>3, <1>8
<1>21. PayloadOnChain(id)'
  <2>1. ASSUME NEW m \in Node, NEW k \in Link, NEW i \in DOMAIN chan'[m][k],
               IsPayload(chan'[m][k][i], id), NEW p, p = chan'[m][k][i].pkt
        PROVE  Detoured(p)'
    <3>0. i \notin Added(chan', c, m, k)
      BY <1>20, <2>1
    <3>1. PICK j \in DOMAIN chan[m][k] : chan'[m][k][i] = chan[m][k][j]
      BY <1>2, <1>8, <2>1, <3>0, OldOrAdded
    <3>2. p \in NdnPacket /\ Detoured(p)
      <4>1. chan'[m][k][i] \in Message
        <5>1. chan'[m][k] \in Seq(Message)
          BY DEF TypeOK
        <5> QED BY <2>1, <5>1
      <4>2. PayloadFits(m, k, id, p)
        BY <1>11, <2>1, <3>1 DEF PayloadOnChain
      <4> QED BY <2>1, <4>1, <4>2, MessageFields DEF PayloadFits, IsPayload
    <3> QED BY <1>4, <1>9, <3>2, UnreadStays DEF Detoured
  <2>2. PayloadStays(c, id)
    BY <1>20, <2>1 DEF PayloadStays
  <2> QED BY <1>2, <1>7, <1>8, <1>9, <1>11, <2>2, PayloadKept
<1>22. InOrder(id, new)'
  <2>1. AddedInOrder(c, id, new)
    BY <1>20 DEF AddedInOrder, Ordered, SameFlow
  <2>2. \A m \in Node : HasEntry(m, id) => new[m] = rank[m]
    BY <1>5, <1>14
  <2>3. /\ LinksOnlyAdded /\ id \in UserLink /\ PayloadOnChain(id)
        /\ Rest(OneTaken(q, l), c) /\ Extends(chan', c)
    BY <1>2, <1>8, <1>9, <1>11
  <2>4. rank \in [Node -> Nat] /\ new \in [Node -> Nat] /\ InOrder(id, rank)
    BY <1>10, <1>13
  <2> QED BY <2>1, <2>2, <2>3, <2>4, OrderKept
<1> QED BY <1>18, <1>19, <1>21, <1>22 DEF Served

----------------------------------------------------------------------------
(* What all steps have in common.                                          *)

\* Nothing that is unread is read unless a face hands something up.
LEMMA NothingRead ==
  ASSUME TypeOK, TypeOK', Grows, HandedSent, handed' = handed
  PROVE  /\ HandedSent'
         /\ \A p \in NdnPacket : Unread(p) => Unread(p)'
         /\ \A p \in NdnPacket : Detoured(p) => Detoured(p)'
<1>1. \A p \in NdnPacket : Unread(p) => Unread(p)'
  BY UnreadStays
<1>2. \A p \in NdnPacket : Detoured(p) => Detoured(p)'
  BY UnreadStays DEF Detoured
<1>3. HandedSent'
  <2> SUFFICES ASSUME NEW m \in Node, NEW id \in UserLink, handed'[m][id] # <<>>
               PROVE  /\ id \in DOMAIN userLink' /\ m \in {Owner(id)', Target(id)'}
                      /\ Service!LastHanded(m, id)' <= sent'[OtherEnd(m, id)'][id]
    BY DEF HandedSent
  <2>1. /\ id \in DOMAIN userLink /\ m \in {Owner(id), Target(id)}
        /\ Service!LastHanded(m, id) <= sent[OtherEnd(m, id)][id]
    BY DEF HandedSent
  <2>2. PICK x \in Node : x = OtherEnd(m, id)
    BY <2>1, EndsStay DEF Grows
  <2>3. /\ id \in DOMAIN userLink' /\ Owner(id)' = Owner(id) /\ Target(id)' = Target(id)
        /\ OtherEnd(m, id)' = x
    BY <2>1, <2>2, EndsStay DEF Grows
  <2>4. Service!LastHanded(m, id)' = Service!LastHanded(m, id)
    BY DEF Service!LastHanded
  <2>5. Service!LastHanded(m, id) \in Nat /\ sent[x][id] \in Nat /\ sent'[x][id] \in Nat
    <3>1. handed[m][id] \in Seq(NdnPacket)
      BY DEF TypeOK
    <3>2. handed[m][id] # <<>> => handed[m][id][Len(handed[m][id])] \in NdnPacket
      BY <3>1
    <3>3. \A p \in NdnPacket : p.k \in Nat
      BY BoundAssumption DEF NdnPacket
    <3> QED BY <3>2, <3>3 DEF Service!LastHanded, TypeOK
  <2>6. sent[x][id] <= sent'[x][id]
    BY DEF Grows
  <2> QED BY <2>1, <2>2, <2>3, <2>4, <2>5, <2>6
<1> QED BY <1>1, <1>2, <1>3

\* What NDN sent directly and is not received stays in order.
DirectStays(c) ==
  \A n \in Node, l \in Link : \A i \in DOMAIN chan'[n][l] :
    chan'[n][l][i].type = "Ndn" =>
      IF i \in Added(chan', c, n, l) THEN DirectFits(n, l, i)'
                                     ELSE IsDirect(n, l, chan[n][l][i].pkt)'

LEMMA DirectKept ==
  ASSUME TypeOK, TypeOK', DirectServed, NEW off, NEW c, Rest(off, c), Extends(chan', c),
         DirectStays(c)
  PROVE  DirectServed'
<1> SUFFICES ASSUME NEW n \in Node, NEW l \in Link, NEW i \in DOMAIN chan'[n][l],
                    chan'[n][l][i].type = "Ndn", i \notin Added(chan', c, n, l)
             PROVE  DirectFits(n, l, i)'
  BY DEF DirectServed, DirectStays
<1>1. chan'[n][l] \in Seq(Message) /\ off[n][l] \in {0, 1} /\ c[n][l] \in Seq(Message)
  BY DEF TypeOK, Rest, Channels
<1>2. ASSUME NEW j \in DOMAIN chan'[n][l], chan'[n][l][j].type = "Ndn", j < i
      PROVE  chan'[n][l][j].pkt.k < chan'[n][l][i].pkt.k
  <2>1. j \notin Added(chan', c, n, l)
    BY <1>1, <1>2 DEF Added
  <2>2. PICK a, b : a = i + off[n][l] /\ b = j + off[n][l]
    OBVIOUS
  <2>3. /\ a \in DOMAIN chan[n][l] /\ chan'[n][l][i] = chan[n][l][a]
        /\ b \in DOMAIN chan[n][l] /\ chan'[n][l][j] = chan[n][l][b]
    BY <1>2, <2>1, <2>2, OldOrAdded
  <2>4. b < a
    BY <1>1, <1>2, <2>2
  <2>5. DirectFits(n, l, a)
    BY <2>3 DEF DirectServed
  <2> QED BY <1>2, <2>3, <2>4, <2>5 DEF DirectFits
<1>3. IsDirect(n, l, chan[n][l][i].pkt)'
  BY DEF DirectStays
<1> QED BY <1>2, <1>3 DEF DirectFits

LEMMA WaitingKept ==
  ASSUME TypeOK, TypeOK', BufferServed,
         \A p \in NdnPacket : Detoured(p) => Detoured(p)',
         \A s \in Sat, id \in UserLink : dt'[s][id] \in {dt[s][id], <<>>}
  PROVE  BufferServed'
<1> SUFFICES ASSUME NEW s \in Sat, NEW id \in UserLink, NEW i \in DOMAIN dt'[s][id],
                    NEW d, d = dt'[s][id], NEW p, p = dt'[s][id][i]
             PROVE  /\ p.id = id /\ p.from = s /\ Detoured(p)'
                    /\ \A j \in DOMAIN d : j < i => d[j].k < p.k
  BY DEF BufferServed
<1>1. d = dt[s][id]
  OBVIOUS
<1>2. d \in Seq(NdnPacket) /\ p = d[i]
  BY DEF TypeOK, Node
<1>3. p \in NdnPacket
  BY <1>2
<1>4. /\ p.id = id /\ p.from = s /\ Detoured(p)
      /\ \A j \in DOMAIN d : j < i => d[j].k < p.k
  BY <1>1, <1>2 DEF BufferServed
<1> QED BY <1>3, <1>4

\* Packets that go directly are unread, and so are those on a detour, which
\* have left by a face that is gone.
LEMMA CarriedIs ==
  ASSUME TypeOK, ServiceInv, NEW p \in NdnPacket
  PROVE  /\ Direct(p) => Unread(p)
         /\ OnDetour(p) => Detoured(p)
<1>1. ASSUME Direct(p) PROVE Unread(p)
  <2>1. PICK n \in Node, l \in Link : \E i \in DOMAIN chan[n][l] :
          chan[n][l][i].type = "Ndn" /\ chan[n][l][i].pkt = p
    BY <1>1 DEF Direct
  <2>2. PICK i \in DOMAIN chan[n][l] : chan[n][l][i].type = "Ndn" /\ chan[n][l][i].pkt = p
    BY <2>1
  <2>3. DirectFits(n, l, i)
    BY <2>2 DEF ServiceInv, DirectServed
  <2> QED BY <2>2, <2>3 DEF DirectFits, IsDirect
<1>2. ASSUME NEW n \in Node, NEW l \in Link, NEW i \in DOMAIN chan[n][l],
             chan[n][l][i].type = "LinkPayload", chan[n][l][i].pkt = p
      PROVE  Detoured(p)
  <2>1. chan[n][l][i] \in Message
    BY DEF TypeOK
  <2>2. PICK id \in UserLink : IsPayload(chan[n][l][i], id)
    BY <1>2, <2>1, MessageFields DEF IsPayload
  <2>3. PayloadFits(n, l, id, p)
    BY <1>2, <2>2 DEF ServiceInv, Served, PayloadOnChain
  <2> QED BY <2>3 DEF PayloadFits
<1>3. ASSUME NEW s \in Sat, NEW id \in UserLink, NEW i \in DOMAIN dt[s][id], dt[s][id][i] = p
      PROVE  Detoured(p)
  BY <1>3 DEF ServiceInv, BufferServed
<1> QED BY <1>1, <1>2, <1>3 DEF OnDetour

\* What a step adds does not go directly, and is after what does.
LEMMA FirstKept ==
  ASSUME TypeOK, TypeOK', DirectFirst, NEW off, NEW c, Rest(off, c), Extends(chan', c),
         \A n \in Node, l \in Link : \A i \in Added(chan', c, n, l) :
           /\ chan'[n][l][i].type # "Ndn"
           /\ chan'[n][l][i].type = "LinkPayload" => AfterDirect(chan'[n][l][i].pkt),
         \A s \in Sat, id \in UserLink : \A i \in DOMAIN dt'[s][id] : AfterDirect(dt'[s][id][i])
  PROVE  DirectFirst'
<1>1. ASSUME NEW p \in NdnPacket, Direct(p)' PROVE Direct(p)
  <2>1. PICK n \in Node, l \in Link : \E i \in DOMAIN chan'[n][l] :
          chan'[n][l][i].type = "Ndn" /\ chan'[n][l][i].pkt = p
    BY <1>1 DEF Direct
  <2>2. PICK i \in DOMAIN chan'[n][l] : chan'[n][l][i].type = "Ndn" /\ chan'[n][l][i].pkt = p
    BY <2>1
  <2>3. PICK j \in DOMAIN chan[n][l] : chan'[n][l][i] = chan[n][l][j]
    BY <2>2, OldOrAdded
  <2> QED BY <2>2, <2>3 DEF Direct
<1>2. ASSUME NEW q \in NdnPacket, OnDetour(q)' PROVE AfterDirect(q)
  <2>1. ASSUME NEW n \in Node, NEW l \in Link, NEW i \in DOMAIN chan'[n][l],
               chan'[n][l][i].type = "LinkPayload", chan'[n][l][i].pkt = q
        PROVE  AfterDirect(q)
    <3>1. CASE i \in Added(chan', c, n, l)
      BY <2>1, <3>1
    <3>2. CASE i \notin Added(chan', c, n, l)
      <4>1. PICK j \in DOMAIN chan[n][l] : chan'[n][l][i] = chan[n][l][j]
        BY <3>2, OldOrAdded
      <4>2. OnDetour(q)
        BY <2>1, <4>1 DEF OnDetour
      <4> QED BY <4>2 DEF DirectFirst
    <3> QED BY <3>1, <3>2
  <2> QED BY <1>2, <2>1 DEF OnDetour
<1> QED BY <1>1, <1>2 DEF DirectFirst, AfterDirect

\* What waits was waiting before, and so is after what goes directly.
LEMMA WaitingAfter ==
  ASSUME TypeOK, DirectFirst, NEW s \in Sat, NEW id \in UserLink, dt'[s][id] \in {dt[s][id], <<>>},
         NEW i \in DOMAIN dt'[s][id]
  PROVE  AfterDirect(dt'[s][id][i])
<1>1. i \in DOMAIN dt[s][id] /\ dt'[s][id][i] = dt[s][id][i]
  OBVIOUS
<1>2. dt[s][id] \in Seq(NdnPacket)
  BY Typed DEF Node
<1>3. dt[s][id][i] \in NdnPacket
  BY <1>1, <1>2
<1>4. OnDetour(dt[s][id][i])
  BY <1>1 DEF OnDetour
<1> QED BY <1>1, <1>3, <1>4 DEF DirectFirst

\* A step that hands nothing up; what it does to tunnels is said by Served.
LEMMA StepServes ==
  ASSUME TypeOK, TypeOK', LossInv, ServiceInv, Grows, handed' = handed,
         BufferServed', DirectFirst',
         NEW off, NEW c, Rest(off, c), Extends(chan', c),
         \A n \in Node, l \in Link : \A i \in Added(chan', c, n, l) :
           chan'[n][l][i].type = "Ndn" => DirectFits(n, l, i)',
         \A id \in UserLink :
           Served(id)' \/ (NothingAdded(c, id) /\ \A n \in Node : tib'[n][id] = tib[n][id])
  PROVE  ServiceInv'
<1>1. /\ DirectServed /\ BufferServed /\ HandedSent
      /\ \A id \in UserLink : Served(id)
  BY DEF ServiceInv
<1>2. /\ HandedSent' /\ LinksOnlyAdded
      /\ \A p \in NdnPacket : Unread(p) => Unread(p)'
      /\ \A p \in NdnPacket : Detoured(p) => Detoured(p)'
  BY <1>1, NothingRead DEF Grows
<1>3. \A n \in Node, l \in Link : chan'[n][l] \in Seq(Message)
  BY DEF TypeOK
<1>4. DirectServed'
  <2> SUFFICES ASSUME NEW n \in Node, NEW l \in Link, NEW i \in DOMAIN chan'[n][l],
                      chan'[n][l][i].type = "Ndn", i \notin Added(chan', c, n, l)
               PROVE  IsDirect(n, l, chan[n][l][i].pkt)'
    BY <1>1, DirectKept DEF DirectStays
  <2>1. PICK p \in NdnPacket : p = chan'[n][l][i].pkt
    BY <1>3, MessageFields
  <2>2. PICK j \in DOMAIN chan[n][l] : chan'[n][l][i] = chan[n][l][j]
    BY OldOrAdded
  <2>3. IsDirect(n, l, p)
    BY <1>1, <2>1, <2>2 DEF DirectServed, DirectFits
  <2>4. IsDirect(n, l, p)'
    BY <1>2, <2>3 DEF IsDirect
  <2> QED BY <2>1, <2>4
<1>5. ASSUME NEW id \in UserLink, NothingAdded(c, id),
             \A n \in Node : tib'[n][id] = tib[n][id]
      PROVE  Served(id)'
  <2>1. ASSUME NEW n \in Node, NEW l \in Link, NEW i \in DOMAIN chan'[n][l],
               IsPayload(chan'[n][l][i], id)
        PROVE  Detoured(chan[n][l][i].pkt)'
    <3>1. PICK p \in NdnPacket : p = chan'[n][l][i].pkt
      BY <1>3, <2>1, MessageFields DEF IsPayload
    <3>2. i \notin Added(chan', c, n, l)
      BY <1>5, <2>1 DEF NothingAdded
    <3>3. PICK j \in DOMAIN chan[n][l] : chan'[n][l][i] = chan[n][l][j]
      BY <3>2, OldOrAdded
    <3>4. Detoured(p)
      BY <1>1, <2>1, <3>1, <3>3 DEF Served, PayloadOnChain, PayloadFits
    <3>5. Detoured(p)'
      BY <1>2, <3>4
    <3> QED BY <3>1, <3>5
  <2> QED BY <1>1, <1>2, <1>5, <2>1, ServedKept
<1> QED BY <1>2, <1>4, <1>5 DEF ServiceInv

----------------------------------------------------------------------------
(* The steps that hand nothing up.                                         *)

\* Update emits nothing but requests.
LEMMA UpdateServes ==
  ASSUME TypeOK, TypeOK', LossInv, ServiceInv, LinksOnlyAdded, UNCHANGED <<tib, dt, sent, handed>>,
         \A n \in Node : isGone[n] \subseteq isGone'[n],
         Extends(chan', chan),
         \A n \in Node, l \in Link : \A i \in Added(chan', chan, n, l) :
           chan'[n][l][i].type = "TunnelReq"
  PROVE  ServiceInv'
<1>1. Rest(NoneTaken, chan)
  BY RestOfAll
<1>2. Grows
  BY DEF Grows, TypeOK
<1>3. DirectFirst'
  <2>1. \A s \in Sat, id \in UserLink : \A i \in DOMAIN dt'[s][id] : AfterDirect(dt'[s][id][i])
    BY WaitingAfter DEF ServiceInv
  <2> QED BY <1>1, <2>1, FirstKept DEF ServiceInv
<1>4. BufferServed'
  <2>1. \A p \in NdnPacket : Detoured(p) => Detoured(p)'
    BY <1>2, NothingRead DEF ServiceInv
  <2> QED BY <2>1, WaitingKept DEF ServiceInv
<1>5. \A id \in UserLink : NothingAdded(chan, id)
  BY DEF NothingAdded, IsPayload, TunnelAck
<1> QED BY <1>1, <1>2, <1>3, <1>4, <1>5, StepServes

\* Marking the faces of a link gone unmarks none.
LEMMA DetachedGrows ==
  ASSUME TypeOK, NEW st, NEW n \in Node
  PROVE  isGone[n] \subseteq Detached(st)[n]
BY DEF Detached

LEMMA UpdateStationServes ==
  ASSUME TypeOK, TypeOK', LossInv, ServiceInv, NEW st \in Station, UpdateStation(st)
  PROVE  ServiceInv'
<1> USE DEF linkVars, shimVars, ndnVars
<1>1. chan \in Channels /\ st \in Node
  BY DEF TypeOK, Channels, Node
<1>2. CASE Stay(st)
  <2>1. UNCHANGED <<userLink, isGone, chan, tib, dt, sent, handed>>
    BY <1>2 DEF Stay
  <2> QED BY <1>1, <2>1, UpdateServes DEF LinksOnlyAdded, Extends, Added, Channels
<1>3. CASE Leave(st)
  <2>1. /\ UNCHANGED <<userLink, chan, tib, dt, sent, handed>>
        /\ isGone' = Detached(st)
    BY <1>3 DEF Leave
  <2>2. \A n \in Node : isGone[n] \subseteq isGone'[n]
    BY <2>1, DetachedGrows
  <2> QED BY <1>1, <2>1, <2>2, UpdateServes DEF LinksOnlyAdded, Extends, Added, Channels
<1>4. ASSUME NEW s \in Sat, Enter(st, s) PROVE ServiceInv'
  <2>1. /\ UNCHANGED <<isGone, chan, tib, dt, sent, handed>>
        /\ userLink' = Append(userLink, <<st, s>>)
    BY <1>4 DEF Enter
  <2>2. LinksOnlyAdded
    BY <2>1 DEF LinksOnlyAdded
  <2>3. Extends(chan', chan) /\ \A n \in Node, l \in Link : Added(chan', chan, n, l) = {}
    BY <1>1, <2>1 DEF Extends, Added, Channels
  <2> QED BY <2>1, <2>2, <2>3, UpdateServes
<1>5. ASSUME NEW s \in Sat, Move(st, s) PROVE ServiceInv'
  <2>1. /\ UNCHANGED <<tib, dt, sent, handed>> /\ isGone' = Detached(st)
        /\ userLink' = Append(userLink, <<st, s>>)
    BY <1>5 DEF Move
  <2>2. \/ chan' = chan
        \/ chan' = BroadcastReq(chan, userLink', Detached(st)[st], st, p2pDevice[st], 0, Null)
    BY <1>5 DEF Move
  <2>3. /\ Extends(chan', chan)
        /\ \A n \in Node, l \in Link : \A i \in Added(chan', chan, n, l) :
             chan'[n][l][i].type = "TunnelReq"
    <3>1. CASE chan' = chan
      BY <1>1, <3>1 DEF Extends, Added, Channels
    <3>2. CASE chan' = BroadcastReq(chan, userLink', Detached(st)[st], st, p2pDevice[st], 0, Null)
      <4>1. PICK links, gone, id :
              links = userLink' /\ gone = Detached(st)[st] /\ id = p2pDevice[st]
        OBVIOUS
      <4>2. chan' = BroadcastReq(chan, links, gone, st, id, 0, Null)
        BY <3>2, <4>1
      <4>3. /\ Extends(chan', chan)
            /\ \A n \in Node, l \in Link : \A i \in Added(chan', chan, n, l) :
                 chan'[n][l][i] = TunnelReq(id, HopsLeft(0))
        BY <1>1, <4>2, BroadcastExtends
      <4> QED BY <4>3 DEF TunnelReq
    <3> QED BY <2>2, <3>1, <3>2
  <2>4. \A n \in Node : isGone[n] \subseteq isGone'[n]
    BY <2>1, DetachedGrows
  <2> QED BY <2>1, <2>3, <2>4, UpdateServes DEF LinksOnlyAdded
<1> QED BY <1>2, <1>3, <1>4, <1>5 DEF UpdateStation

LEMMA SendDirectServes ==
  ASSUME TypeOK, TypeOK', LossInv, ServiceInv, NEW n \in Node, NEW id \in UserLink,
         SendDirect(n, id)
  PROVE  ServiceInv'
<1>1. PICK p, x : p = NextPacket(n, id) /\ x = Ndn(p)
  OBVIOUS
<1>2. /\ CanSend(n, id) /\ UNCHANGED <<linkVars, tib, dt, handed>> /\ id \notin isGone[n]
      /\ sent' = [sent EXCEPT ![n][id] = @ + 1] /\ chan' = Emit(chan, n, id, <<x>>)
  BY <1>1 DEF SendDirect, shimVars
<1>3. /\ p \in NdnPacket /\ p.id = id /\ p.from = n /\ Unread(p)' /\ Grows
      /\ \A q \in NdnPacket : Unread(q) /\ q.from = n /\ q.id = id => q.k < p.k
  <2>1. HandedSent /\ SendsOne(n, id) /\ p = NextPacket(n, id)
    BY <1>1, <1>2 DEF SendsOne, linkVars, ServiceInv
  <2> QED BY <2>1, NextUnread
<1>4. /\ x \in Message /\ x.type = "Ndn" /\ x.pkt = p
      /\ chan \in Channels /\ Rest(NoneTaken, chan)
  BY <1>1, <1>3, MessageKinds, RestOfAll DEF TypeOK, Channels, Ndn
<1>5. /\ Extends(chan', chan)
      /\ \A m \in Node, k \in Link : \A i \in Added(chan', chan, m, k) :
           m = n /\ k = id /\ i = Len(chan[m][k]) + 1 /\ chan'[m][k][i] = x
  BY <1>2, <1>4, EmitOneExtends
<1>6. ASSUME NEW l \in Link, NEW i \in Added(chan', chan, n, l)
      PROVE  DirectFits(n, l, i)'
  <2>1. l = id /\ i = Len(chan[n][l]) + 1 /\ chan'[n][l][i] = x
    BY <1>5
  <2>2. chan[n][l] \in Seq(Message) /\ chan'[n][l] \in Seq(Message)
    BY DEF TypeOK
  <2>3. ASSUME NEW j \in DOMAIN chan'[n][l], chan'[n][l][j].type = "Ndn", j < i
        PROVE  chan'[n][l][j].pkt.k < p.k
    <3>1. j \notin Added(chan', chan, n, l)
      BY <2>1, <2>2, <2>3 DEF Added
    <3>2. PICK m \in DOMAIN chan[n][l] : chan'[n][l][j] = chan[n][l][m]
      BY <1>4, <1>5, <3>1, OldOrAdded
    <3>3. PICK q \in NdnPacket : q = chan[n][l][m].pkt
      BY <2>2, <2>3, <3>2, MessageFields
    <3>4. IsDirect(n, l, q)
      BY <2>3, <3>2, <3>3 DEF ServiceInv, DirectServed, DirectFits
    <3> QED BY <1>3, <2>1, <3>2, <3>3, <3>4 DEF IsDirect
  <2>4. IsDirect(n, l, p)'
    BY <1>3, <2>1 DEF IsDirect
  <2>5. chan'[n][l][i].pkt = p
    BY <1>4, <2>1
  <2> QED BY <2>3, <2>4, <2>5 DEF DirectFits
<1>7. BufferServed'
  <2>1. \A q \in NdnPacket : Detoured(q) => Detoured(q)'
    BY <1>2, <1>3, NothingRead DEF ServiceInv
  <2> QED BY <1>2, <2>1, WaitingKept DEF ServiceInv
<1>8. \A k \in UserLink : NothingAdded(chan, k)
  BY <1>4, <1>5 DEF NothingAdded, IsPayload, TunnelAck
\* Its face is not gone, so none of its packets is on a detour.
<1>9. DirectFirst'
  <2> SUFFICES ASSUME NEW q \in NdnPacket, NEW r \in NdnPacket, OnDetour(q)', Direct(r)',
                      r.from = q.from, r.id = q.id
               PROVE  r.k < q.k
    BY DEF DirectFirst, AfterDirect
  <2>1. OnDetour(q)
    <3>1. ASSUME NEW m \in Node, NEW k \in Link, NEW i \in DOMAIN chan'[m][k],
                 chan'[m][k][i].type = "LinkPayload", chan'[m][k][i].pkt = q
          PROVE  OnDetour(q)
      <4>1. i \notin Added(chan', chan, m, k)
        BY <1>4, <1>5, <3>1
      <4>2. PICK j \in DOMAIN chan[m][k] : chan'[m][k][i] = chan[m][k][j]
        BY <1>4, <1>5, <4>1, OldOrAdded
      <4> QED BY <3>1, <4>2 DEF OnDetour
    <3> QED BY <1>2, <3>1 DEF OnDetour
  <2>2. ~(q.id = id /\ q.from = n)
    BY <1>2, <2>1, CarriedIs DEF Detoured
  <2>3. Direct(r)
    <3>1. PICK m \in Node, k \in Link : \E i \in DOMAIN chan'[m][k] :
            chan'[m][k][i].type = "Ndn" /\ chan'[m][k][i].pkt = r
      BY DEF Direct
    <3>2. PICK i \in DOMAIN chan'[m][k] : chan'[m][k][i].type = "Ndn" /\ chan'[m][k][i].pkt = r
      BY <3>1
    <3>3. i \notin Added(chan', chan, m, k)
      BY <1>3, <1>4, <1>5, <2>2, <3>2
    <3>4. PICK j \in DOMAIN chan[m][k] : chan'[m][k][i] = chan[m][k][j]
      BY <1>4, <1>5, <3>3, OldOrAdded
    <3> QED BY <3>2, <3>4 DEF Direct
  <2> QED BY <2>1, <2>3 DEF ServiceInv, DirectFirst, AfterDirect
<1>10. \A m \in Node : tib'[m] = tib[m]
  BY <1>2
<1> QED BY <1>2, <1>3, <1>4, <1>5, <1>6, <1>7, <1>8, <1>9, <1>10, StepServes

LEMMA SendTunnelledServes ==
  ASSUME TypeOK, TypeOK', LossInv, ServiceInv, NEW n \in Node, NEW id \in UserLink,
         SendTunnelled(n, id)
  PROVE  ServiceInv'
<1>1. PICK p, x, dev : p = NextPacket(n, id) /\ x = LinkPayload(p) /\ dev = TunnelDevice(tib[n][id])
  OBVIOUS
<1>2. /\ CanSend(n, id) /\ UNCHANGED <<linkVars, tib, dt, handed>>
      /\ sent' = [sent EXCEPT ![n][id] = @ + 1] /\ chan' = Emit(chan, n, dev, <<x>>)
  BY <1>1 DEF SendTunnelled, shimVars
<1>3. /\ p \in NdnPacket /\ p.id = id /\ p.from = n /\ Grows
      /\ \A q \in NdnPacket : Unread(q) /\ q.from = n /\ q.id = id => q.k < p.k
  <2>1. HandedSent /\ SendsOne(n, id) /\ p = NextPacket(n, id)
    BY <1>1, <1>2 DEF SendsOne, linkVars, ServiceInv
  <2> QED BY <2>1, NextUnread
<1>4. /\ x \in Message /\ x.type = "LinkPayload" /\ x.id = id /\ x.pkt = p
      /\ chan \in Channels /\ Rest(NoneTaken, chan)
  BY <1>1, <1>3, MessageKinds, RestOfAll DEF TypeOK, Channels, LinkPayload
<1>5. /\ Extends(chan', chan)
      /\ \A m \in Node, k \in Link : \A i \in Added(chan', chan, m, k) : chan'[m][k][i] = x
  BY <1>2, <1>4, EmitOneExtends
<1>6. BufferServed'
  <2>1. \A q \in NdnPacket : Detoured(q) => Detoured(q)'
    BY <1>2, <1>3, NothingRead DEF ServiceInv
  <2> QED BY <1>2, <2>1, WaitingKept DEF ServiceInv
<1>7. \A k \in UserLink : k # id => NothingAdded(chan, k)
  BY <1>4, <1>5 DEF NothingAdded, IsPayload, TunnelAck
<1>8. Served(id)'
  BY SendServes DEF ServiceInv
<1>9. DirectFirst'
  <2>1. AfterDirect(p)
    BY <1>3, CarriedIs DEF AfterDirect
  <2>2. \A s \in Sat, k \in UserLink : \A i \in DOMAIN dt'[s][k] : AfterDirect(dt'[s][k][i])
    BY <1>2, WaitingAfter DEF ServiceInv
  <2> QED BY <1>4, <1>5, <2>1, <2>2, FirstKept DEF ServiceInv
<1>10. \A m \in Node : tib'[m] = tib[m]
  BY <1>2
<1> QED BY <1>2, <1>3, <1>4, <1>5, <1>6, <1>7, <1>8, <1>9, <1>10, StepServes

LEMMA SendBufferedServes ==
  ASSUME TypeOK, TypeOK', LossInv, ServiceInv, NEW n \in Node, NEW id \in UserLink,
         SendBuffered(n, id)
  PROVE  ServiceInv'
<1>1. PICK p : p = NextPacket(n, id)
  OBVIOUS
<1>2. /\ CanSend(n, id) /\ UNCHANGED <<linkVars, tib, chan, handed>> /\ id \in isGone[n]
      /\ sent' = [sent EXCEPT ![n][id] = @ + 1] /\ dt' = [dt EXCEPT ![n][id] = Append(@, p)]
  BY <1>1 DEF SendBuffered
<1>3. /\ p \in NdnPacket /\ p.id = id /\ p.from = n /\ Unread(p)' /\ Grows
      /\ \A q \in NdnPacket : Unread(q) /\ q.from = n /\ q.id = id => q.k < p.k
  <2>1. HandedSent /\ SendsOne(n, id) /\ p = NextPacket(n, id)
    BY <1>1, <1>2 DEF SendsOne, linkVars, ServiceInv
  <2> QED BY <2>1, NextUnread
<1>4. chan \in Channels /\ Rest(NoneTaken, chan)
  BY RestOfAll DEF TypeOK, Channels
<1>5. Extends(chan', chan) /\ \A m \in Node, k \in Link : Added(chan', chan, m, k) = {}
  BY <1>2, <1>4 DEF Extends, Added, Channels
<1>6. \A q \in NdnPacket : Detoured(q) => Detoured(q)'
  BY <1>2, <1>3, NothingRead DEF ServiceInv
<1>7. BufferServed'
  <2> SUFFICES ASSUME NEW s \in Sat, NEW k \in UserLink, NEW i \in DOMAIN dt'[s][k],
                      NEW d, d = dt'[s][k], NEW r, r = dt'[s][k][i]
               PROVE  /\ r.id = k /\ r.from = s /\ Detoured(r)'
                      /\ \A j \in DOMAIN d : j < i => d[j].k < r.k
    BY DEF BufferServed
  <2>1. PICK e \in Seq(NdnPacket) : e = dt[s][k]
    BY Typed DEF Node
  <2>2. \A j \in DOMAIN e :
          /\ e[j] \in NdnPacket /\ e[j].id = k /\ e[j].from = s /\ Detoured(e[j])
          /\ \A m \in DOMAIN e : m < j => e[m].k < e[j].k
    <3>1. \A j \in DOMAIN e : e[j] \in NdnPacket
      OBVIOUS
    <3> QED BY <2>1, <3>1 DEF ServiceInv, BufferServed
  <2>3. CASE d = e
    BY <1>6, <2>2, <2>3
  <2>4. CASE d # e
    <3>1. s = n /\ k = id /\ d = Append(e, p)
      BY <1>2, <2>1, <2>4 DEF TypeOK, Node
    <3>2. /\ Len(d) = Len(e) + 1 /\ d[Len(e) + 1] = p /\ d \in Seq(NdnPacket)
          /\ \A j \in 1..Len(e) : d[j] = e[j]
          /\ Len(e) \in Nat /\ DOMAIN d = 1..Len(d) /\ DOMAIN e = 1..Len(e)
      BY <1>3, <3>1, AppendProperties
    <3>3. CASE i = Len(e) + 1
      <4>1. Detoured(p)'
        BY <1>2, <1>3 DEF Detoured, linkVars
      <4>2. \A j \in DOMAIN e : e[j].k < p.k
        BY <1>3, <2>2, <3>1 DEF Detoured
      <4> QED BY <1>3, <3>1, <3>2, <3>3, <4>1, <4>2
    <3>4. CASE i \in DOMAIN e
      <4>1. r = e[i] /\ \A j \in DOMAIN d : j < i => j \in DOMAIN e /\ d[j] = e[j]
        BY <3>2, <3>4
      <4> QED BY <1>6, <2>2, <3>4, <4>1
    <3> QED BY <3>2, <3>3, <3>4
  <2> QED BY <2>3, <2>4
<1>8. \A k \in UserLink : NothingAdded(chan, k)
  BY <1>5 DEF NothingAdded
<1>9. DirectFirst'
  <2>1. AfterDirect(p)
    BY <1>3, CarriedIs DEF AfterDirect
  <2>2. ASSUME NEW s \in Sat, NEW k \in UserLink, NEW i \in DOMAIN dt'[s][k]
        PROVE  AfterDirect(dt'[s][k][i])
    <3>1. CASE dt'[s][k] = dt[s][k]
      BY <2>2, <3>1, WaitingAfter DEF ServiceInv
    <3>2. CASE dt'[s][k] # dt[s][k]
      <4>1. PICK e \in Seq(NdnPacket) : e = dt[s][k]
        BY Typed DEF Node
      <4>2. s = n /\ k = id /\ dt'[s][k] = Append(e, p)
        BY <1>2, <3>2, <4>1 DEF TypeOK, Node
      <4>3. /\ DOMAIN Append(e, p) = 1..Len(e)+1 /\ Append(e, p)[Len(e) + 1] = p
            /\ \A j \in 1..Len(e) : Append(e, p)[j] = e[j]
            /\ Len(e) \in Nat /\ DOMAIN e = 1..Len(e)
        BY <1>3, <4>1, AppendProperties
      <4>4. ASSUME i \in DOMAIN e PROVE AfterDirect(e[i])
        <5>1. e[i] \in NdnPacket /\ OnDetour(e[i])
          BY <4>1, <4>4 DEF OnDetour
        <5> QED BY <5>1 DEF ServiceInv, DirectFirst
      <4>5. i \in DOMAIN e \/ i = Len(e) + 1
        BY <4>2, <4>3
      <4> QED BY <2>1, <4>2, <4>3, <4>4, <4>5
    <3> QED BY <3>1, <3>2
  <2> QED BY <1>4, <1>5, <2>2, FirstKept DEF ServiceInv
<1>10. \A m \in Node : tib'[m] = tib[m]
  BY <1>2
<1> QED BY <1>2, <1>3, <1>4, <1>5, <1>7, <1>8, <1>9, <1>10, StepServes

LEMMA ReceiveServes ==
  ASSUME TypeOK, TypeOK', LossInv, TunnelInv, BufferInv, ServiceInv,
         NEW n \in Node, NEW l \in Link, ProcessPacket(n, l), ~PayloadHandedUp(n, l)
  PROVE  ServiceInv'
\* Only the tunnel of id is concerned, and what is emitted is about it.
<1>1. ASSUME NEW t, Arrives(n, l, t), NEW c, c = Received(n, l), NEW id,
             Extends(chan', c), UNCHANGED <<linkVars, sent, handed>>,
             \A m \in Node, k \in Link : \A i \in Added(chan', c, m, k) :
               \/ chan'[m][k][i].type = "TunnelReq"
               \/ chan'[m][k][i].type \in {"TunnelAck", "LinkPayload"} /\ chan'[m][k][i].id = id,
             \A m \in Node, k \in Link : \A i \in Added(chan', c, m, k) :
               chan'[m][k][i].type = "LinkPayload" => AfterDirect(chan'[m][k][i].pkt),
             \A m \in Node, k \in UserLink : k # id => tib'[m][k] = tib[m][k],
             \A s \in Sat, k \in UserLink : dt'[s][k] \in {dt[s][k], <<>>},
             id \in UserLink =>
               \/ Served(id)'
               \/ NothingAdded(c, id) /\ \A m \in Node : tib'[m][id] = tib[m][id]
      PROVE  ServiceInv'
  <2>1. Rest(OneTaken(Peer(n, l), l), c)
    BY <1>1, RestOfReceived
  <2>2. Grows
    BY <1>1 DEF Grows, LinksOnlyAdded, linkVars, TypeOK
  <2>3. BufferServed'
    <3>1. \A p \in NdnPacket : Detoured(p) => Detoured(p)'
      BY <1>1, <2>2, NothingRead DEF ServiceInv
    <3> QED BY <1>1, <3>1, WaitingKept DEF ServiceInv
  <2>4. DirectFirst' /\ handed' = handed
    <3>1. \A s \in Sat, k \in UserLink : \A i \in DOMAIN dt'[s][k] : AfterDirect(dt'[s][k][i])
      BY <1>1, WaitingAfter DEF ServiceInv
    <3>2. \A m \in Node, k \in Link : \A i \in Added(chan', c, m, k) : chan'[m][k][i].type # "Ndn"
      BY <1>1
    <3> QED BY <1>1, <2>1, <3>1, <3>2, FirstKept DEF ServiceInv
  <2>5. \A k \in UserLink : k # id => NothingAdded(c, k)
    BY <1>1 DEF NothingAdded, IsPayload, TunnelAck
  <2>6. \A k \in UserLink :
          Served(k)' \/ (NothingAdded(c, k) /\ \A m \in Node : tib'[m][k] = tib[m][k])
    BY <1>1, <2>5
  <2>7. \A m \in Node, k \in Link : \A i \in Added(chan', c, m, k) : chan'[m][k][i].type # "Ndn"
    BY <1>1
  <2> QED BY <1>1, <2>1, <2>2, <2>3, <2>4, <2>6, <2>7, StepServes
<1>2. ASSUME NEW t, Arrives(n, l, t), NEW c, c = Received(n, l), chan' = c,
             UNCHANGED <<linkVars, tib, dt, sent, handed>>
      PROVE  ServiceInv'
  <2>1. c \in Channels
    BY <1>2, ArrivalType
  <2>2. Extends(chan', c) /\ \A m \in Node, k \in Link : Added(chan', c, m, k) = {}
    BY <1>2, <2>1 DEF Extends, Added, Channels
  <2>3. \A id \in UserLink : NothingAdded(c, id)
    BY <2>2 DEF NothingAdded
  <2>4. /\ \A m \in Node, k \in UserLink : tib'[m][k] = tib[m][k]
        /\ \A s \in Sat, k \in UserLink : dt'[s][k] \in {dt[s][k], <<>>}
    BY <1>2
  <2> QED BY <1>1, <1>2, <2>2, <2>3, <2>4
<1>3. CASE ReqLoop(n, l) \/ AckUnsolicited(n, l) \/ PayloadDiscarded(n, l)
  BY <1>2, <1>3 DEF ReqLoop, AckUnsolicited, PayloadDiscarded, PayloadArrives, shimVars, ndnVars
<1>4. PICK c, x, id : c = Received(n, l) /\ x = Arriving(n, l) /\ id = x.id
  OBVIOUS
<1>5. CASE ReqRelay(n, l)
  <2>1. /\ UNCHANGED <<linkVars, tib, dt, sent, handed>> /\ Arrives(n, l, "TunnelReq")
        /\ chan' = BroadcastReq(c, userLink, isGone[n], n, id, x.hopLimit, l)
    BY <1>4, <1>5 DEF ReqRelay, ndnVars
  <2>2. c \in Channels
    BY <1>4, <2>1, ArrivalType
  <2>3. /\ Extends(chan', c)
        /\ \A m \in Node, k \in Link : \A i \in Added(chan', c, m, k) :
             chan'[m][k][i].type = "TunnelReq"
    <3>1. PICK gone, h : gone = isGone[n] /\ h = x.hopLimit
      OBVIOUS
    <3>2. chan' = BroadcastReq(c, userLink, gone, n, id, h, l)
      BY <2>1, <3>1
    <3>3. /\ Extends(chan', c)
          /\ \A m \in Node, k \in Link : \A i \in Added(chan', c, m, k) :
               chan'[m][k][i] = TunnelReq(id, HopsLeft(h))
      BY <2>2, <3>2, BroadcastExtends
    <3> QED BY <3>3 DEF TunnelReq
  <2>4. \A k \in UserLink : NothingAdded(c, k)
    BY <2>3 DEF NothingAdded, IsPayload, TunnelAck
  <2>5. /\ \A m \in Node, k \in UserLink : tib'[m][k] = tib[m][k]
        /\ \A s \in Sat, k \in UserLink : dt'[s][k] \in {dt[s][k], <<>>}
    BY <2>1
  <2> QED BY <1>1, <1>4, <2>1, <2>3, <2>4, <2>5
<1>6. ASSUME NEW t \in {"TunnelReq", "TunnelAck", "LinkPayload"}, Arrives(n, l, t)
      PROVE  id \in UserLink /\ x \in Message /\ x.type = t /\ c \in Channels
  BY <1>4, <1>6, ArrivalType, MessageFields
<1>7. CASE ReqAtTarget(n, l)
  <2>1. /\ UNCHANGED <<linkVars, sent, handed>> /\ Arrives(n, l, "TunnelReq")
        /\ tib' = [tib EXCEPT ![n][id] = <<Null, l>>]
        /\ dt' = [dt EXCEPT ![n][id] = <<>>] /\ chan' = Emit(c, n, l, Answer(n, id))
    BY <1>4, <1>7 DEF ReqAtTarget, TargetEntry, BufferErased, ndnVars
  <2>2. id \in UserLink /\ c \in Channels
    BY <1>6, <2>1
  <2>3. PICK a \in Seq(Message) :
          /\ a = Answer(n, id)
          /\ \A i \in DOMAIN a :
               \/ a[i] = TunnelAck(id)
               \/ i \in DOMAIN dt[n][id] /\ a[i] = LinkPayload(dt[n][id][i])
    <3>1. PICK a \in Seq(Message) : a = Answer(n, id)
      BY <2>2, AnswerShape
    <3> QED BY <2>2, <3>1, AnswerOrder
  <2>4. n \in Sat
    BY <1>4, <1>7, <2>1, ArrivalPlaced, TargetAnswers, OwnerType
  <2>5. \A i \in DOMAIN a : a[i].type \in {"TunnelAck", "LinkPayload"} /\ a[i].id = id
    BY <2>2, <2>3, <2>4 DEF TunnelAck, LinkPayload, ServiceInv, BufferServed
  <2>6. \A i \in DOMAIN a : a[i].type = "LinkPayload" => AfterDirect(a[i].pkt)
    <3> SUFFICES ASSUME NEW i \in DOMAIN dt[n][id], NEW r, r = dt[n][id][i]
                 PROVE  AfterDirect(r)
      BY <2>3 DEF TunnelAck, LinkPayload
    <3>1. r \in NdnPacket
      BY <2>2, <2>4, WaitingIs DEF ServiceInv
    <3>2. OnDetour(r)
      BY <2>2, <2>4 DEF OnDetour
    <3> QED BY <3>1, <3>2 DEF ServiceInv, DirectFirst
  <2>7. /\ Extends(chan', c)
        /\ \A m \in Node, k \in Link : \A i \in Added(chan', c, m, k) :
             /\ chan'[m][k][i].type \in {"TunnelAck", "LinkPayload"} /\ chan'[m][k][i].id = id
             /\ chan'[m][k][i].type = "LinkPayload" => AfterDirect(chan'[m][k][i].pkt)
    BY <2>1, <2>2, <2>3, <2>5, <2>6, EmitExtends
  <2>8. \A m \in Node, k \in UserLink : k # id => tib'[m][k] = tib[m][k]
    BY <2>1 DEF TypeOK
  <2>9. \A s \in Sat, k \in UserLink : dt'[s][k] \in {dt[s][k], <<>>}
    BY <2>1 DEF TypeOK, Node
  <2>10. Served(id)'
    BY <1>4, <1>7, <2>2, AnswerServes DEF ServiceInv
  <2> QED BY <1>1, <1>4, <2>1, <2>7, <2>8, <2>9, <2>10
<1>8. CASE AckTaken(n, l)
  <2>1. PICK r : r = prt[n][id]
    OBVIOUS
  <2>2. /\ UNCHANGED <<linkVars, dt, sent, handed>> /\ Arrives(n, l, "TunnelAck")
        /\ tib' = [tib EXCEPT ![n][id] = <<l, r>>]
        /\ chan' = IF r = Null THEN c ELSE Emit(c, n, r, <<x>>)
    BY <1>4, <1>8, <2>1 DEF AckTaken, RelayEntry, ndnVars
  <2>3. id \in UserLink /\ x \in Message /\ x.type = "TunnelAck" /\ c \in Channels
    BY <1>6, <2>2
  <2>4. /\ Extends(chan', c)
        /\ \A m \in Node, k \in Link : \A i \in Added(chan', c, m, k) : chan'[m][k][i] = x
    <3>1. CASE r = Null
      BY <2>2, <2>3, <3>1 DEF Extends, Added, Channels
    <3>2. CASE r # Null
      BY <2>2, <2>3, <3>2, EmitOneExtends
    <3> QED BY <3>1, <3>2
  <2>5. \A m \in Node, k \in UserLink : k # id => tib'[m][k] = tib[m][k]
    BY <2>2 DEF TypeOK
  <2>6. \A s \in Sat, k \in UserLink : dt'[s][k] \in {dt[s][k], <<>>}
    BY <2>2
  <2>7. Served(id)'
    BY <1>4, <1>8, <2>3, AckServes DEF ServiceInv
  <2>8. \A m \in Node, k \in Link : \A i \in Added(chan', c, m, k) :
          chan'[m][k][i].type \in {"TunnelAck", "LinkPayload"} /\ chan'[m][k][i].id = id
    BY <1>4, <2>3, <2>4
  <2> QED BY <1>1, <1>4, <2>2, <2>3, <2>4, <2>5, <2>6, <2>7, <2>8
<1>9. CASE PayloadRelayed(n, l)
  <2>1. PICK dev : dev = PayloadDevice(tib[n][id], l)
    OBVIOUS
  <2>2. /\ UNCHANGED <<linkVars, tib, dt, sent, handed>> /\ Arrives(n, l, "LinkPayload")
        /\ chan' = Emit(c, n, dev, <<x>>)
    BY <1>4, <1>9, <2>1 DEF PayloadRelayed, PayloadArrives, shimVars, ndnVars
  <2>3. id \in UserLink /\ x \in Message /\ x.type = "LinkPayload" /\ c \in Channels
    BY <1>6, <2>2
  <2>4. /\ Extends(chan', c)
        /\ \A m \in Node, k \in Link : \A i \in Added(chan', c, m, k) : chan'[m][k][i] = x
    BY <2>2, <2>3, EmitOneExtends
  <2>5. /\ \A m \in Node, k \in UserLink : tib'[m][k] = tib[m][k]
        /\ \A s \in Sat, k \in UserLink : dt'[s][k] \in {dt[s][k], <<>>}
    BY <2>2
  <2>6. Served(id)'
    BY <1>4, <1>9, <2>3, RelayServes DEF ServiceInv
  <2>7. \A m \in Node, k \in Link : \A i \in Added(chan', c, m, k) :
          chan'[m][k][i].type \in {"TunnelAck", "LinkPayload"} /\ chan'[m][k][i].id = id
    BY <1>4, <2>3, <2>4
  <2>8. AfterDirect(x.pkt)
    <3>1. PICK q \in Node : q = Peer(n, l) /\ chan[q][l][1] = x /\ 1 \in DOMAIN chan[q][l]
      <4>1. /\ Peer(n, l) \in Node /\ chan[Peer(n, l)][l][1] = x
            /\ chan[Peer(n, l)][l] \in Seq(Message) /\ chan[Peer(n, l)][l] # <<>>
        BY <1>4, <2>2, ArrivalFits DEF TypeOK, Arrives
      <4> QED BY <4>1
    <3>2. x.pkt \in NdnPacket /\ l \in Link
      BY <2>3, MessageFields
    <3>3. OnDetour(x.pkt)
      BY <2>3, <3>1, <3>2 DEF OnDetour
    <3> QED BY <3>2, <3>3 DEF ServiceInv, DirectFirst
  <2> QED BY <1>1, <1>4, <2>2, <2>4, <2>5, <2>6, <2>7, <2>8
<1> QED BY <1>3, <1>5, <1>7, <1>8, <1>9 DEF ProcessPacket, ProcessAck

----------------------------------------------------------------------------
(* The steps that hand a packet up.                                        *)

Carries(m, p) ==
  /\ m.type \in {"Ndn", "LinkPayload"}
  /\ m.pkt.from = p.from /\ m.pkt.id = p.id

\* No packet of the same face, in flight or waiting, is from before p.
NoneBefore(p, q, l) ==
  /\ \A m \in Node, k \in Link : \A j \in DOMAIN chan[m][k] :
       Carries(chan[m][k][j], p) /\ ~(m = q /\ k = l /\ j = 1) => p.k < chan[m][k][j].pkt.k
  /\ \A s \in Sat, id \in UserLink : \A j \in DOMAIN dt[s][id] :
       dt[s][id][j].from = p.from /\ dt[s][id][j].id = p.id => p.k < dt[s][id][j].k

\* What is in flight after a packet is taken was in flight before.
LEMMA TakenOld ==
  ASSUME TypeOK, TypeOK', NEW c, chan' = c, NEW q \in Node, NEW l \in Link,
         Rest(OneTaken(q, l), c)
  PROVE  \A m \in Node, k \in Link : \A i \in DOMAIN chan'[m][k] :
           \E y \in Message : \E j \in DOMAIN chan[m][k] :
             y = chan'[m][k][i] /\ y = chan[m][k][j] /\ ~(m = q /\ k = l /\ j = 1)
<1> TAKE m \in Node, k \in Link
<1> TAKE i \in DOMAIN chan'[m][k]
<1>1. PICK off : off = OneTaken(q, l)
  OBVIOUS
<1>2. Rest(off, c) /\ off[q][l] = 1
  BY <1>1 DEF OneTaken
<1>3. Extends(chan', c) /\ i \notin Added(chan', c, m, k)
  BY <1>2, NothingEmitted DEF Rest
<1> QED BY <1>2, <1>3, OldNotTaken

\* A face takes p, the first unread packet of the other end, and hands it up.
TakesFirst(n, l, p) ==
  /\ Arrives(n, l, "Ndn") \/ Arrives(n, l, "LinkPayload")
  /\ p = Arriving(n, l).pkt /\ Unread(p) /\ n = OtherEnd(p.from, p.id)
  /\ NoneBefore(p, Peer(n, l), l)
  /\ chan' = Received(n, l) /\ handed' = [handed EXCEPT ![n][p.id] = Append(@, p)]
  /\ UNCHANGED <<linkVars, shimVars, sent>>

LEMMA HandUpServes ==
  ASSUME TypeOK, TypeOK', LossInv, ServiceInv, NEW n \in Node, NEW l \in Link,
         NEW p, TakesFirst(n, l, p)
  PROVE  ServiceInv' /\ Service!HandUp(n, p.id)
<1>1. PICK q, c, id : q = Peer(n, l) /\ c = Received(n, l) /\ id = p.id
  OBVIOUS
<1>2. /\ q \in Node /\ p \in NdnPacket /\ c \in Channels /\ chan' = c
      /\ Rest(OneTaken(q, l), c)
  BY <1>1, ArrivalType, RestOfReceived, MessageFields DEF TakesFirst
<1>3. /\ Unread(p) /\ n = OtherEnd(p.from, p.id) /\ NoneBefore(p, q, l)
      /\ handed' = [handed EXCEPT ![n][id] = Append(@, p)]
  BY <1>1 DEF TakesFirst
<1>4. Extends(chan', c) /\ \A m \in Node, k \in Link : Added(chan', c, m, k) = {}
  BY <1>2, NothingEmitted
<1>5. \A m \in Node, k \in Link : \A i \in DOMAIN chan'[m][k] :
        \E y \in Message : \E j \in DOMAIN chan[m][k] :
          y = chan'[m][k][i] /\ y = chan[m][k][j] /\ ~(m = q /\ k = l /\ j = 1)
  BY <1>2, TakenOld
<1>6. UNCHANGED <<userLink, sent, isGone, todo, tib, dt>> /\ LinksOnlyAdded
  BY DEF TakesFirst, linkVars, shimVars, LinksOnlyAdded
<1>7. /\ DirectServed /\ BufferServed /\ DirectFirst /\ HandedSent
      /\ \A k \in UserLink : Served(k)
  BY DEF ServiceInv
<1>8. /\ Service!HandUp(n, id) /\ HandedSent'
      /\ \A r \in NdnPacket :
           Unread(r) /\ (r.from = p.from /\ r.id = p.id => p.k < r.k) => Unread(r)'
  BY <1>1, <1>2, <1>3, <1>6, <1>7, HandedUp
\* What is in flight after the step.
<1>9. ASSUME NEW m \in Node, NEW k \in Link, NEW i \in DOMAIN chan'[m][k],
             chan'[m][k][i].type \in {"Ndn", "LinkPayload"},
             NEW r, r = chan'[m][k][i].pkt, Unread(r)
      PROVE  Unread(r)'
  <2>1. PICK y \in Message : \E j \in DOMAIN chan[m][k] :
          y = chan'[m][k][i] /\ y = chan[m][k][j] /\ ~(m = q /\ k = l /\ j = 1)
    BY <1>5
  <2>2. r \in NdnPacket
    BY <1>9, <2>1, MessageFields
  <2>3. r.from = p.from /\ r.id = p.id => p.k < r.k
    BY <1>3, <1>9, <2>1 DEF NoneBefore, Carries
  <2> QED BY <1>8, <1>9, <2>2, <2>3
<1>10. DirectFirst'
  <2>1. \A s \in Sat, k \in UserLink : \A i \in DOMAIN dt'[s][k] : AfterDirect(dt'[s][k][i])
    BY <1>6, <1>7, WaitingAfter
  <2> QED BY <1>2, <1>4, <1>7, <2>1, FirstKept
<1>11. DirectServed'
  <2> SUFFICES ASSUME NEW m \in Node, NEW k \in Link, NEW i \in DOMAIN chan'[m][k],
                      chan'[m][k][i].type = "Ndn", NEW r, r = chan'[m][k][i].pkt
               PROVE  IsDirect(m, k, r)'
    BY <1>2, <1>4, <1>7, DirectKept DEF DirectStays
  <2>1. PICK j \in DOMAIN chan[m][k] : chan'[m][k][i] = chan[m][k][j]
    BY <1>5
  <2>2. IsDirect(m, k, r)
    BY <1>7, <2>1 DEF DirectServed, DirectFits
  <2> QED BY <1>6, <1>9, <2>2 DEF IsDirect
<1>12. BufferServed'
  <2>1. ASSUME NEW s \in Sat, NEW k \in UserLink, NEW i \in DOMAIN dt[s][k],
               NEW r, r = dt[s][k][i]
        PROVE  Detoured(r)'
    <3>1. r \in NdnPacket /\ Detoured(r)
      <4>1. dt[s][k][i] \in NdnPacket /\ Detoured(dt[s][k][i])
        BY <1>7, WaitingIs
      <4> QED BY <2>1, <4>1
    <3>2. r.from = p.from /\ r.id = p.id => p.k < r.k
      BY <1>3, <2>1 DEF NoneBefore
    <3>3. Unread(r) /\ r.id \in isGone[r.from]
      BY <3>1 DEF Detoured
    <3>4. Unread(r)'
      BY <1>8, <3>1, <3>2, <3>3
    <3> QED BY <1>6, <3>3, <3>4 DEF Detoured
  <2>2. dt' = dt
    BY <1>6
  <2> QED BY <1>7, <2>1, <2>2, WaitingSame
<1>13. ASSUME NEW k \in UserLink PROVE Served(k)'
  <2>1. ASSUME NEW m \in Node, NEW j \in Link, NEW i \in DOMAIN chan'[m][j],
               IsPayload(chan'[m][j][i], k), NEW r, r = chan'[m][j][i].pkt
        PROVE  Detoured(r)'
    <3>1. PICK b \in DOMAIN chan[m][j] : chan'[m][j][i] = chan[m][j][b]
      BY <1>5
    <3>2. Detoured(r)
      <4>1. PayloadOnChain(k)
        BY <1>7 DEF Served
      <4>2. PayloadFits(m, j, k, r)
        BY <2>1, <3>1, <4>1 DEF PayloadOnChain
      <4> QED BY <4>2 DEF PayloadFits
    <3>3. Unread(r)'
      BY <1>9, <2>1, <3>2 DEF Detoured, IsPayload
    <3> QED BY <1>6, <3>2, <3>3 DEF Detoured
  <2>2. \A m \in Node, j \in Link : \A i \in DOMAIN chan'[m][j] :
          IsPayload(chan'[m][j][i], k) => Detoured(chan[m][j][i].pkt)'
    BY <2>1
  <2>3. NothingAdded(c, k) /\ \A m \in Node : tib'[m][k] = tib[m][k]
    BY <1>4, <1>6 DEF NothingAdded
  <2> QED BY <1>2, <1>4, <1>6, <1>7, <2>2, <2>3, ServedKept
<1> QED BY <1>1, <1>8, <1>10, <1>11, <1>12, <1>13 DEF ServiceInv

LEMMA ReceiveNdnServes ==
  ASSUME TypeOK, TypeOK', LossInv, ServiceInv, NEW n \in Node, NEW l \in Link, ReceiveNdn(n, l)
  PROVE  ServiceInv' /\ \E id \in UserLink : Service!HandUp(n, id)
<1>1. PICK q, x, p : q = Peer(n, l) /\ x = Arriving(n, l) /\ p = x.pkt
  OBVIOUS
<1>2. /\ Arrives(n, l, "Ndn") /\ chan' = Received(n, l)
      /\ handed' = [handed EXCEPT ![n][l] = Append(@, p)]
      /\ UNCHANGED <<linkVars, shimVars, sent>>
  BY <1>1 DEF ReceiveNdn
<1>3. /\ q \in Node /\ q # n /\ Peer(q, l) = n /\ HasDevice(userLink, n, l)
      /\ x \in Message /\ x.type = "Ndn" /\ chan[q][l][1] = x /\ p \in NdnPacket
  BY <1>1, <1>2, ArrivalFits, MessageFields
<1>4. chan[q][l] \in Seq(Message) /\ 1 \in DOMAIN chan[q][l]
  <2>1. chan[q][l] \in Seq(Message) /\ chan[q][l] # <<>>
    BY <1>1, <1>2, <1>3 DEF TypeOK, Arrives
  <2> QED BY <2>1
<1>5. p.id = l /\ p.from = q /\ Unread(p)
  BY <1>1, <1>3, <1>4 DEF ServiceInv, DirectServed, DirectFits, IsDirect
<1>6. /\ l \in DOMAIN userLink /\ l \in UserLink /\ q \in {Owner(l), Target(l)}
      /\ Owner(l) # Target(l)
  BY <1>5, OwnerType DEF Unread
<1>7. n = OtherEnd(q, l)
  <2>1. EndsOf(userLink, l) = userLink[l]
    BY <1>6, IslAssumption DEF EndsOf, UserLink
  <2>2. n \in {Owner(l), Target(l)}
    BY <1>3, <2>1 DEF HasDevice, Owner, Target
  <2> QED BY <1>3, <1>6, <2>2 DEF OtherEnd
<1>8. ASSUME NEW r \in NdnPacket, OnDetour(r), r.from = p.from, r.id = p.id
      PROVE  p.k < r.k
  <2>1. Direct(p)
    BY <1>1, <1>3, <1>4 DEF Direct
  <2> QED BY <1>3, <1>8, <2>1 DEF ServiceInv, DirectFirst, AfterDirect
<1>9. NoneBefore(p, q, l)
  <2>1. ASSUME NEW m \in Node, NEW k \in Link, NEW j \in DOMAIN chan[m][k],
               Carries(chan[m][k][j], p), ~(m = q /\ k = l /\ j = 1)
        PROVE  p.k < chan[m][k][j].pkt.k
    <3>1. chan[m][k] \in Seq(Message) /\ chan[m][k][j] \in Message
      BY DEF TypeOK
    <3>2. PICK y, r : y = chan[m][k][j] /\ r = y.pkt
      OBVIOUS
    <3>3. CASE y.type = "Ndn"
      <4>1. DirectFits(m, k, j)
        BY <3>2, <3>3 DEF ServiceInv, DirectServed
      <4>2. m = q /\ k = l
        BY <1>5, <2>1, <3>2, <4>1 DEF DirectFits, IsDirect, Carries
      <4>3. 1 < j
        BY <2>1, <3>1, <4>2
      <4> QED BY <1>1, <1>3, <1>4, <4>1, <4>2, <4>3 DEF DirectFits
    <3>4. CASE y.type = "LinkPayload"
      <4>1. r \in NdnPacket
        BY <3>1, <3>2, <3>4, MessageFields
      <4>2. OnDetour(r)
        BY <3>2, <3>4 DEF OnDetour
      <4> QED BY <1>8, <2>1, <3>2, <4>1, <4>2 DEF Carries
    <3> QED BY <2>1, <3>2, <3>3, <3>4 DEF Carries
  <2>2. ASSUME NEW s \in Sat, NEW id \in UserLink, NEW j \in DOMAIN dt[s][id],
               NEW r, r = dt[s][id][j], r.from = p.from, r.id = p.id
        PROVE  p.k < r.k
    <3>1. r \in NdnPacket
      BY <2>2, WaitingIs DEF ServiceInv
    <3>2. OnDetour(r)
      BY <2>2 DEF OnDetour
    <3> QED BY <1>8, <2>2, <3>1, <3>2
  <2> QED BY <2>1, <2>2 DEF NoneBefore
<1>10. ServiceInv' /\ Service!HandUp(n, l)
  <2>1. TakesFirst(n, l, p) /\ p.id = l
    BY <1>1, <1>2, <1>5, <1>7, <1>9 DEF TakesFirst
  <2> QED BY <2>1, HandUpServes
<1> QED BY <1>6, <1>10

LEMMA PayloadUpServes ==
  ASSUME TypeOK, TypeOK', LossInv, TunnelInv, BufferInv, ServiceInv,
         NEW n \in Node, NEW l \in Link, PayloadHandedUp(n, l)
  PROVE  ServiceInv' /\ \E id \in UserLink : Service!HandUp(n, id)
<1>1. PICK q, x, p, id : q = Peer(n, l) /\ x = Arriving(n, l) /\ p = x.pkt /\ id = x.id
  OBVIOUS
<1>2. /\ Arrives(n, l, "LinkPayload") /\ chan' = Received(n, l)
      /\ handed' = [handed EXCEPT ![n][id] = Append(@, p)]
      /\ UNCHANGED <<linkVars, shimVars, sent>>
      /\ HasEntry(n, id) /\ IsTunnelEnd(tib[n][id], l) /\ ~InFlightDirectly(id)
  BY <1>1 DEF PayloadHandedUp, PayloadArrives, HasEntry
<1>3. /\ q \in Node /\ q # n /\ Peer(q, l) = n
      /\ x \in Message /\ x.type = "LinkPayload" /\ chan[q][l][1] = x /\ p \in NdnPacket
      /\ id \in UserLink /\ IsPayload(x, id)
  BY <1>1, <1>2, ArrivalFits, MessageFields DEF IsPayload
<1>4. chan[q][l] \in Seq(Message) /\ 1 \in DOMAIN chan[q][l]
  <2>1. chan[q][l] \in Seq(Message) /\ chan[q][l] # <<>>
    BY <1>1, <1>2, <1>3 DEF TypeOK, Arrives
  <2> QED BY <2>1
<1>5. /\ id \in DOMAIN userLink /\ n = OtherEnd(p.from, id) /\ p.id = id
      /\ Detoured(p) /\ Precedes(p, q, l, id)
  <2>1. Served(id)
    BY <1>3 DEF ServiceInv
  <2> QED BY <1>1, <1>2, <1>3, <1>4, <2>1, TunnelEndIsFirst
<1>6. NoneBefore(p, q, l)
  <2>1. ASSUME NEW m \in Node, NEW k \in Link, NEW j \in DOMAIN chan[m][k],
               Carries(chan[m][k][j], p), ~(m = q /\ k = l /\ j = 1)
        PROVE  p.k < chan[m][k][j].pkt.k
    <3>1. chan[m][k] \in Seq(Message) /\ chan[m][k][j] \in Message
      BY DEF TypeOK
    <3>2. PICK y, r : y = chan[m][k][j] /\ r = y.pkt
      OBVIOUS
    <3>3. CASE y.type = "Ndn"
      <4>1. IsDirect(m, k, r)
        BY <3>2, <3>3 DEF ServiceInv, DirectServed, DirectFits
      <4>2. k = id
        BY <1>5, <2>1, <3>2, <4>1 DEF Carries, IsDirect
      <4> QED BY <1>2, <3>2, <3>3, <4>2 DEF InFlightDirectly
    <3>4. CASE y.type = "LinkPayload"
      <4>1. y.id \in UserLink /\ IsPayload(y, y.id)
        BY <3>1, <3>2, <3>4, MessageFields DEF IsPayload
      <4>2. r.id = y.id
        BY <3>2, <4>1 DEF ServiceInv, Served, PayloadOnChain, PayloadFits
      <4>3. SameFlow([type |-> "LinkPayload", id |-> id, pkt |-> p], y, id)
        BY <1>5, <2>1, <3>2, <3>4, <4>2 DEF SameFlow, IsPayload, Carries
      <4> QED BY <1>5, <2>1, <3>2, <4>3 DEF Precedes
    <3> QED BY <2>1, <3>2, <3>3, <3>4 DEF Carries
  \* m_dt of the satellite is empty: there is an entry, so it has answered.
  <2>2. ASSUME NEW s \in Sat, NEW k \in UserLink, NEW j \in DOMAIN dt[s][k],
               NEW r, r = dt[s][k][j], r.from = p.from, r.id = p.id
        PROVE  FALSE
    <3>1. r.id = k /\ k = id
      BY <1>5, <2>2 DEF ServiceInv, BufferServed
    <3>2. s = Target(id) /\ tib[s][id] = Absent
      <4>1. dt[s][k] # <<>>
        BY <2>2
      <4> QED BY <3>1, <4>1 DEF BufferInv, BufferWaits, Target
    <3>3. Unanswered(id)
      BY <1>5, <3>2 DEF BufferInv, TargetOrTunnel, Unanswered, Target
    <3> QED BY <1>2, <1>3, <1>5, <3>3 DEF TunnelInv, LinkPlaced, HasEntry
  <2> QED BY <2>1, <2>2 DEF NoneBefore
<1>7. ServiceInv' /\ Service!HandUp(n, id)
  <2>1. TakesFirst(n, l, p) /\ p.id = id
    BY <1>1, <1>2, <1>5, <1>6 DEF TakesFirst, Detoured
  <2> QED BY <2>1, HandUpServes
<1> QED BY <1>3, <1>7

----------------------------------------------------------------------------
(* The shim layer implements the service.                                  *)

LEMMA ServiceInit == Init => ServiceInv
<1> SUFFICES ASSUME Init PROVE ServiceInv
  OBVIOUS
<1>1. DirectServed /\ BufferServed /\ DirectFirst /\ HandedSent
  BY DEF Init, DirectServed, BufferServed, DirectFirst, OnDetour, HandedSent, Node
<1>2. ASSUME NEW id \in UserLink PROVE Served(id)
  <2>1. AckOnChain(id) /\ PayloadOnChain(id)
    BY DEF Init, AckOnChain, PayloadOnChain
  <2>2. PICK rank \in [Node -> Nat] : rank = [n \in Node |-> 0]
    OBVIOUS
  <2>3. Chain(id, rank) /\ InOrder(id, rank)
    BY DEF Init, Chain, HasEntry, InOrder
  <2> QED BY <2>1, <2>2, <2>3 DEF Served
<1> QED BY <1>1, <1>2 DEF ServiceInv

LEMMA ServiceStep ==
  TypeOK /\ LossInv /\ TunnelInv /\ BufferInv /\ ServiceInv /\ [Next]_vars => ServiceInv'
<1> SUFFICES ASSUME TypeOK, LossInv, TunnelInv, BufferInv, ServiceInv, [Next]_vars
             PROVE  ServiceInv'
  OBVIOUS
<1>1. TypeOK'
  BY TypeStep
<1>2. chan \in Channels
  BY DEF TypeOK, Channels
<1>3. ASSUME UNCHANGED <<linkVars, chan, tib, dt, sent, handed>> PROVE ServiceInv'
  <2>1. /\ Rest(NoneTaken, chan) /\ Extends(chan', chan)
        /\ \A n \in Node, l \in Link : Added(chan', chan, n, l) = {}
    BY <1>2, <1>3, RestOfAll DEF Extends, Added, Channels
  <2>2. Grows /\ \A n \in Node : tib'[n] = tib[n]
    BY <1>3 DEF Grows, LinksOnlyAdded, linkVars, TypeOK
  <2>3. DirectFirst'
    <3>1. \A s \in Sat, id \in UserLink : \A i \in DOMAIN dt'[s][id] : AfterDirect(dt'[s][id][i])
      BY <1>3, WaitingAfter DEF ServiceInv
    <3> QED BY <1>1, <2>1, <3>1, FirstKept DEF ServiceInv
  <2>4. BufferServed'
    <3>1. \A p \in NdnPacket : Detoured(p) => Detoured(p)'
      BY <1>1, <1>3, <2>2, NothingRead DEF ServiceInv
    <3> QED BY <1>1, <1>3, <3>1, WaitingKept DEF ServiceInv
  <2>5. \A id \in UserLink : NothingAdded(chan, id)
    BY <2>1 DEF NothingAdded
  <2> QED BY <1>1, <1>3, <2>1, <2>2, <2>3, <2>4, <2>5, StepServes
<1>4. CASE UpdateStart
  <2>1. UNCHANGED <<userLink, isGone, chan, tib, dt, sent, handed>>
    BY <1>4 DEF UpdateStart, shimVars, ndnVars
  <2>2. Extends(chan', chan) /\ \A n \in Node, l \in Link : Added(chan', chan, n, l) = {}
    BY <1>2, <2>1 DEF Extends, Added, Channels
  <2> QED BY <1>1, <2>1, <2>2, UpdateServes DEF LinksOnlyAdded
<1>5. ASSUME NEW n \in Node, NEW l \in Link, Receive(n, l) PROVE ServiceInv'
  BY <1>1, <1>5, ReceiveServes, ReceiveNdnServes, PayloadUpServes DEF Receive
<1>6. ASSUME NEW n \in Node, NEW id \in UserLink, DoSend(n, id) PROVE ServiceInv'
  BY <1>1, <1>6, SendDirectServes, SendTunnelledServes, SendBufferedServes DEF DoSend
<1> QED BY <1>1, <1>3, <1>4, <1>5, <1>6, UpdateStationServes DEF Next, vars, shimVars, ndnVars

LEMMA StepRefines ==
  TypeOK /\ LossInv /\ TunnelInv /\ BufferInv /\ ServiceInv /\ [Next]_vars
    => [Service!Next]_(Service!vars)
<1> SUFFICES ASSUME TypeOK, LossInv, TunnelInv, BufferInv, ServiceInv, Next
             PROVE  Service!Next \/ UNCHANGED <<userLink, sent, handed>>
  BY DEF vars, linkVars, ndnVars, Service!vars
<1>1. TypeOK'
  BY TypeStep
<1>2. CASE UpdateStart
  BY <1>2 DEF UpdateStart, ndnVars
<1>3. ASSUME NEW st \in Station, UpdateStation(st)
      PROVE  Service!Next \/ UNCHANGED <<userLink, sent, handed>>
  <2>1. CASE Stay(st) \/ Leave(st)
    BY <2>1 DEF Stay, Leave, ndnVars
  <2>2. ASSUME NEW s \in Sat, Enter(st, s) \/ Move(st, s) PROVE Service!Next
    <3>1. /\ NewId <= MaxLink /\ userLink' = Append(userLink, <<st, s>>)
          /\ UNCHANGED <<sent, handed>>
      BY <2>2 DEF Enter, Move, ndnVars
    <3>2. Len(userLink) \in Nat
      BY DEF TypeOK
    <3>3. Service!NewLink(st, s)
      BY <3>1, <3>2, BoundAssumption DEF Service!NewLink, NewId
    <3> QED BY <3>3 DEF Service!Next
  <2> QED BY <1>3, <2>1, <2>2 DEF UpdateStation
<1>4. ASSUME NEW n \in Node, NEW id \in UserLink, DoSend(n, id) PROVE Service!Next
  <2>1. /\ CanSend(n, id) /\ sent' = [sent EXCEPT ![n][id] = @ + 1]
        /\ UNCHANGED <<userLink, handed>>
    BY <1>4 DEF DoSend, SendDirect, SendTunnelled, SendBuffered, linkVars
  <2>2. Service!Send(n, id)
    BY <2>1 DEF CanSend, Service!Send, Service!EndsOf
  <2> QED BY <2>2 DEF Service!Next, Service!Node, Service!UserLink, Node, UserLink
<1>5. ASSUME NEW n \in Node, NEW l \in Link, Receive(n, l)
      PROVE  Service!Next \/ UNCHANGED <<userLink, sent, handed>>
  <2>1. CASE ReceiveNdn(n, l) \/ PayloadHandedUp(n, l)
    <3>1. PICK id \in UserLink : Service!HandUp(n, id)
      BY <1>1, <2>1, ReceiveNdnServes, PayloadUpServes
    <3> QED BY <3>1 DEF Service!Next, Service!Node, Service!UserLink, Node, UserLink
  <2>2. CASE ~(ReceiveNdn(n, l) \/ PayloadHandedUp(n, l))
    BY <1>5, <2>2 DEF Receive, ProcessPacket, ProcessAck, ReqAtTarget, ReqLoop, ReqRelay, AckUnsolicited,
         AckTaken, PayloadDiscarded, PayloadRelayed, linkVars, ndnVars
  <2> QED BY <2>1, <2>2
<1> QED BY <1>2, <1>3, <1>4, <1>5 DEF Next

\* Whatever handovers happen, NDN's packets are handed up at most once, only
\* by the face at the other end of their own user link and in the order they
\* were sent: what UserLinkTransport and HandoverManager pass on, directly or
\* through a tunnel, is a behaviour of UserLinkService.
THEOREM ServiceImplemented == HopLimit <= 3 => (Spec => ServiceSpec)
<1> SUFFICES ASSUME HopLimit <= 3 PROVE Spec => ServiceSpec
  OBVIOUS
<1> DEFINE IInv == TypeOK /\ LossInv /\ TunnelInv /\ BufferInv /\ ServiceInv
<1>1. Init => IInv
  BY InitType, LossInit, TunnelInit, BufferInit, ServiceInit
<1>2. IInv /\ [Next]_vars => IInv'
  BY TypeStep, LossStep, TunnelStep, BufferStep, ServiceStep
<1>3. Init => Service!Init
  BY DEF Init, Service!Init, Service!Node, Service!UserLink, Node, UserLink
<1>4. IInv /\ [Next]_vars => [Service!Next]_(Service!vars)
  BY StepRefines
<1> QED BY <1>1, <1>2, <1>3, <1>4, PTL DEF Spec, ServiceSpec, Service!Spec

----------------------------------------------------------------------------
(* Packets in a tunnel always find their way on.                           *)

\* Payload that meets an entry finds the face or the device to go on by.
LEMMA EntryLeadsOn ==
  ASSUME TypeOK, LossInv, ServiceInv, FaceRecorded,
         NEW n \in Node, NEW l \in Link, Arrives(n, l, "LinkPayload"),
         NEW id, id = Arriving(n, l).id, HasEntry(n, id)
  PROVE  IF IsTunnelEnd(tib[n][id], l) THEN id \in faceIdTable[n]
         ELSE HasDevice(userLink, n, PayloadDevice(tib[n][id], l))
<1>1. PICK q, x, p : q = Peer(n, l) /\ x = Arriving(n, l) /\ p = x.pkt
  OBVIOUS
<1>2. /\ q \in Node /\ q # n /\ Peer(q, l) = n /\ chan[q][l][1] = x
      /\ id \in UserLink /\ IsPayload(x, id)
  BY <1>1, ArrivalFits, MessageFields DEF IsPayload
<1>3. 1 \in DOMAIN chan[q][l]
  <2>1. chan[q][l] \in Seq(Message) /\ chan[q][l] # <<>>
    BY <1>1, <1>2 DEF TypeOK, Arrives
  <2> QED BY <2>1
<1>4. PICK rank \in [Node -> Nat] : Chain(id, rank)
  BY <1>2 DEF ServiceInv, Served
<1>5. PayloadFits(q, l, id, p) /\ l # Null
  BY <1>1, <1>2, <1>3, MarkerAssumption DEF ServiceInv, Served, PayloadOnChain
<1>6. /\ IsDown(p) => tib[n][id][1] = l
      /\ ~IsDown(p) => tib[n][id][2] = l /\ rank[q] = rank[n] + 1
  BY <1>2, <1>4, <1>5, NextOnChain
<1>7. CASE IsTunnelEnd(tib[n][id], l)
  <2>1. tib[n][id][1] = Null \/ tib[n][id][2] = Null
    BY <1>7 DEF IsTunnelEnd
  <2> QED BY <1>2, <1>7, <2>1 DEF FaceRecorded, TunnelEndHasFace, HasEntry
<1>8. CASE ~IsTunnelEnd(tib[n][id], l)
  <2>1. tib[n][id] = <<tib[n][id][1], tib[n][id][2]>>
    BY <1>2 DEF TypeOK, HasEntry
  <2>2. PICK d \in {1, 2} : PayloadDevice(tib[n][id], l) = tib[n][id][d] /\ tib[n][id][d] # Null
    <3>1. CASE IsDown(p)
      BY <1>6, <1>8, <2>1, <3>1 DEF PayloadDevice, IsTunnelEnd
    <3>2. CASE ~IsDown(p)
      <4>1. tib[n][id][1] # l
        <5>1. KnowsBack(n, id, rank) /\ rank[n] \in Nat /\ rank[q] \in Nat
          BY <1>2, <1>4 DEF Chain
        <5> QED BY <1>1, <1>5, <1>6, <3>2, <5>1 DEF KnowsBack, Back
      <4> QED BY <1>6, <1>8, <2>1, <3>2, <4>1 DEF PayloadDevice, IsTunnelEnd
    <3> QED BY <3>1, <3>2
  <2>3. HasDevice(userLink, n, tib[n][id][d])
    BY <1>2, <2>2, EntryDevices
  <2> QED BY <1>8, <2>2, <2>3
<1> QED BY <1>7, <1>8

\* A gone face with an entry finds a device to send by.
LEMMA GoneFaceLeadsOn ==
  ASSUME TypeOK, LossInv, ServiceInv, NEW n \in Node, NEW id \in UserLink, HasEntry(n, id)
  PROVE  HasDevice(userLink, n, TunnelDevice(tib[n][id]))
<1>1. PICK rank \in [Node -> Nat] : Chain(id, rank)
  BY DEF ServiceInv, Served
<1>2. id \in DOMAIN userLink /\ KnowsBack(n, id, rank) /\ KnowsOnward(n, id, rank)
  BY <1>1 DEF Chain
<1>3. Owner(id) # Target(id)
  BY <1>2, OwnerType
<1>4. ~(tib[n][id][1] = Null /\ tib[n][id][2] = Null)
  BY <1>2, <1>3 DEF KnowsBack, KnowsOnward
<1>5. PICK d \in {1, 2} : TunnelDevice(tib[n][id]) = tib[n][id][d] /\ tib[n][id][d] # Null
  BY <1>4 DEF TunnelDevice
<1> QED BY <1>5, EntryDevices

\* TunnelPacket and ProcessPacket never use a null device, nor a device the
\* node does not have, for a packet that meets a TIB entry, and a packet that
\* reaches its end finds the face to be handed up by.
THEOREM PayloadsHaveDevices == HopLimit <= 3 => (Spec => []PayloadHasDevice)
<1> SUFFICES ASSUME HopLimit <= 3 PROVE Spec => []PayloadHasDevice
  OBVIOUS
<1> DEFINE IInv == TypeOK /\ LossInv /\ TunnelInv /\ BufferInv /\ ServiceInv /\ FaceRecorded
<1>1. Init => IInv
  BY InitType, LossInit, TunnelInit, BufferInit, ServiceInit, FaceRecordedInit
<1>2. IInv /\ [Next]_vars => IInv'
  BY TypeStep, LossStep, TunnelStep, BufferStep, ServiceStep, FaceRecordedStep
<1>3. IInv => PayloadHasDevice
  <2> SUFFICES ASSUME IInv PROVE PayloadHasDevice
    OBVIOUS
  <2>1. ASSUME NEW n \in Node, NEW l \in Link, Arrives(n, l, "LinkPayload"),
               tib[n][Arriving(n, l).id] # Absent
        PROVE  IF IsTunnelEnd(tib[n][Arriving(n, l).id], l) THEN Arriving(n, l).id \in faceIdTable[n]
               ELSE HasDevice(userLink, n, PayloadDevice(tib[n][Arriving(n, l).id], l))
    BY <2>1, EntryLeadsOn DEF HasEntry
  <2>2. ASSUME NEW n \in Node, NEW id \in isGone[n], tib[n][id] # Absent
        PROVE  HasDevice(userLink, n, TunnelDevice(tib[n][id]))
    <3>1. id \in UserLink
      BY DEF TypeOK
    <3> QED BY <2>2, <3>1, GoneFaceLeadsOn DEF HasEntry
  <2> QED BY <2>1, <2>2 DEF PayloadHasDevice
<1> QED BY <1>1, <1>2, <1>3, PTL DEF Spec
=============================================================================
