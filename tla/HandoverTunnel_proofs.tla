------------------------ MODULE HandoverTunnel_proofs ------------------------
(***************************************************************************)
(* Proof that a TIB entry is never overwritten or dropped, for every       *)
(* constellation, set of stations and number of handovers, and any hop     *)
(* limit up to 3; the code's is 2.                                         *)
(*                                                                         *)
(* With at most three hops a request is flooded by the new access          *)
(* satellite and by its neighbours only, and never comes back to the       *)
(* station.  So it is answered once, while nobody has an entry yet, and    *)
(* the one ack visits a neighbour, the access satellite and the station.   *)
(***************************************************************************)
EXTENDS HandoverManager_proofs

\* The station that left link id, the satellite it left, the station's user
\* link now, and its satellite.
Owner(id) == userLink[id][1]
Target(id) == userLink[id][2]
Up(id) == p2pDevice[Owner(id)]
AccessSat(id) == userLink[Up(id)][2]

Unanswered(id) == id \in idList[Target(id)]

----------------------------------------------------------------------------
(* The inductive invariant.                                                *)

IsControl(m, id) == m.type \in {"TunnelReq", "TunnelAck"} /\ m.id = id

\* The i-th packet from n on l is the only request or ack, or the only ack.
OnlyControl(n, l, i, id) ==
  \A x \in Node, k \in Link : \A j \in DOMAIN chan[x][k] :
    IsControl(chan[x][k][j], id) => x = n /\ k = l /\ j = i
OnlyAck(n, l, i, id) ==
  \A x \in Node, k \in Link : \A j \in DOMAIN chan[x][k] :
    chan[x][k][j] = TunnelAck(id) => x = n /\ k = l /\ j = i

NoControl(id) ==
  \A n \in Node, l \in Link : \A i \in DOMAIN chan[n][l] : ~IsControl(chan[n][l][i], id)

\* Nothing has been asked about id.
Fresh(id) == NoControl(id) /\ \A n \in Node : prt[n][id] = Absent /\ tib[n][id] = Absent

\* The access satellite will pass the ack to the station, which will take it.
OwnerWaits(id) == prt[Owner(id)][id] = Null
AccessWaits(id) == prt[AccessSat(id)][id] = Up(id) /\ OwnerWaits(id)

\* n will pass the ack to the access satellite.
RelaysToAccess(n, id) ==
  /\ n # AccessSat(id) /\ n # Owner(id)
  /\ HasDevice(userLink, n, prt[n][id]) /\ Peer(n, prt[n][id]) = AccessSat(id)

\* The request of the station itself is on its way: only the station knows.
FirstReq(n, l, i, id) ==
  /\ n = Owner(id) /\ l = Up(id) /\ OnlyControl(n, l, i, id) /\ OwnerWaits(id)
  /\ \A m \in Node : tib[m][id] = Absent /\ (m # n => prt[m][id] = Absent)

\* Requests come from the station, the access satellite or a node it reaches.
\* While no answer is given the ack would find its way from there.
ReqPlaced(n, l, i, id, h) ==
  \/ h = HopLimit /\ FirstReq(n, l, i, id)
  \/ /\ h = HopLimit - 1 /\ n = AccessSat(id) /\ Peer(n, l) \in Sat
     /\ Unanswered(id) => AccessWaits(id)
  \/ /\ h = HopLimit - 2 /\ n \in Sat /\ Peer(n, l) # Owner(id)
     /\ Unanswered(id) => AccessWaits(id) /\ RelaysToAccess(n, id)

\* The ack finds its way from n to the station, and no entry of id on it.
AckFindsWay(n, id) ==
  /\ ~Unanswered(id)
  /\ tib[n][id] = Absent /\ tib[Owner(id)][id] = Absent /\ OwnerWaits(id)
  /\ n # Owner(id) => AccessWaits(id) /\ tib[AccessSat(id)][id] = Absent
  /\ n \notin {Owner(id), AccessSat(id)} => RelaysToAccess(n, id)

AckPlaced(n, l, i, id) == OnlyAck(n, l, i, id) /\ AckFindsWay(Peer(n, l), id)

\* The station of a request or ack has its new link, and keeps it meanwhile.
ControlPlaced(n, l, i, id, m) ==
  /\ id \in DOMAIN userLink /\ Up(id) # Null /\ Owner(id) \notin todo
  /\ m.type = "TunnelReq" => ReqPlaced(n, l, i, id, m.hopLimit)
  /\ m.type = "TunnelAck" => AckPlaced(n, l, i, id)

LinkPlaced(id) ==
  /\ \A n \in Node : id \in idList[n] => id \in DOMAIN userLink /\ n \in {Owner(id), Target(id)}
  /\ id \notin DOMAIN userLink \/ Up(id) = id => Fresh(id)
  /\ id \in DOMAIN userLink /\ Unanswered(id) =>
       prt[Target(id)][id] = Absent /\ \A n \in Node : tib[n][id] = Absent
  /\ \A n \in Node, l \in Link : \A i \in DOMAIN chan[n][l] :
       IsControl(chan[n][l][i], id) => ControlPlaced(n, l, i, id, chan[n][l][i])

\* A user link that is not gone is the one its two ends have now.
UserLinksJoin ==
  /\ \A n \in Node, l \in DOMAIN userLink :
       n \in {userLink[l][1], userLink[l][2]} => l \in isGone[n] \/ p2pDevice[n] = l
  /\ \A n \in Node : p2pDevice[n] # Null =>
       /\ p2pDevice[n] \in DOMAIN userLink
       /\ n \in {userLink[p2pDevice[n]][1], userLink[p2pDevice[n]][2]}
       /\ p2pDevice[userLink[p2pDevice[n]][1]] = p2pDevice[n]
       /\ p2pDevice[userLink[p2pDevice[n]][2]] = p2pDevice[n]

TunnelInv == UserLinksJoin /\ \A id \in UserLink : LinkPlaced(id)

----------------------------------------------------------------------------
(* Links of a station.                                                     *)

LEMMA OwnerType ==
  ASSUME TypeOK, NEW id \in DOMAIN userLink
  PROVE  /\ id \in UserLink /\ Owner(id) \in Station /\ Target(id) \in Sat
         /\ Owner(id) \in Node /\ Target(id) \in Node /\ Owner(id) # Target(id)
<1>1. userLink[id] \in Station \X Sat /\ id \in 1..MaxLink
  BY BoundAssumption DEF TypeOK
<1> QED BY <1>1, NodeAssumption DEF Owner, Target, Node, UserLink

\* The station's new link joins it to its access satellite.
LEMMA UpJoins ==
  ASSUME TypeOK, UserLinksJoin, NEW id \in DOMAIN userLink, Up(id) # Null
  PROVE  /\ Up(id) \in UserLink /\ Up(id) \in Link /\ AccessSat(id) \in Sat /\ AccessSat(id) \in Node
         /\ AccessSat(id) # Owner(id)
         /\ HasDevice(userLink, Owner(id), Up(id)) /\ HasDevice(userLink, AccessSat(id), Up(id))
         /\ Peer(Owner(id), Up(id)) = AccessSat(id) /\ Peer(AccessSat(id), Up(id)) = Owner(id)
         /\ p2pDevice[AccessSat(id)] = Up(id)
<1>1. Owner(id) \in Station /\ Owner(id) \in Node
  BY OwnerType
<1>2. /\ Up(id) \in DOMAIN userLink /\ Owner(id) \in {userLink[Up(id)][1], userLink[Up(id)][2]}
      /\ p2pDevice[userLink[Up(id)][2]] = Up(id)
  BY <1>1 DEF UserLinksJoin, Up
<1>3. userLink[Up(id)] \in Station \X Sat /\ Up(id) \in 1..MaxLink
  BY <1>2, BoundAssumption DEF TypeOK
<1>4. Owner(id) = userLink[Up(id)][1] /\ AccessSat(id) \in Sat
  BY <1>1, <1>2, <1>3, NodeAssumption DEF AccessSat
<1>5. EndsOf(userLink, Up(id)) = userLink[Up(id)]
  BY <1>3, IslAssumption DEF EndsOf
<1>6. Owner(id) # AccessSat(id)
  BY <1>1, <1>4, NodeAssumption
<1> QED BY <1>2, <1>3, <1>4, <1>5, <1>6 DEF HasDevice, Peer, AccessSat, Link, UserLink, Node

\* The peer on a device that is not gone is the station of id only if the
\* device is the station's new link.
\* The access satellite has no other station on a device that is not gone.
LEMMA SatsBesideUp ==
  ASSUME TypeOK, UserLinksJoin, NEW id \in DOMAIN userLink, Up(id) # Null,
         NEW l \in Link, HasDevice(userLink, AccessSat(id), l), l \notin isGone[AccessSat(id)], l # Up(id)
  PROVE  Peer(AccessSat(id), l) \in Sat
<1>1. AccessSat(id) \in Node /\ p2pDevice[AccessSat(id)] = Up(id)
  BY UpJoins
<1>2. l \in Isl
  <2> SUFFICES ASSUME l \notin Isl PROVE FALSE
    OBVIOUS
  <2>1. l \in DOMAIN userLink /\ AccessSat(id) \in {userLink[l][1], userLink[l][2]}
    BY DEF HasDevice, EndsOf
  <2> QED BY <1>1, <2>1 DEF UserLinksJoin
<1> QED BY <1>2, IslAssumption DEF Peer, EndsOf

LEMMA OwnerOnlyBehindUp ==
  ASSUME TypeOK, UserLinksJoin, NEW id \in DOMAIN userLink, Up(id) # Null,
         NEW n \in Node, NEW l \in Link, HasDevice(userLink, n, l), l \notin isGone[n],
         Peer(n, l) = Owner(id)
  PROVE  l = Up(id) /\ n = AccessSat(id)
<1>1. Owner(id) \in Station /\ Owner(id) \in Node /\ n # Owner(id)
  BY OwnerType, PeerOfPeer
<1>2. CASE l \in Isl
  <2>1. Peer(n, l) \in Sat
    BY <1>2, IslAssumption DEF Peer, EndsOf
  <2> QED BY <1>1, <2>1, NodeAssumption
<1>3. CASE l \notin Isl
  <2>1. l \in DOMAIN userLink /\ EndsOf(userLink, l) = userLink[l]
        /\ n \in {userLink[l][1], userLink[l][2]} /\ Owner(id) \in {userLink[l][1], userLink[l][2]}
    BY <1>3 DEF HasDevice, EndsOf, Peer
  <2>2. p2pDevice[n] = l
    BY <2>1 DEF UserLinksJoin
  <2>3. l # Null
    BY MarkerAssumption
  <2>4. p2pDevice[Owner(id)] = l
    BY <2>1, <2>2, <2>3 DEF UserLinksJoin
  <2>5. l = Up(id)
    BY <2>4 DEF Up
  <2>6. Peer(Owner(id), l) = n
    BY PeerOfPeer
  <2> QED BY <2>5, <2>6, UpJoins
<1> QED BY <1>2, <1>3

----------------------------------------------------------------------------
(* Steps that leave the links alone.                                       *)

\* Nothing is asked or answered about id.
LEMMA ControlKept ==
  ASSUME TypeOK, TypeOK', LossInv, UserLinksJoin, NEW id \in UserLink, LinkPlaced(id),
         UNCHANGED linkVars,
         NEW off, NEW c, Rest(off, c), Extends(chan', c),
         \A n \in Node, l \in Link : \A i \in Added(chan', c, n, l) : ~IsControl(chan'[n][l][i], id),
         \A n \in Node : /\ prt'[n][id] = prt[n][id] /\ tib'[n][id] = tib[n][id]
                         /\ id \in idList'[n] <=> id \in idList[n]
  PROVE  LinkPlaced(id)'
<1>1. ASSUME NEW n \in Node, NEW l \in Link, NEW i \in DOMAIN chan'[n][l],
             IsControl(chan'[n][l][i], id)
      PROVE  /\ i + off[n][l] \in DOMAIN chan[n][l] /\ i \in Nat /\ off[n][l] \in {0, 1}
             /\ chan'[n][l][i] = chan[n][l][i + off[n][l]]
  <2>1. chan'[n][l] \in Seq(Message) /\ off[n][l] \in {0, 1}
    BY DEF TypeOK, Rest
  <2> QED BY <1>1, <2>1, OldOrAdded
<1>2. /\ userLink' = userLink /\ p2pDevice' = p2pDevice /\ todo' = todo
      /\ Owner(id)' = Owner(id) /\ Target(id)' = Target(id) /\ Up(id)' = Up(id)
      /\ AccessSat(id)' = AccessSat(id)
      /\ \A n, l : Peer(n, l)' = Peer(n, l)
  BY DEF linkVars, Owner, Target, Up, AccessSat, Peer
<1>3. \A n \in Node : id \in idList'[n] => id \in DOMAIN userLink' /\ n \in {Owner(id)', Target(id)'}
  BY <1>2 DEF LinkPlaced
<1>4. id \notin DOMAIN userLink' \/ Up(id)' = id => Fresh(id)'
  BY <1>1, <1>2 DEF LinkPlaced, Fresh, NoControl
<1>5. id \in DOMAIN userLink => Target(id) \in Node /\ Owner(id) \in Node
  BY OwnerType
<1>6. id \in DOMAIN userLink' /\ Unanswered(id)' =>
        prt'[Target(id)'][id] = Absent /\ \A n \in Node : tib'[n][id] = Absent
  BY <1>2, <1>5 DEF LinkPlaced, Unanswered
<1>7. ASSUME NEW n \in Node, NEW l \in Link, NEW i \in DOMAIN chan'[n][l],
             IsControl(chan'[n][l][i], id)
      PROVE  ControlPlaced(n, l, i, id, chan[n][l][i])'
  <2> DEFINE o == off[n][l]
  <2>1. /\ i + o \in DOMAIN chan[n][l] /\ i \in Nat /\ o \in {0, 1}
        /\ chan'[n][l][i] = chan[n][l][i + o]
    BY <1>1, <1>7
  <2>2. PICK m \in Message : m = chan'[n][l][i] /\ m = chan[n][l][i + o]
    BY <2>1 DEF TypeOK
  <2>3. ControlPlaced(n, l, i + o, id, m)
    BY <1>7, <2>1, <2>2 DEF LinkPlaced
  <2>4. id \in DOMAIN userLink /\ Up(id) # Null /\ Owner(id) \notin todo
    BY <2>3 DEF ControlPlaced
  <2>5. AccessSat(id) \in Node /\ Owner(id) \in Node /\ Target(id) \in Node
    BY <2>4, OwnerType, UpJoins
  <2>6. ASSUME \A x \in Node, k \in Link : \A j \in DOMAIN chan[x][k] :
                 IsControl(chan[x][k][j], id) => x = n /\ k = l /\ j = i + o
        PROVE  OnlyControl(n, l, i, id)'
    <3>1. ASSUME NEW x \in Node, NEW k \in Link, NEW j \in DOMAIN chan'[x][k],
                 IsControl(chan'[x][k][j], id)
          PROVE  x = n /\ k = l /\ j = i
      BY <1>1, <2>1, <2>6, <3>1
    <3> QED BY <3>1 DEF OnlyControl
  <2>7. ASSUME OnlyAck(n, l, i + o, id)
        PROVE  OnlyAck(n, l, i, id)'
    <3>1. ASSUME NEW x \in Node, NEW k \in Link, NEW j \in DOMAIN chan'[x][k],
                 chan'[x][k][j] = TunnelAck(id)
          PROVE  x = n /\ k = l /\ j = i
      <4>1. IsControl(chan'[x][k][j], id)
        BY <3>1 DEF IsControl, TunnelAck
      <4> QED BY <1>1, <2>1, <2>7, <3>1, <4>1 DEF OnlyAck
    <3> QED BY <3>1 DEF OnlyAck
  <2>8. /\ Unanswered(id)' <=> Unanswered(id)
        /\ AccessWaits(id)' <=> AccessWaits(id)
        /\ OwnerWaits(id)' <=> OwnerWaits(id)
        /\ \A x \in Node : RelaysToAccess(x, id)' <=> RelaysToAccess(x, id)
    BY <1>2, <2>5 DEF Unanswered, AccessWaits, OwnerWaits, RelaysToAccess, Peer
  <2>9. m.type = "TunnelReq" => ReqPlaced(n, l, i, id, m.hopLimit)'
    <3>1. FirstReq(n, l, i + o, id) => FirstReq(n, l, i, id)'
      BY <1>2, <2>6, <2>8 DEF FirstReq, OnlyControl
    <3> QED BY <1>2, <2>3, <2>8, <3>1 DEF ControlPlaced, ReqPlaced
  <2>10. m.type = "TunnelAck" => AckPlaced(n, l, i, id)'
    <3>1. Peer(n, l) \in Node
      BY <2>1, PeerOfPeer DEF LossInv, PacketFits, Fits
    <3> QED BY <1>2, <2>3, <2>5, <2>7, <2>8, <3>1 DEF ControlPlaced, AckPlaced, AckFindsWay
  <2> QED BY <1>2, <2>2, <2>4, <2>9, <2>10 DEF ControlPlaced
<1> QED BY <1>3, <1>4, <1>6, <1>7 DEF LinkPlaced

\* A packet that is not emitted was in flight before, and is not the one taken.
LEMMA OldNotTaken ==
  ASSUME TypeOK, TypeOK', NEW q \in Node, NEW l \in Link,
         NEW off, NEW c, Rest(off, c), Extends(chan', c), off[q][l] = 1,
         NEW n \in Node, NEW k \in Link, NEW i \in DOMAIN chan'[n][k], i \notin Added(chan', c, n, k)
  PROVE  \E x \in Message : \E j \in DOMAIN chan[n][k] :
           x = chan'[n][k][i] /\ x = chan[n][k][j] /\ ~(n = q /\ k = l /\ j = 1)
<1>1. chan'[n][k] \in Seq(Message) /\ chan[n][k] \in Seq(Message) /\ off[n][k] \in {0, 1}
  BY DEF TypeOK, Rest
<1>2. PICK j : /\ j = i + off[n][k] /\ j \in DOMAIN chan[n][k] /\ chan'[n][k][i] = chan[n][k][j]
  BY OldOrAdded
<1>3. i \in Nat \ {0} /\ chan[n][k][j] \in Message
  BY <1>1, <1>2
<1>4. ~(n = q /\ k = l /\ j = 1)
  BY <1>1, <1>2, <1>3
<1> QED BY <1>2, <1>3, <1>4

\* Nothing is emitted about id after c but an ack, the p-th packet from m on r,
\* which will find its way.
OneAckAdded(c, id, m, r, p) ==
  \A n \in Node, k \in Link : \A i \in Added(chan', c, n, k) :
    IsControl(chan'[n][k][i], id) =>
      /\ n = m /\ k = r /\ i = p
      /\ chan'[n][k][i] = TunnelAck(id) /\ AckFindsWay(Peer(n, k), id)'

\* A request or ack for id is taken, and id has been answered after that; at
\* most one ack is emitted.
LEMMA AnsweredKept ==
  ASSUME TypeOK, TypeOK', LossInv, UserLinksJoin, NEW id \in UserLink, LinkPlaced(id),
         UNCHANGED linkVars, \A n \in Node : idList'[n] \subseteq idList[n],
         NEW q \in Node, NEW l \in Link, 1 \in DOMAIN chan[q][l], IsControl(chan[q][l][1], id),
         NEW off, NEW c, Rest(off, c), Extends(chan', c), off[q][l] = 1, ~Unanswered(id)',
         \A n \in Node, k \in Link : \A i \in DOMAIN chan[n][k] :
           chan[n][k][i] = TunnelAck(id) => n = q /\ k = l /\ i = 1,
         NEW m, NEW r, NEW p, OneAckAdded(c, id, m, r, p)
  PROVE  LinkPlaced(id)'
<1>2. /\ userLink' = userLink /\ p2pDevice' = p2pDevice /\ todo' = todo
      /\ Owner(id)' = Owner(id) /\ Target(id)' = Target(id) /\ Up(id)' = Up(id)
      /\ AccessSat(id)' = AccessSat(id)
      /\ \A n, k : Peer(n, k)' = Peer(n, k)
  BY DEF linkVars, Owner, Target, Up, AccessSat, Peer
<1>3. /\ id \in DOMAIN userLink /\ Up(id) # Null /\ Owner(id) \notin todo
      /\ Up(id) # id
  BY DEF LinkPlaced, ControlPlaced, Fresh, NoControl
<1>4. \A n \in Node : id \in idList'[n] => id \in DOMAIN userLink' /\ n \in {Owner(id)', Target(id)'}
  BY <1>2 DEF LinkPlaced
<1>5. ASSUME NEW n \in Node, NEW k \in Link, NEW i \in DOMAIN chan'[n][k],
             IsControl(chan'[n][k][i], id), i \notin Added(chan', c, n, k)
      PROVE  ControlPlaced(n, k, i, id, chan[n][k][i])' /\ chan'[n][k][i] # TunnelAck(id)
  <2>1. PICK x \in Message : \E j \in DOMAIN chan[n][k] :
               x = chan'[n][k][i] /\ x = chan[n][k][j] /\ ~(n = q /\ k = l /\ j = 1)
    BY <1>5, OldNotTaken
  <2>2. PICK j \in DOMAIN chan[n][k] :
          x = chan'[n][k][i] /\ x = chan[n][k][j] /\ ~(n = q /\ k = l /\ j = 1)
    BY <2>1
  <2>3. ControlPlaced(n, k, j, id, x)
    BY <1>5, <2>2 DEF LinkPlaced
  <2>4. x # TunnelAck(id)
    BY <2>2
  <2>5. x.type = "TunnelReq"
    BY <1>5, <2>2, <2>4 DEF IsControl, Message, TunnelAck
  <2>6. ~FirstReq(n, k, j, id)
    BY <2>2 DEF FirstReq, OnlyControl
  <2>7. ReqPlaced(n, k, i, id, x.hopLimit)'
    BY <1>2, <2>3, <2>5, <2>6 DEF ControlPlaced, ReqPlaced
  <2> QED BY <1>2, <1>3, <2>2, <2>4, <2>5, <2>7 DEF ControlPlaced
<1>6. ASSUME NEW n \in Node, NEW k \in Link, NEW i \in DOMAIN chan'[n][k],
             chan'[n][k][i] = TunnelAck(id)
      PROVE  n = m /\ k = r /\ i = p
  <2>1. IsControl(chan'[n][k][i], id)
    BY <1>6 DEF IsControl, TunnelAck
  <2> QED BY <1>5, <1>6, <2>1 DEF OneAckAdded
<1>7. ASSUME NEW n \in Node, NEW k \in Link, NEW i \in DOMAIN chan'[n][k],
             IsControl(chan'[n][k][i], id), i \in Added(chan', c, n, k)
      PROVE  ControlPlaced(n, k, i, id, chan[n][k][i])'
  <2>1. chan'[n][k][i] = TunnelAck(id) /\ AckFindsWay(Peer(n, k), id)' /\ n = m /\ k = r /\ i = p
    BY <1>7 DEF OneAckAdded
  <2>2. OnlyAck(n, k, i, id)'
    BY <1>6, <2>1 DEF OnlyAck
  <2> QED BY <1>2, <1>3, <2>1, <2>2 DEF ControlPlaced, AckPlaced, TunnelAck
<1>8. \A n \in Node, k \in Link : \A i \in DOMAIN chan'[n][k] :
        IsControl(chan'[n][k][i], id) => ControlPlaced(n, k, i, id, chan[n][k][i])'
  BY <1>5, <1>7
<1> QED BY <1>2, <1>3, <1>4, <1>8 DEF LinkPlaced

\* A request for id is relayed: every packet emitted about id is a request in
\* its place, and PRT entries are only added.
LEMMA RelayedKept ==
  ASSUME TypeOK, TypeOK', LossInv, UserLinksJoin, NEW id \in UserLink, LinkPlaced(id),
         UNCHANGED <<linkVars, idList, tib>>,
         NEW q \in Node, NEW l \in Link, 1 \in DOMAIN chan[q][l], IsControl(chan[q][l][1], id),
         NEW off, NEW c, Rest(off, c), Extends(chan', c), off[q][l] = 1,
         \A n \in Node : prt[n][id] # Absent => prt'[n][id] = prt[n][id],
         Unanswered(id) => prt'[Target(id)][id] = Absent,
         \A n \in Node, k \in Link : \A i \in Added(chan', c, n, k) :
           IsControl(chan'[n][k][i], id) =>
             /\ chan'[n][k][i].type = "TunnelReq"
             /\ ReqPlaced(n, k, i, id, chan[n][k][i].hopLimit)'
  PROVE  LinkPlaced(id)'
<1>2. /\ userLink' = userLink /\ p2pDevice' = p2pDevice /\ todo' = todo
      /\ idList' = idList /\ tib' = tib
      /\ Owner(id)' = Owner(id) /\ Target(id)' = Target(id) /\ Up(id)' = Up(id)
      /\ AccessSat(id)' = AccessSat(id)
      /\ \A n, k : Peer(n, k)' = Peer(n, k)
  BY DEF linkVars, Owner, Target, Up, AccessSat, Peer
<1>3. /\ id \in DOMAIN userLink /\ Up(id) # Null /\ Owner(id) \notin todo
      /\ Up(id) # id
  BY DEF LinkPlaced, ControlPlaced, Fresh, NoControl
<1>4. /\ Owner(id) \in Node /\ AccessSat(id) \in Node /\ Up(id) \in Link
  BY <1>3, OwnerType, UpJoins
<1>5. /\ Unanswered(id)' <=> Unanswered(id)
      /\ OwnerWaits(id) => OwnerWaits(id)'
      /\ AccessWaits(id) => AccessWaits(id)'
  BY <1>2, <1>4, MarkerAssumption DEF Unanswered, OwnerWaits, AccessWaits
<1>6. ASSUME NEW x \in Node, RelaysToAccess(x, id) PROVE RelaysToAccess(x, id)'
  <2>1. prt[x][id] # Absent
    BY <1>6, PeerOfPeer, MarkerAssumption DEF RelaysToAccess
  <2> QED BY <1>2, <1>6, <2>1 DEF RelaysToAccess
<1>7. ASSUME NEW n \in Node, NEW k \in Link, NEW i \in DOMAIN chan'[n][k],
             IsControl(chan'[n][k][i], id), i \notin Added(chan', c, n, k)
      PROVE  ControlPlaced(n, k, i, id, chan[n][k][i])'
  <2>1. PICK x \in Message : \E j \in DOMAIN chan[n][k] :
               x = chan'[n][k][i] /\ x = chan[n][k][j] /\ ~(n = q /\ k = l /\ j = 1)
    BY <1>7, OldNotTaken
  <2>2. PICK j \in DOMAIN chan[n][k] :
          x = chan'[n][k][i] /\ x = chan[n][k][j] /\ ~(n = q /\ k = l /\ j = 1)
    BY <2>1
  <2>3. ControlPlaced(n, k, j, id, x) /\ Peer(n, k) \in Node
    BY <1>7, <2>2, PeerOfPeer DEF LinkPlaced, LossInv, PacketFits, Fits
  <2>4. ~FirstReq(n, k, j, id)
    BY <2>2 DEF FirstReq, OnlyControl
  <2>5. x.type = "TunnelReq" => ReqPlaced(n, k, i, id, x.hopLimit)'
    BY <1>2, <1>5, <1>6, <2>3, <2>4 DEF ControlPlaced, ReqPlaced
  <2>6. x.type = "TunnelAck" => AckFindsWay(Peer(n, k), id)'
    BY <1>2, <1>5, <1>6, <2>3 DEF ControlPlaced, AckPlaced, AckFindsWay
  <2>7. x.type = "TunnelAck" => OnlyAck(n, k, i, id)'
    <3> SUFFICES ASSUME x.type = "TunnelAck", NEW y \in Node, NEW f \in Link,
                        NEW g \in DOMAIN chan'[y][f], chan'[y][f][g] = TunnelAck(id)
                 PROVE  y = n /\ f = k /\ g = i
      BY DEF OnlyAck
    <3>1. OnlyAck(n, k, j, id) /\ x = TunnelAck(id)
      BY <1>7, <2>2, <2>3 DEF ControlPlaced, AckPlaced, IsControl, Message, TunnelAck
    <3>2. g \notin Added(chan', c, y, f) /\ i \notin Added(chan', c, n, k)
      BY <1>7 DEF IsControl, TunnelAck
    <3>3. /\ g + off[y][f] \in DOMAIN chan[y][f] /\ chan'[y][f][g] = chan[y][f][g + off[y][f]]
          /\ i + off[n][k] \in DOMAIN chan[n][k] /\ chan'[n][k][i] = chan[n][k][i + off[n][k]]
      BY <3>2, OldOrAdded
    <3>4. y = n /\ f = k /\ g + off[n][k] = j /\ i + off[n][k] = j
      <4>1. chan[y][f][g + off[y][f]] = TunnelAck(id) /\ chan[n][k][i + off[n][k]] = TunnelAck(id)
        BY <2>2, <3>1, <3>3
      <4>2. y = n /\ f = k /\ g + off[y][f] = j
        BY <3>1, <3>3, <4>1 DEF OnlyAck
      <4>3. i + off[n][k] = j
        BY <3>1, <3>3, <4>1 DEF OnlyAck
      <4> QED BY <4>2, <4>3
    <3>5. off[n][k] \in {0, 1} /\ chan'[n][k] \in Seq(Message)
      BY DEF Rest, TypeOK
    <3>6. g \in Nat /\ i \in Nat
      BY <3>4, <3>5
    <3> QED BY <3>4, <3>5, <3>6
  <2> QED BY <1>2, <1>3, <2>2, <2>5, <2>6, <2>7 DEF ControlPlaced, AckPlaced
<1>8. ASSUME NEW n \in Node, NEW k \in Link, NEW i \in DOMAIN chan'[n][k],
             IsControl(chan'[n][k][i], id), i \in Added(chan', c, n, k)
      PROVE  ControlPlaced(n, k, i, id, chan[n][k][i])'
  BY <1>2, <1>3, <1>8 DEF ControlPlaced
<1>9. \A n \in Node, k \in Link : \A i \in DOMAIN chan'[n][k] :
        IsControl(chan'[n][k][i], id) => ControlPlaced(n, k, i, id, chan[n][k][i])'
  BY <1>7, <1>8
<1>10. \A n \in Node : id \in idList'[n] => id \in DOMAIN userLink' /\ n \in {Owner(id)', Target(id)'}
  BY <1>2 DEF LinkPlaced
<1>11. Unanswered(id)' => prt'[Target(id)'][id] = Absent /\ \A n \in Node : tib'[n][id] = Absent
  BY <1>2, <1>3, <1>5 DEF LinkPlaced
<1> QED BY <1>2, <1>3, <1>9, <1>10, <1>11 DEF LinkPlaced

----------------------------------------------------------------------------
(* Requests and acks that arrive.                                          *)

\* What reaches n on l, a request or an ack, is in its place.
LEMMA ArrivalPlaced ==
  ASSUME TypeOK, LossInv, TunnelInv, NEW n \in Node, NEW l \in Link,
         NEW t \in {"TunnelReq", "TunnelAck"}, Arrives(n, l, t),
         NEW q, q = Peer(n, l), NEW m, m = Arriving(n, l), NEW id, id = m.id
  PROVE  /\ q \in Node /\ q # n /\ Peer(q, l) = n /\ HasDevice(userLink, n, l)
         /\ m \in Message /\ m.type = t /\ id \in UserLink /\ LinkPlaced(id)
         /\ 1 \in DOMAIN chan[q][l] /\ chan[q][l][1] = m /\ IsControl(chan[q][l][1], id)
         /\ ControlPlaced(q, l, 1, id, m)
         /\ id \in DOMAIN userLink /\ Up(id) # Null
         /\ Rest(OneTaken(q, l), Received(n, l)) /\ OneTaken(q, l)[q][l] = 1
         /\ Received(n, l) \in Channels
<1>1. /\ q \in Node /\ q # n /\ Peer(q, l) = n /\ HasDevice(userLink, n, l)
      /\ m \in Message /\ m.type = t /\ chan[q][l][1] = m
  BY ArrivalFits
<1>2. id \in UserLink /\ LinkPlaced(id)
  BY <1>1, MessageFields DEF TunnelInv
<1>3. chan[q][l] \in Seq(Message) /\ chan[q][l] # <<>>
  BY <1>1 DEF TypeOK, Arrives
<1>4. 1 \in DOMAIN chan[q][l] /\ IsControl(chan[q][l][1], id)
  BY <1>1, <1>3 DEF IsControl
<1>5. ControlPlaced(q, l, 1, id, m)
  BY <1>1, <1>2, <1>4 DEF LinkPlaced
<1>6. Rest(OneTaken(q, l), Received(n, l)) /\ Received(n, l) \in Channels
  BY RestOfReceived, ArrivalType
<1>7. OneTaken(q, l)[q][l] = 1
  BY <1>1 DEF OneTaken
<1> QED BY <1>1, <1>2, <1>4, <1>5, <1>6, <1>7 DEF ControlPlaced

\* An answer is payload, and an ack at its end.
LEMMA AnswerShape ==
  ASSUME TypeOK, NEW n \in Node, NEW id \in UserLink
  PROVE  /\ Answer(n, id) \in Seq(Message)
         /\ \A i \in DOMAIN Answer(n, id) :
              \/ i = Len(Answer(n, id)) /\ Answer(n, id)[i] = TunnelAck(id)
              \/ \E p \in NdnPacket : Answer(n, id)[i] = LinkPayload(p)
<1> DEFINE front == FlushedPayloads(n, id)
<1>1. /\ front \in Seq(Message)
      /\ \A i \in DOMAIN front : \E p \in NdnPacket : front[i] = LinkPayload(p)
  <2>1. dt[n][id] \in Seq(NdnPacket)
    BY DEF TypeOK
  <2> QED BY <2>1, MessageKinds DEF FlushedPayloads
<1>2. TunnelAck(id) \in Message
  BY MessageKinds
<1>3. Answer(n, id) = Append(front, TunnelAck(id))
  BY <1>1, <1>2, AppendIsConcat DEF Answer
<1> HIDE DEF front
<1> QED BY <1>1, <1>2, <1>3, AppendProperties

\* Only the previous access satellite answers, before anyone has an entry.
LEMMA TargetAnswers ==
  ASSUME TypeOK, TypeOK', LossInv, TunnelInv, NEW n \in Node, NEW l \in Link,
         ReqAtTarget(n, l), NEW id, id = Arriving(n, l).id
  PROVE  /\ LinkPlaced(id)'
         /\ n = Target(id) /\ \A x \in Node : tib[x][id] = Absent
<1>1. PICK q, m : q = Peer(n, l) /\ m = Arriving(n, l)
  OBVIOUS
<1>2. /\ q \in Node /\ q # n /\ Peer(q, l) = n
      /\ m \in Message /\ m.type = "TunnelReq" /\ m.id = id /\ id \in UserLink /\ LinkPlaced(id)
      /\ 1 \in DOMAIN chan[q][l] /\ IsControl(chan[q][l][1], id)
      /\ ControlPlaced(q, l, 1, id, m)
      /\ id \in DOMAIN userLink /\ Up(id) # Null
      /\ Rest(OneTaken(q, l), Received(n, l)) /\ OneTaken(q, l)[q][l] = 1
      /\ Received(n, l) \in Channels
  BY <1>1, ArrivalPlaced DEF ReqAtTarget
<1>3. /\ UNCHANGED <<linkVars, prt>> /\ id \in idList[n]
      /\ tib' = [tib EXCEPT ![n][id] = <<Null, l>>]
      /\ chan' = Emit(Received(n, l), n, l, Answer(n, id))
      /\ idList' = [idList EXCEPT ![n] = @ \ {id}]
  BY <1>1, <1>2 DEF ReqAtTarget, TargetEntry, TargetErased
<1>4. /\ Owner(id) \in Node /\ Target(id) \in Node /\ Owner(id) # Target(id)
      /\ AccessSat(id) \in Node /\ Up(id) \in Link
      /\ Up(id)' = Up(id) /\ AccessSat(id)' = AccessSat(id)
      /\ Owner(id)' = Owner(id) /\ Target(id)' = Target(id)
      /\ \A x, k : Peer(x, k)' = Peer(x, k)
  BY <1>2, <1>3, OwnerType, UpJoins DEF TunnelInv, linkVars, Up, AccessSat, Owner, Target, Peer
<1>5. ReqPlaced(q, l, 1, id, m.hopLimit)
  BY <1>2 DEF ControlPlaced
<1>6. n = Target(id)
  <2>1. n \in {Owner(id), Target(id)}
    BY <1>2, <1>3 DEF LinkPlaced
  <2>2. Owner(id) \notin Sat
    BY <1>2, OwnerType, NodeAssumption
  <2> QED BY <1>2, <1>5, <2>1, <2>2 DEF ReqPlaced, FirstReq
<1>7. Unanswered(id) /\ ~Unanswered(id)'
  <2>1. idList'[n] = idList[n] \ {id}
    BY <1>3 DEF TypeOK
  <2> QED BY <1>3, <1>4, <1>6, <2>1 DEF Unanswered
<1>8. prt[n][id] = Absent /\ \A x \in Node : tib[x][id] = Absent
  BY <1>2, <1>6, <1>7 DEF LinkPlaced
<1>9. \A x \in Node, k \in Link : \A i \in DOMAIN chan[x][k] : chan[x][k][i] # TunnelAck(id)
  <2> SUFFICES ASSUME NEW x \in Node, NEW k \in Link, NEW i \in DOMAIN chan[x][k],
                      chan[x][k][i] = TunnelAck(id)
               PROVE  FALSE
    OBVIOUS
  <2>1. ControlPlaced(x, k, i, id, TunnelAck(id))
    BY <1>2 DEF LinkPlaced, IsControl, TunnelAck
  <2> QED BY <1>7, <2>1 DEF ControlPlaced, AckPlaced, AckFindsWay, TunnelAck
<1>10. AckFindsWay(q, id)'
  <2>1. \A x \in Node : x # n => tib'[x][id] = Absent
    BY <1>2, <1>3, <1>8 DEF TypeOK
  <2>2. AccessSat(id) # n \/ ~AccessWaits(id)
    BY <1>4, <1>8, MarkerAssumption DEF AccessWaits
  <2>3. OwnerWaits(id) /\ (q # Owner(id) => AccessWaits(id))
        /\ (q \notin {Owner(id), AccessSat(id)} => RelaysToAccess(q, id))
    BY <1>5, <1>7 DEF ReqPlaced, FirstReq, AccessWaits
  <2> QED BY <1>2, <1>3, <1>4, <1>6, <1>7, <2>1, <2>2, <2>3
      DEF AckFindsWay, OwnerWaits, AccessWaits, RelaysToAccess, linkVars
<1>11. PICK p : p = Len(Received(n, l)[n][l]) + Len(Answer(n, id))
  OBVIOUS
<1>12. /\ Extends(chan', Received(n, l))
       /\ \A x \in Node, k \in Link : \A i \in Added(chan', Received(n, l), x, k) :
            IsControl(chan'[x][k][i], id) =>
              x = n /\ k = l /\ i = p /\ chan'[x][k][i] = TunnelAck(id)
  <2>1. PICK c \in Channels, a \in Seq(Message) : c = Received(n, l) /\ a = Answer(n, id)
    BY <1>2, AnswerShape
  <2>2. /\ Extends(chan', c)
        /\ \A x \in Node, k \in Link : \A i \in Added(chan', c, x, k) :
             /\ x = n /\ k = l /\ i - Len(c[x][k]) \in DOMAIN a
             /\ chan'[x][k][i] = a[i - Len(c[x][k])]
    BY <1>3, <2>1, EmitExtends
  <2>3. ASSUME NEW x \in Node, NEW k \in Link, NEW i \in Added(chan', c, x, k),
               IsControl(chan'[x][k][i], id)
        PROVE  x = n /\ k = l /\ i = p /\ chan'[x][k][i] = TunnelAck(id)
    <3>1. Len(c[x][k]) \in Nat /\ i \in Nat /\ Len(a) \in Nat
      <4>1. c[x][k] \in Seq(Message)
        BY DEF Channels
      <4> QED BY <4>1 DEF Added
    <3>2. i - Len(c[x][k]) = Len(a) /\ chan'[x][k][i] = TunnelAck(id)
      BY <1>2, <2>1, <2>2, <2>3, AnswerShape DEF IsControl, LinkPayload
    <3>3. x = n /\ k = l
      BY <2>2
    <3>4. i = Len(c[x][k]) + Len(a)
      BY <3>1, <3>2
    <3> QED BY <1>11, <2>1, <3>2, <3>3, <3>4
  <2> QED BY <2>1, <2>2, <2>3
<1>13. \A x \in Node : idList'[x] \subseteq idList[x]
  BY <1>3 DEF TypeOK
<1>14. LinkPlaced(id)'
  <2>1. PICK c, o : c = Received(n, l) /\ o = OneTaken(q, l)
    OBVIOUS
  <2>2. OneAckAdded(c, id, n, l, p)
    BY <1>1, <1>4, <1>10, <1>12, <2>1 DEF OneAckAdded
  <2>3. UserLinksJoin /\ UNCHANGED linkVars
    BY <1>3 DEF TunnelInv
  <2>4. Rest(o, c) /\ Extends(chan', c) /\ o[q][l] = 1
    BY <1>2, <1>12, <2>1
  <2> QED BY <1>2, <1>7, <1>9, <1>13, <2>2, <2>3, <2>4, AnsweredKept
<1> QED BY <1>6, <1>8, <1>14

\* A node that takes the ack has no entry, and sends it on towards the station.
LEMMA AckPassedOn ==
  ASSUME TypeOK, TypeOK', LossInv, TunnelInv, NEW n \in Node, NEW l \in Link,
         AckTaken(n, l), NEW id, id = Arriving(n, l).id
  PROVE  /\ LinkPlaced(id)' /\ AckFindsWay(n, id)
         /\ prt[n][id] = Null <=> n = Owner(id)
         /\ prt[n][id] # Null => tib'[Peer(n, prt[n][id])][id] = Absent
<1>1. PICK q, m : q = Peer(n, l) /\ m = Arriving(n, l)
  OBVIOUS
<1>2. /\ q \in Node /\ q # n /\ Peer(q, l) = n
      /\ m \in Message /\ m.type = "TunnelAck" /\ m.id = id /\ id \in UserLink /\ LinkPlaced(id)
      /\ 1 \in DOMAIN chan[q][l] /\ chan[q][l][1] = m /\ IsControl(chan[q][l][1], id)
      /\ ControlPlaced(q, l, 1, id, m)
      /\ id \in DOMAIN userLink /\ Up(id) # Null
      /\ Rest(OneTaken(q, l), Received(n, l)) /\ OneTaken(q, l)[q][l] = 1
      /\ Received(n, l) \in Channels
  BY <1>1, ArrivalPlaced DEF AckTaken
<1>3. m = TunnelAck(id)
  BY <1>2 DEF Message, TunnelAck
<1>4. PICK r, c, o :
        r \in Link \cup {Null} /\ r = prt[n][id] /\ c = Received(n, l) /\ o = OneTaken(q, l)
  BY <1>1, <1>2 DEF AckTaken, TypeOK
<1>5. /\ UNCHANGED <<linkVars, idList>>
      /\ tib' = [tib EXCEPT ![n][id] = <<l, r>>] /\ prt' = [prt EXCEPT ![n][id] = Absent]
      /\ chan' = IF r = Null THEN c ELSE Emit(c, n, r, <<m>>)
  BY <1>1, <1>2, <1>4 DEF AckTaken, RelayEntry
<1>6. /\ Owner(id) \in Node /\ AccessSat(id) \in Node /\ Up(id) \in Link
      /\ Owner(id) # AccessSat(id) /\ Peer(AccessSat(id), Up(id)) = Owner(id)
      /\ Up(id)' = Up(id) /\ AccessSat(id)' = AccessSat(id)
      /\ Owner(id)' = Owner(id) /\ Target(id)' = Target(id)
      /\ \A x, k : Peer(x, k)' = Peer(x, k)
  BY <1>2, <1>5, OwnerType, UpJoins DEF TunnelInv, linkVars, Up, AccessSat, Owner, Target, Peer
<1>7. OnlyAck(q, l, 1, id) /\ AckFindsWay(n, id)
  BY <1>2 DEF ControlPlaced, AckPlaced
<1>8. /\ \A x \in Node : x # n => tib'[x][id] = tib[x][id] /\ prt'[x][id] = prt[x][id]
      /\ Unanswered(id)' <=> Unanswered(id)
  BY <1>2, <1>5, <1>6 DEF TypeOK, Unanswered
<1>9. r # Null => AckFindsWay(Peer(n, r), id)'
  <2>1. CASE n = Owner(id)
    BY <1>4, <1>7, <2>1 DEF AckFindsWay, OwnerWaits
  <2>2. CASE n = AccessSat(id)
    <3>1. r = Up(id) /\ Peer(n, r) = Owner(id)
      BY <1>4, <1>6, <1>7, <2>2 DEF AckFindsWay, AccessWaits
    <3> QED BY <1>6, <1>7, <1>8, <2>2, <3>1 DEF AckFindsWay, OwnerWaits
  <2>3. CASE n \notin {Owner(id), AccessSat(id)}
    <3>1. Peer(n, r) = AccessSat(id)
      BY <1>4, <1>7, <2>3 DEF AckFindsWay, RelaysToAccess
    <3> QED BY <1>6, <1>7, <1>8, <2>3, <3>1 DEF AckFindsWay, AccessWaits, OwnerWaits
  <2> QED BY <2>1, <2>2, <2>3
<1>10. c \in Channels /\ Rest(o, c) /\ o[q][l] = 1
  BY <1>2, <1>4
<1>11. PICK p : p = Len(c[n][r]) + 1
  OBVIOUS
<1>12. Extends(chan', c) /\ OneAckAdded(c, id, n, r, p)
  <2>1. CASE r = Null
    BY <1>5, <1>10, <2>1 DEF Extends, Added, Channels, OneAckAdded
  <2>2. CASE r # Null
    <3>1. /\ Extends(chan', c)
          /\ \A x \in Node, k \in Link : \A i \in Added(chan', c, x, k) :
               x = n /\ k = r /\ i = Len(c[x][k]) + 1 /\ chan'[x][k][i] = m
      BY <1>2, <1>5, <1>10, <2>2, EmitOneExtends
    <3> QED BY <1>3, <1>6, <1>9, <1>11, <2>2, <3>1 DEF OneAckAdded
  <2> QED BY <2>1, <2>2
<1>13. \A x \in Node, k \in Link : \A i \in DOMAIN chan[x][k] :
         chan[x][k][i] = TunnelAck(id) => x = q /\ k = l /\ i = 1
  BY <1>7 DEF OnlyAck
<1>14. ~Unanswered(id)' /\ tib[n][id] = Absent /\ UserLinksJoin /\ UNCHANGED linkVars
       /\ \A x \in Node : idList'[x] \subseteq idList[x]
  BY <1>5, <1>7, <1>8 DEF AckFindsWay, TunnelInv
<1>15. LinkPlaced(id)'
  BY <1>2, <1>10, <1>12, <1>13, <1>14, AnsweredKept
<1>16. r = Null <=> n = Owner(id)
  <2>1. n = Owner(id) => r = Null
    BY <1>4, <1>7 DEF AckFindsWay, OwnerWaits
  <2>2. n # Owner(id) => HasDevice(userLink, n, r) \/ r = Up(id)
    BY <1>4, <1>7 DEF AckFindsWay, AccessWaits, RelaysToAccess
  <2>3. ~HasDevice(userLink, n, Null)
    BY MarkerAssumption, PeerOfPeer
  <2> QED BY <1>2, <2>1, <2>2, <2>3
<1>17. r # Null => tib'[Peer(n, r)][id] = Absent
  BY <1>6, <1>9 DEF AckFindsWay
<1> QED BY <1>4, <1>7, <1>15, <1>16, <1>17

\* A request that is relayed goes on to nodes other than the station, from the
\* access satellite or a node whose PRT entry leads to it.
LEMMA RequestSpreads ==
  ASSUME TypeOK, TypeOK', LossInv, TunnelInv, HopLimit <= 3, NEW n \in Node, NEW l \in Link,
         ReqRelay(n, l), NEW id, id = Arriving(n, l).id
  PROVE  LinkPlaced(id)'
<1>1. PICK q, m : q = Peer(n, l) /\ m = Arriving(n, l)
  OBVIOUS
<1>2. /\ q \in Node /\ q # n /\ Peer(q, l) = n /\ HasDevice(userLink, n, l)
      /\ m \in Message /\ m.type = "TunnelReq" /\ m.id = id /\ id \in UserLink /\ LinkPlaced(id)
      /\ 1 \in DOMAIN chan[q][l] /\ IsControl(chan[q][l][1], id)
      /\ ControlPlaced(q, l, 1, id, m)
      /\ id \in DOMAIN userLink /\ Up(id) # Null
      /\ Rest(OneTaken(q, l), Received(n, l)) /\ OneTaken(q, l)[q][l] = 1
      /\ Received(n, l) \in Channels
  BY <1>1, ArrivalPlaced DEF ReqRelay
<1>3. PICK h, c, o : h \in 1..HopLimit /\ h = m.hopLimit /\ c = Received(n, l) /\ o = OneTaken(q, l)
  BY <1>2, MessageFields
<1>4. /\ UNCHANGED <<linkVars, idList, tib>> /\ id \notin idList[n] /\ prt[n][id] = Absent
      /\ prt' = [prt EXCEPT ![n][id] = l]
      /\ chan' = BroadcastReq(c, userLink, isGone[n], n, id, h, l)
  BY <1>1, <1>2, <1>3 DEF ReqRelay, Pending
<1>5. /\ Owner(id) \in Node /\ Target(id) \in Node /\ AccessSat(id) \in Node /\ Up(id) \in Link
      /\ Owner(id) # AccessSat(id) /\ Peer(Owner(id), Up(id)) = AccessSat(id)
      /\ Up(id)' = Up(id) /\ AccessSat(id)' = AccessSat(id)
      /\ Owner(id)' = Owner(id) /\ Target(id)' = Target(id)
      /\ \A x, k : Peer(x, k)' = Peer(x, k) /\ HasDevice(userLink', x, k) = HasDevice(userLink, x, k)
  BY <1>2, <1>4, OwnerType, UpJoins
  DEF TunnelInv, linkVars, Up, AccessSat, Owner, Target, Peer, HasDevice, EndsOf
<1>6. /\ prt'[n][id] = l /\ \A x \in Node : x # n => prt'[x][id] = prt[x][id]
      /\ Unanswered(id)' <=> Unanswered(id)
  <2>1. prt' = [prt EXCEPT ![n][id] = l] /\ n \in Node /\ id \in UserLink
    BY <1>2, <1>4
  <2>2. prt'[n][id] = l /\ \A x \in Node : x # n => prt'[x][id] = prt[x][id]
    BY <2>1, Typed, CellChanged
  <2>3. Target(id)' = Target(id) /\ idList' = idList
    BY <1>4, <1>5
  <2> QED BY <2>2, <2>3 DEF Unanswered
<1>7. ReqPlaced(q, l, 1, id, h)
  BY <1>2, <1>3 DEF ControlPlaced
<1>8. HopsLeft(h) = h - 1 /\ HopLimit \in Nat /\ h \in 1..HopLimit
  BY <1>3, BoundAssumption DEF HopsLeft
<1>9. /\ Extends(chan', c)
      /\ \A x \in Node, k \in Link : \A i \in Added(chan', c, x, k) :
           /\ h - 1 # 0 /\ x = n /\ k \in ReqDevices(userLink, isGone[n], n, l)
           /\ chan'[x][k][i] = TunnelReq(id, h - 1)
  <2>1. /\ Extends(chan', c)
        /\ \A x \in Node, k \in Link : \A i \in Added(chan', c, x, k) :
             /\ HopsLeft(h) # 0 /\ x = n /\ k \in ReqDevices(userLink, isGone[n], n, l)
             /\ chan'[x][k][i] = TunnelReq(id, HopsLeft(h))
    <3>1. c \in Channels
      BY <1>2, <1>3
    <3> QED BY <1>4, <3>1, BroadcastExtends
  <2> QED BY <1>8, <2>1
<1>10. ASSUME NEW k, k \in ReqDevices(userLink, isGone[n], n, l), h - 1 # 0
       PROVE  ReqPlaced(n, k, 0, id, h - 1)'
  <2>1. k \in Link /\ HasDevice(userLink, n, k) /\ k \notin isGone[n] /\ k # l
    BY <1>10 DEF ReqDevices
  <2>2. Peer(n, k) = Owner(id) => k = Up(id) /\ n = AccessSat(id)
    BY <1>2, <2>1, OwnerOnlyBehindUp DEF TunnelInv
  <2>3. CASE h = HopLimit
    <3>1. FirstReq(q, l, 1, id)
      BY <1>7, <1>8, <2>3 DEF ReqPlaced
    <3>2. n = AccessSat(id) /\ l = Up(id)
      BY <1>2, <1>5, <3>1 DEF FirstReq
    <3>3. AccessWaits(id)'
      BY <1>5, <1>6, <3>1, <3>2 DEF FirstReq, AccessWaits, OwnerWaits
    <3>4. Peer(n, k) \in Sat
      BY <1>2, <2>1, <3>2, SatsBesideUp DEF TunnelInv
    <3> QED BY <1>5, <1>8, <2>1, <2>3, <3>2, <3>3, <3>4 DEF ReqPlaced
  <2>4. CASE h = HopLimit - 1
    <3>1. q = AccessSat(id) /\ n \in Sat /\ n # Owner(id) /\ (Unanswered(id) => AccessWaits(id))
      BY <1>2, <1>7, <1>8, <2>4, OwnerType, NodeAssumption DEF ReqPlaced
    <3>2. Peer(n, k) # Owner(id)
      BY <1>2, <2>2, <3>1
    <3>3. Unanswered(id) => AccessWaits(id)'
      BY <1>2, <1>5, <1>6, <3>1 DEF AccessWaits, OwnerWaits
    <3>4. RelaysToAccess(n, id)'
      BY <1>1, <1>2, <1>5, <1>6, <3>1 DEF RelaysToAccess
    <3> QED BY <1>5, <1>6, <1>8, <2>4, <3>1, <3>2, <3>3, <3>4 DEF ReqPlaced
  <2> QED BY <1>7, <1>8, <1>10, <2>3, <2>4 DEF ReqPlaced
<1>11. Unanswered(id) => prt'[Target(id)][id] = Absent
  BY <1>2, <1>4, <1>5, <1>6 DEF Unanswered, LinkPlaced
<1>12. \A x \in Node : prt[x][id] # Absent => prt'[x][id] = prt[x][id]
  BY <1>4, <1>6
<1>13. \A x \in Node, k \in Link : \A i \in Added(chan', c, x, k) :
         IsControl(chan'[x][k][i], id) =>
           /\ chan'[x][k][i].type = "TunnelReq"
           /\ ReqPlaced(x, k, i, id, chan[x][k][i].hopLimit)'
  <2>1. ASSUME NEW k, NEW i, ReqPlaced(n, k, 0, id, h - 1)', h - 1 # 0
        PROVE  ReqPlaced(n, k, i, id, h - 1)'
    BY <1>8, <2>1 DEF ReqPlaced
  <2> QED BY <1>9, <1>10, <2>1 DEF TunnelReq
<1>14. UserLinksJoin /\ Rest(o, c) /\ o[q][l] = 1
  BY <1>2, <1>3 DEF TunnelInv
<1> QED BY <1>2, <1>4, <1>9, <1>11, <1>12, <1>13, <1>14, RelayedKept

----------------------------------------------------------------------------
(* Steps of Update.                                                        *)

\* The packets about id are still those there were.
SameControl(id) ==
  \A n \in Node, l \in Link : \A i \in DOMAIN chan'[n][l] :
    IsControl(chan'[n][l][i], id) => i \in DOMAIN chan[n][l] /\ chan'[n][l][i] = chan[n][l][i]

LEMMA NothingSaid ==
  ASSUME TypeOK, TypeOK', NEW id, Extends(chan', chan),
         \A n \in Node, l \in Link : \A i \in Added(chan', chan, n, l) :
           ~IsControl(chan'[n][l][i], id)
  PROVE  SameControl(id)
<1> SUFFICES ASSUME NEW n \in Node, NEW l \in Link, NEW i \in DOMAIN chan'[n][l],
                    i \notin Added(chan', chan, n, l)
             PROVE  i \in DOMAIN chan[n][l] /\ chan'[n][l][i] = chan[n][l][i]
  BY DEF SameControl
<1>1. /\ i + NoneTaken[n][l] \in DOMAIN chan[n][l]
      /\ chan'[n][l][i] = chan[n][l][i + NoneTaken[n][l]]
  BY RestOfAll, OldOrAdded
<1>2. NoneTaken[n][l] = 0
  BY DEF NoneTaken
<1>3. chan'[n][l] \in Seq(Message)
  BY DEF TypeOK
<1>4. i \in Nat
  BY <1>3
<1> QED BY <1>1, <1>2, <1>4

LEMMA LinksStay ==
  ASSUME TypeOK, LinksOnlyAdded
  PROVE  /\ DOMAIN userLink \subseteq DOMAIN userLink'
         /\ \A i \in DOMAIN userLink : userLink'[i] = userLink[i]
<1>1. userLink \in Seq(Station \X Sat)
  BY Typed
<1>2. CASE userLink' = userLink
  BY <1>2
<1>3. ASSUME NEW x \in Station \X Sat, userLink' = Append(userLink, x)
      PROVE  /\ DOMAIN userLink \subseteq DOMAIN userLink'
             /\ \A i \in DOMAIN userLink : userLink'[i] = userLink[i]
  <2>1. \A s \in Seq(Station \X Sat) :
          /\ DOMAIN s \subseteq DOMAIN Append(s, x)
          /\ \A i \in DOMAIN s : Append(s, x)[i] = s[i]
    OBVIOUS
  <2> QED BY <1>1, <1>3, <2>1
<1> QED BY <1>2, <1>3 DEF LinksOnlyAdded

\* A station that Update moves has nothing asked about its links; the links of
\* the others, and what is asked about them, stay.
LEMMA OldLinkKept ==
  ASSUME TypeOK, TypeOK', LossInv, UserLinksJoin, LinksOnlyAdded, NEW id \in UserLink, LinkPlaced(id),
         NEW st \in Station, st \in todo, todo' \subseteq todo,
         \A u \in Station : u # st => p2pDevice'[u] = p2pDevice[u],
         p2pDevice'[st] \notin DOMAIN userLink,
         id \in DOMAIN userLink' => id \in DOMAIN userLink,
         SameControl(id),
         \A n \in Node : /\ prt'[n][id] = prt[n][id] /\ tib'[n][id] = tib[n][id]
                         /\ id \in idList'[n] <=> id \in idList[n]
  PROVE  LinkPlaced(id)'
<1>1. /\ DOMAIN userLink \subseteq DOMAIN userLink'
      /\ \A i \in DOMAIN userLink : userLink'[i] = userLink[i]
  BY LinksStay
<1>2. id \in DOMAIN userLink =>
        /\ Owner(id) \in Node /\ Target(id) \in Node /\ Owner(id) \in Station
        /\ Owner(id)' = Owner(id) /\ Target(id)' = Target(id)
        /\ Owner(id) # st => Up(id)' = Up(id)
        /\ Owner(id) = st => Up(id)' # id /\ NoControl(id)
  <2>1. id \in DOMAIN userLink /\ Owner(id) = st => NoControl(id)
    BY DEF LinkPlaced, ControlPlaced, NoControl
  <2>2. id \in DOMAIN userLink =>
          /\ Owner(id)' = Owner(id) /\ Target(id)' = Target(id)
          /\ Owner(id) # st => Up(id)' = Up(id)
          /\ Owner(id) = st => Up(id)' # id
    BY <1>1, OwnerType DEF Owner, Target, Up
  <2> QED BY <2>1, <2>2, OwnerType
<1>3. NoControl(id) => NoControl(id)'
  BY DEF NoControl, SameControl
<1>4. Fresh(id) => Fresh(id)'
  BY <1>3 DEF Fresh
<1>5. \A n \in Node : id \in idList'[n] => id \in DOMAIN userLink' /\ n \in {Owner(id)', Target(id)'}
  BY <1>1, <1>2 DEF LinkPlaced
<1>6. id \notin DOMAIN userLink' \/ Up(id)' = id => Fresh(id)'
  BY <1>1, <1>2, <1>4 DEF LinkPlaced
<1>7. id \in DOMAIN userLink' /\ Unanswered(id)' =>
        prt'[Target(id)'][id] = Absent /\ \A n \in Node : tib'[n][id] = Absent
  BY <1>2 DEF LinkPlaced, Unanswered
<1>8. ASSUME NEW n \in Node, NEW l \in Link, NEW i \in DOMAIN chan'[n][l],
             IsControl(chan'[n][l][i], id)
      PROVE  ControlPlaced(n, l, i, id, chan[n][l][i])'
  <2>1. i \in DOMAIN chan[n][l]
    BY <1>8 DEF SameControl
  <2>2. PICK m \in Message : m = chan'[n][l][i] /\ m = chan[n][l][i]
    BY <1>8, <2>1 DEF SameControl, TypeOK
  <2>3. ControlPlaced(n, l, i, id, m)
    BY <1>8, <2>1, <2>2 DEF LinkPlaced
  <2>4. id \in DOMAIN userLink /\ Up(id) # Null /\ Owner(id) \notin todo /\ Owner(id) # st
    BY <2>3 DEF ControlPlaced
  <2>5. /\ AccessSat(id) \in Node /\ Owner(id) \in Node /\ Target(id) \in Node
        /\ Owner(id)' = Owner(id) /\ Target(id)' = Target(id) /\ Up(id)' = Up(id)
    BY <1>2, <2>4, UpJoins
  <2>6. AccessSat(id)' = AccessSat(id)
    <3>1. Up(id) \in DOMAIN userLink
      BY <2>4, <2>5 DEF UserLinksJoin, Up
    <3> QED BY <1>1, <2>5, <3>1 DEF AccessSat
  <2>7. Peer(n, l) \in Node /\ Peer(n, l)' = Peer(n, l)
    BY <2>1, PeerOfPeer, PeerStays DEF LossInv, PacketFits, Fits
  <2>8. /\ Unanswered(id)' <=> Unanswered(id)
        /\ AccessWaits(id)' <=> AccessWaits(id)
        /\ OwnerWaits(id)' <=> OwnerWaits(id)
    BY <2>5, <2>6 DEF Unanswered, AccessWaits, OwnerWaits
  <2>9. ASSUME NEW x \in Node, RelaysToAccess(x, id) PROVE RelaysToAccess(x, id)'
    <3>1. PICK k : k = prt[x][id] /\ k = prt'[x][id]
      OBVIOUS
    <3>2. HasDevice(userLink', x, k) /\ Peer(x, k)' = Peer(x, k)
      BY <2>9, <3>1, PeerStays DEF RelaysToAccess
    <3> QED BY <2>5, <2>6, <2>9, <3>1, <3>2 DEF RelaysToAccess
  <2>10. OnlyControl(n, l, i, id) => OnlyControl(n, l, i, id)'
    BY DEF OnlyControl, SameControl
  <2>11. OnlyAck(n, l, i, id) => OnlyAck(n, l, i, id)'
    <3> SUFFICES ASSUME OnlyAck(n, l, i, id), NEW x \in Node, NEW k \in Link,
                        NEW j \in DOMAIN chan'[x][k], chan'[x][k][j] = TunnelAck(id)
                 PROVE  x = n /\ k = l /\ j = i
      BY DEF OnlyAck
    <3>1. IsControl(chan'[x][k][j], id)
      BY DEF IsControl, TunnelAck
    <3> QED BY <3>1 DEF OnlyAck, SameControl
  <2>12. m.type = "TunnelReq" => ReqPlaced(n, l, i, id, m.hopLimit)'
    <3>1. FirstReq(n, l, i, id) => FirstReq(n, l, i, id)'
      BY <2>5, <2>8, <2>10 DEF FirstReq
    <3> QED BY <2>3, <2>5, <2>6, <2>7, <2>8, <2>9, <3>1 DEF ControlPlaced, ReqPlaced
  <2>13. m.type = "TunnelAck" => AckPlaced(n, l, i, id)'
    BY <2>3, <2>5, <2>6, <2>7, <2>8, <2>9, <2>11 DEF ControlPlaced, AckPlaced, AckFindsWay
  <2> QED BY <1>1, <2>2, <2>4, <2>5, <2>12, <2>13 DEF ControlPlaced
<1> QED BY <1>5, <1>6, <1>7, <1>8 DEF LinkPlaced

\* An Update begins when only NDN packets are in flight, and may leave a station alone.
LEMMA TodoChanged ==
  ASSUME TypeOK, TypeOK', TunnelInv, UNCHANGED <<userLink, p2pDevice, isGone, shimVars, chan>>,
         Settled \/ todo' \subseteq todo
  PROVE  TunnelInv'
<1>1. UserLinksJoin'
  BY DEF TunnelInv, UserLinksJoin
<1>2. ASSUME NEW id \in UserLink PROVE LinkPlaced(id)'
  <2>1. /\ Owner(id)' = Owner(id) /\ Target(id)' = Target(id) /\ Up(id)' = Up(id)
        /\ AccessSat(id)' = AccessSat(id) /\ Unanswered(id)' = Unanswered(id)
        /\ \A n, l : Peer(n, l)' = Peer(n, l)
        /\ userLink' = userLink /\ prt' = prt /\ tib' = tib /\ idList' = idList /\ chan' = chan
    BY DEF shimVars, Owner, Target, Up, AccessSat, Unanswered, Peer
  <2>2. LinkPlaced(id)
    BY DEF TunnelInv
  <2>3. ASSUME NEW n \in Node, NEW l \in Link, NEW i \in DOMAIN chan[n][l],
               IsControl(chan[n][l][i], id)
        PROVE  ControlPlaced(n, l, i, id, chan[n][l][i])'
    <3>1. todo' \subseteq todo
      BY <2>3 DEF Settled, IsControl
    <3>2. ControlPlaced(n, l, i, id, chan[n][l][i])
      BY <2>2, <2>3 DEF LinkPlaced
    <3> QED BY <2>1, <3>1, <3>2 DEF ControlPlaced, ReqPlaced, AckPlaced, FirstReq, OnlyControl,
               OnlyAck, AckFindsWay, AccessWaits, OwnerWaits, RelaysToAccess
  <2> QED BY <2>1, <2>2, <2>3 DEF LinkPlaced, Fresh, NoControl
<1> QED BY <1>1, <1>2 DEF TunnelInv

\* The station and the satellite at the ends of a user link in use.
LEMMA EndsInUse ==
  ASSUME TypeOK, UserLinksJoin, NEW st \in Station, NEW old, old = p2pDevice[st], old # Null,
         NEW t, t = userLink[old][2]
  PROVE  /\ old \in UserLink /\ old \in DOMAIN userLink /\ userLink[old][1] = st
         /\ st \in Node /\ t \in Sat /\ t \in Node /\ t # st /\ p2pDevice[t] = old
         /\ \A n \in Node : p2pDevice[n] = old => n \in {st, t}
         /\ Owner(old) = st /\ Target(old) = t /\ Up(old) = old
<1>1. st \in Node
  BY DEF Node
<1>2. /\ old \in DOMAIN userLink /\ st \in {userLink[old][1], userLink[old][2]}
      /\ p2pDevice[userLink[old][1]] = old /\ p2pDevice[userLink[old][2]] = old
  BY <1>1 DEF UserLinksJoin
<1>3. userLink[old] \in Station \X Sat /\ old \in UserLink
  BY <1>2, BoundAssumption DEF TypeOK, UserLink
<1>4. userLink[old][1] = st
  BY <1>2, <1>3, NodeAssumption
<1>5. \A n \in Node : p2pDevice[n] = old => n \in {st, t}
  BY <1>4 DEF UserLinksJoin
<1> QED BY <1>1, <1>2, <1>3, <1>4, <1>5, NodeAssumption DEF Node, Owner, Target, Up

\* A station loses its satellite.
LEMMA StationLeaves ==
  ASSUME TypeOK, TypeOK', LossInv, TunnelInv, NEW st \in Station, Leave(st)
  PROVE  TunnelInv'
<1>1. PICK old, t : old = p2pDevice[st] /\ t = userLink[old][2]
  OBVIOUS
<1>2. /\ old # Null /\ st \in todo /\ todo' = todo \ {st}
      /\ p2pDevice' = [p2pDevice EXCEPT ![st] = Null, ![t] = Null]
      /\ isGone' = [n \in Node |-> IF n \in {st, t} THEN isGone[n] \cup {old} ELSE isGone[n]]
      /\ UNCHANGED <<userLink, shimVars, chan>>
  BY <1>1 DEF Leave, Detached
<1>3. /\ old \in DOMAIN userLink /\ st \in Node /\ t \in Node /\ t \in Sat /\ p2pDevice[t] = old
      /\ \A n \in Node : p2pDevice[n] = old => n \in {st, t}
  BY <1>1, <1>2, EndsInUse DEF TunnelInv
<1>4. \A n \in Node : p2pDevice'[n] = IF n \in {st, t} THEN Null ELSE p2pDevice[n]
  BY <1>2, <1>3 DEF TypeOK
<1>5. UserLinksJoin'
  <2>1. ASSUME NEW n \in Node, NEW l \in DOMAIN userLink, n \in {userLink[l][1], userLink[l][2]}
        PROVE  l \in isGone'[n] \/ p2pDevice'[n] = l
    <3>1. l \in isGone[n] \/ p2pDevice[n] = l
      BY <2>1 DEF TunnelInv, UserLinksJoin
    <3>2. isGone'[n] = IF n \in {st, t} THEN isGone[n] \cup {old} ELSE isGone[n]
      BY <1>2
    <3> QED BY <1>1, <1>3, <1>4, <3>1, <3>2
  <2>2. ASSUME NEW n \in Node, p2pDevice'[n] # Null, NEW l, l = p2pDevice[n]
        PROVE  /\ p2pDevice'[n] = l /\ l \in DOMAIN userLink
               /\ n \in {userLink[l][1], userLink[l][2]}
               /\ p2pDevice'[userLink[l][1]] = l /\ p2pDevice'[userLink[l][2]] = l
    <3>1. p2pDevice'[n] = l /\ l # Null /\ n \notin {st, t}
      BY <1>4, <2>2
    <3>2. /\ l \in DOMAIN userLink /\ n \in {userLink[l][1], userLink[l][2]}
          /\ p2pDevice[userLink[l][1]] = l /\ p2pDevice[userLink[l][2]] = l
      BY <2>2, <3>1 DEF TunnelInv, UserLinksJoin
    <3>3. l # old
      BY <1>3, <2>2, <3>1
    <3>4. userLink[l] \in Station \X Sat
      BY <3>2 DEF TypeOK
    <3>5. userLink[l][1] \in Node /\ userLink[l][2] \in Node
      BY <3>4 DEF Node
    <3> QED BY <1>1, <1>3, <1>4, <3>1, <3>2, <3>3, <3>5
  <2> QED BY <1>2, <2>1, <2>2 DEF UserLinksJoin
<1>6. ASSUME NEW id \in UserLink PROVE LinkPlaced(id)'
  <2>1. LinkPlaced(id) /\ UserLinksJoin
    BY DEF TunnelInv
  <2>2. LinksOnlyAdded /\ SameControl(id)
    BY <1>2 DEF LinksOnlyAdded, SameControl
  <2>3. /\ \A u \in Station : u # st => p2pDevice'[u] = p2pDevice[u]
        /\ p2pDevice'[st] \notin DOMAIN userLink
    <3>1. \A u \in Station : u \in Node /\ u # t
      BY <1>3, NodeAssumption DEF Node
    <3>2. Null \notin DOMAIN userLink
      BY MarkerAssumption, BoundAssumption DEF TypeOK, Link, UserLink
    <3> QED BY <1>3, <1>4, <3>1, <3>2
  <2>4. \A n \in Node : /\ prt'[n][id] = prt[n][id] /\ tib'[n][id] = tib[n][id]
                        /\ id \in idList'[n] <=> id \in idList[n]
    BY <1>2 DEF shimVars
  <2> QED BY <1>2, <2>1, <2>2, <2>3, <2>4, OldLinkKept
<1> QED BY <1>5, <1>6 DEF TunnelInv

\* The user link that attaching a station creates.
LEMMA LinkCreated ==
  ASSUME TypeOK, NEW st \in Station, NEW s \in Sat, NewId <= MaxLink,
         userLink' = Append(userLink, <<st, s>>), NEW new, new = NewId
  PROVE  /\ new \in UserLink /\ new \notin DOMAIN userLink /\ new # Null
         /\ DOMAIN userLink' = DOMAIN userLink \cup {new} /\ userLink'[new] = <<st, s>>
         /\ \A l \in DOMAIN userLink : userLink'[l] = userLink[l] /\ l \in UserLink
         /\ Owner(new)' = st /\ Target(new)' = s
         /\ LinksOnlyAdded
<1>1. userLink \in Seq(Station \X Sat) /\ <<st, s>> \in Station \X Sat /\ new = Len(userLink) + 1
  BY DEF TypeOK, NewId
<1>2. new \in UserLink
  BY <1>1, AttachType
<1>3. /\ DOMAIN userLink' = DOMAIN userLink \cup {new} /\ userLink'[new] = <<st, s>>
      /\ new \notin DOMAIN userLink
      /\ \A l \in DOMAIN userLink : userLink'[l] = userLink[l]
  BY <1>1
<1>4. \A l \in DOMAIN userLink : l \in UserLink
  BY <1>1, BoundAssumption DEF TypeOK, UserLink
<1> QED BY <1>1, <1>2, <1>3, <1>4, MarkerAssumption DEF Owner, Target, LinksOnlyAdded, Link

\* It joins its ends, when what they had before is gone.
LEMMA AttachJoins ==
  ASSUME TypeOK, UserLinksJoin, NEW st \in Station, NEW s \in Sat, NewId <= MaxLink,
         userLink' = Append(userLink, <<st, s>>), NEW new, new = NewId,
         p2pDevice'[st] = new, p2pDevice'[s] = new,
         \A n \in Node : isGone[n] \subseteq isGone'[n],
         \A n \in Node : p2pDevice[n] \notin {Null, p2pDevice'[n]} => p2pDevice[n] \in isGone'[n],
         \A n \in Node : n \notin {st, s} /\ p2pDevice'[n] # Null =>
           /\ p2pDevice'[n] = p2pDevice[n]
           /\ \A e \in Node : p2pDevice[e] = p2pDevice[n] => p2pDevice'[e] = p2pDevice[e]
  PROVE  UserLinksJoin'
<1>1. /\ new \in UserLink /\ new \notin DOMAIN userLink /\ new # Null
      /\ DOMAIN userLink' = DOMAIN userLink \cup {new} /\ userLink'[new] = <<st, s>>
      /\ \A l \in DOMAIN userLink : userLink'[l] = userLink[l] /\ l \in UserLink
  BY LinkCreated
<1>2. ASSUME NEW n \in Node, NEW l \in DOMAIN userLink', n \in {userLink'[l][1], userLink'[l][2]}
      PROVE  l \in isGone'[n] \/ p2pDevice'[n] = l
  <2>1. CASE l = new
    BY <1>1, <1>2, <2>1
  <2>2. CASE l # new
    <3>1. l \in isGone[n] \/ p2pDevice[n] = l
      BY <1>1, <1>2, <2>2 DEF UserLinksJoin
    <3>2. l # Null
      BY <1>1, <1>2, <2>2, MarkerAssumption DEF Link
    <3> QED BY <3>1, <3>2
  <2> QED BY <2>1, <2>2
<1>3. ASSUME NEW n \in Node, p2pDevice'[n] # Null, NEW l, l = p2pDevice'[n]
      PROVE  /\ l \in DOMAIN userLink' /\ n \in {userLink'[l][1], userLink'[l][2]}
             /\ p2pDevice'[userLink'[l][1]] = l /\ p2pDevice'[userLink'[l][2]] = l
  <2>1. CASE n \in {st, s}
    BY <1>1, <1>3, <2>1
  <2>2. CASE n \notin {st, s}
    <3>1. p2pDevice[n] = l /\ \A e \in Node : p2pDevice[e] = l => p2pDevice'[e] = l
      BY <1>3, <2>2
    <3>2. /\ l \in DOMAIN userLink /\ n \in {userLink[l][1], userLink[l][2]}
          /\ p2pDevice[userLink[l][1]] = l /\ p2pDevice[userLink[l][2]] = l
      BY <1>3, <3>1 DEF UserLinksJoin
    <3>3. userLink[l] \in Station \X Sat
      BY <3>2 DEF TypeOK
    <3>4. userLink[l][1] \in Node /\ userLink[l][2] \in Node
      BY <3>3 DEF Node
    <3> QED BY <1>1, <3>1, <3>2, <3>4
  <2> QED BY <2>1, <2>2
<1> QED BY <1>2, <1>3 DEF UserLinksJoin

\* Nothing has been asked about it.
LEMMA NewLinkPlaced ==
  ASSUME TypeOK, TunnelInv, NEW st \in Station, NEW s \in Sat, NewId <= MaxLink,
         userLink' = Append(userLink, <<st, s>>), NEW new, new = NewId,
         idList' = AddUserLink(idList, st, s), SameControl(new),
         \A n \in Node : prt'[n][new] = prt[n][new] /\ tib'[n][new] = tib[n][new]
  PROVE  LinkPlaced(new)'
<1>1. /\ new \in UserLink /\ new \notin DOMAIN userLink /\ new \in DOMAIN userLink'
      /\ Owner(new)' = st /\ Target(new)' = s
  BY LinkCreated
<1>2. LinkPlaced(new)
  BY <1>1 DEF TunnelInv
<1>3. Fresh(new)
  BY <1>1, <1>2 DEF LinkPlaced
<1>4. NoControl(new)'
  BY <1>3 DEF Fresh, NoControl, SameControl
<1>5. Fresh(new)'
  BY <1>3, <1>4 DEF Fresh
<1>6. \A n \in Node : new \in idList'[n] => n \in {st, s}
  BY <1>1, <1>2 DEF LinkPlaced, AddUserLink
<1>7. prt'[s][new] = Absent
  BY <1>5 DEF Fresh, Node
<1> QED BY <1>1, <1>4, <1>5, <1>6, <1>7 DEF LinkPlaced, Fresh, NoControl

\* A station gets its first satellite, or its first after some time.
LEMMA StationEnters ==
  ASSUME TypeOK, TypeOK', LossInv, TunnelInv, NEW st \in Station, NEW s \in Sat, Enter(st, s)
  PROVE  TunnelInv'
<1>1. PICK new : new = NewId
  OBVIOUS
<1>2. /\ NewId <= MaxLink /\ st \in todo /\ todo' = todo \ {st}
      /\ p2pDevice[st] = Null /\ p2pDevice[s] = Null
      /\ userLink' = Append(userLink, <<st, s>>)
      /\ p2pDevice' = [p2pDevice EXCEPT ![st] = new, ![s] = new]
      /\ idList' = AddUserLink(idList, st, s)
      /\ UNCHANGED <<isGone, prt, tib, chan>>
  BY <1>1 DEF Enter
<1>3. /\ new \in UserLink /\ new \notin DOMAIN userLink /\ new # Null
      /\ DOMAIN userLink' = DOMAIN userLink \cup {new} /\ LinksOnlyAdded
      /\ st \in Node /\ s \in Node /\ st # s
  BY <1>1, <1>2, LinkCreated, NodeAssumption DEF Node
<1>4. \A n \in Node : p2pDevice'[n] = IF n \in {st, s} THEN new ELSE p2pDevice[n]
  BY <1>2, <1>3 DEF TypeOK
<1>5. UserLinksJoin'
  <2>1. \A n \in Node : isGone[n] \subseteq isGone'[n]
    BY <1>2
  <2>2. \A n \in Node : p2pDevice[n] \notin {Null, p2pDevice'[n]} => p2pDevice[n] \in isGone'[n]
    BY <1>2, <1>4
  <2>3. \A n \in Node : n \notin {st, s} /\ p2pDevice'[n] # Null =>
          /\ p2pDevice'[n] = p2pDevice[n]
          /\ \A e \in Node : p2pDevice[e] = p2pDevice[n] => p2pDevice'[e] = p2pDevice[e]
    BY <1>2, <1>4
  <2>4. p2pDevice'[st] = new /\ p2pDevice'[s] = new
    BY <1>3, <1>4
  <2> QED BY <1>1, <1>2, <2>1, <2>2, <2>3, <2>4, AttachJoins DEF TunnelInv
<1>6. \A id \in UserLink : SameControl(id)
  BY <1>2 DEF SameControl
<1>7. LinkPlaced(new)'
  BY <1>1, <1>2, <1>3, <1>6, NewLinkPlaced
<1>8. ASSUME NEW id \in UserLink, id # new PROVE LinkPlaced(id)'
  <2>1. LinkPlaced(id) /\ UserLinksJoin
    BY DEF TunnelInv
  <2>2. /\ \A u \in Station : u # st => p2pDevice'[u] = p2pDevice[u]
        /\ p2pDevice'[st] \notin DOMAIN userLink
    BY <1>3, <1>4, NodeAssumption DEF Node
  <2>3. \A n \in Node : /\ prt'[n][id] = prt[n][id] /\ tib'[n][id] = tib[n][id]
                        /\ id \in idList'[n] <=> id \in idList[n]
    BY <1>1, <1>2, <1>8 DEF AddUserLink
  <2>4. id \in DOMAIN userLink' => id \in DOMAIN userLink
    BY <1>3, <1>8
  <2> QED BY <1>2, <1>3, <1>6, <2>1, <2>2, <2>3, <2>4, OldLinkKept
<1> QED BY <1>5, <1>7, <1>8 DEF TunnelInv

\* A station is handed over.  The first request goes out on its new link only,
\* as the others it had are gone.
LEMMA StationMoves ==
  ASSUME TypeOK, TypeOK', LossInv, TunnelInv, NEW st \in Station, NEW s \in Sat, Move(st, s)
  PROVE  TunnelInv'
<1>1. PICK new, old, t : new = NewId /\ old = p2pDevice[st] /\ t = userLink[old][2]
  OBVIOUS
<1>2. /\ NewId <= MaxLink /\ st \in todo /\ todo' = todo \ {st}
      /\ old # Null /\ (s = t \/ p2pDevice[s] = Null)
      /\ userLink' = Append(userLink, <<st, s>>)
      /\ p2pDevice' = [p2pDevice EXCEPT ![t] = Null, ![st] = new, ![s] = new]
      /\ isGone' = [n \in Node |-> IF n \in {st, t} THEN isGone[n] \cup {old} ELSE isGone[n]]
      /\ idList' = AddUserLink(idList, st, s) /\ tib' = tib
      /\ \/ /\ chan' = BroadcastReq(chan, userLink', isGone'[st], st, old, 0, Null)
            /\ prt' = DestinationMark(prt, st, old)
         \/ UNCHANGED <<chan, prt>>
  BY <1>1 DEF Move, Detached
<1>3. /\ new \in UserLink /\ new \notin DOMAIN userLink /\ new # Null
      /\ DOMAIN userLink' = DOMAIN userLink \cup {new} /\ userLink'[new] = <<st, s>>
      /\ \A l \in DOMAIN userLink : userLink'[l] = userLink[l] /\ l \in UserLink
      /\ LinksOnlyAdded /\ st \in Node /\ s \in Node /\ st # s
  BY <1>1, <1>2, LinkCreated, NodeAssumption DEF Node
<1>4. /\ old \in UserLink /\ old \in DOMAIN userLink /\ t \in Sat /\ t \in Node /\ t # st
      /\ p2pDevice[t] = old /\ \A n \in Node : p2pDevice[n] = old => n \in {st, t}
      /\ Owner(old) = st /\ Target(old) = t /\ Up(old) = old
  BY <1>1, <1>2, EndsInUse DEF TunnelInv
<1>5. /\ \A n \in Node : p2pDevice'[n] = IF n \in {st, s} THEN new ELSE IF n = t THEN Null ELSE p2pDevice[n]
      /\ \A n \in Node : isGone'[n] = IF n \in {st, t} THEN isGone[n] \cup {old} ELSE isGone[n]
  BY <1>2, <1>3, <1>4 DEF TypeOK
<1>6. UserLinksJoin'
  <2>1. \A n \in Node : isGone[n] \subseteq isGone'[n]
    BY <1>5
  <2>2. \A n \in Node : p2pDevice[n] \notin {Null, p2pDevice'[n]} => p2pDevice[n] \in isGone'[n]
    BY <1>1, <1>2, <1>3, <1>4, <1>5
  <2>3. \A n \in Node : n \notin {st, s} /\ p2pDevice'[n] # Null =>
          /\ p2pDevice'[n] = p2pDevice[n]
          /\ \A e \in Node : p2pDevice[e] = p2pDevice[n] => p2pDevice'[e] = p2pDevice[e]
    <3> SUFFICES ASSUME NEW n \in Node, n \notin {st, s}, p2pDevice'[n] # Null
                 PROVE  /\ p2pDevice'[n] = p2pDevice[n]
                        /\ \A e \in Node : p2pDevice[e] = p2pDevice[n] => e \notin {st, s, t}
      BY <1>5
    <3>1. p2pDevice'[n] = p2pDevice[n] /\ n # t
      BY <1>5
    <3>2. p2pDevice[n] \notin {old, Null}
      BY <1>4, <3>1
    <3> QED BY <1>1, <1>2, <1>4, <3>1, <3>2
  <2>4. p2pDevice'[st] = new /\ p2pDevice'[s] = new
    BY <1>3, <1>5
  <2>5. UserLinksJoin /\ NewId <= MaxLink /\ userLink' = Append(userLink, <<st, s>>) /\ new = NewId
    BY <1>1, <1>2 DEF TunnelInv
  <2> QED BY <2>1, <2>2, <2>3, <2>4, <2>5, AttachJoins
<1>7. /\ Extends(chan', chan)
      /\ \A n \in Node, k \in Link : \A i \in Added(chan', chan, n, k) :
           /\ n = st /\ k = new /\ chan'[n][k][i] = TunnelReq(old, HopLimit)
           /\ i = Len(chan[st][new]) + 1 /\ prt' = [prt EXCEPT ![st][old] = Null]
  <2>1. CASE UNCHANGED <<chan, prt>>
    BY <2>1 DEF Extends, Added, TypeOK
  <2>2. CASE /\ chan' = BroadcastReq(chan, userLink', isGone'[st], st, old, 0, Null)
             /\ prt' = DestinationMark(prt, st, old)
    <3>1. HopsLeft(0) = HopLimit
      BY BoundAssumption DEF HopsLeft
    <3>2. chan \in Channels
      BY DEF TypeOK, Channels
    <3>3. /\ Extends(chan', chan)
          /\ \A n \in Node, k \in Link : \A i \in Added(chan', chan, n, k) :
               /\ HopsLeft(0) # 0 /\ n = st /\ k \in ReqDevices(userLink', isGone'[st], st, Null)
               /\ chan'[n][k][i] = TunnelReq(old, HopsLeft(0))
      BY <1>3, <2>2, <3>2, BroadcastExtends
    <3>4. ASSUME NEW k, k \in ReqDevices(userLink', isGone'[st], st, Null) PROVE k = new
      <4>1. /\ k \notin isGone'[st] /\ k \in Isl \cup DOMAIN userLink'
            /\ st \in {EndsOf(userLink', k)[1], EndsOf(userLink', k)[2]}
        BY <3>4 DEF ReqDevices, HasDevice
      <4>2. k \notin Isl
        BY <4>1, IslAssumption, NodeAssumption DEF EndsOf
      <4>3. UserLinksJoin'
        BY <1>6
      <4>4. k \in DOMAIN userLink' /\ st \in {userLink'[k][1], userLink'[k][2]}
        BY <4>1, <4>2 DEF EndsOf
      <4>5. p2pDevice'[st] = k
        BY <1>3, <4>1, <4>3, <4>4 DEF UserLinksJoin
      <4> QED BY <1>3, <1>5, <4>5
    <3>5. HopsLeft(0) # 0 => prt' = [prt EXCEPT ![st][old] = Null]
      BY <2>2 DEF DestinationMark
    <3>6. chan[st][new] \in Seq(Message) /\ new \in Link
      BY <1>3 DEF TypeOK, Link
    <3>7. new \in ReqDevices(userLink', isGone'[st], st, Null) =>
            Len(chan'[st][new]) <= Len(chan[st][new]) + 1
      <4>1. chan'[st][new] \in {chan[st][new], Append(chan[st][new], TunnelReq(old, HopsLeft(0)))}
        BY <1>3, <2>2, <3>2, <3>6 DEF BroadcastReq, Channels
      <4> QED BY <3>6, <4>1
    <3>8. ASSUME NEW i \in Added(chan', chan, st, new),
                 new \in ReqDevices(userLink', isGone'[st], st, Null)
          PROVE  i = Len(chan[st][new]) + 1
      <4>1. chan'[st][new] \in Seq(Message)
        BY <1>3, <3>6 DEF TypeOK
      <4> QED BY <3>6, <3>7, <3>8, <4>1 DEF Added
    <3> QED BY <3>1, <3>3, <3>4, <3>5, <3>8
  <2> QED BY <1>2, <2>1, <2>2
<1>8. ASSUME NEW id \in UserLink, id # old PROVE SameControl(id)
  <2>1. \A n \in Node, l \in Link : \A i \in Added(chan', chan, n, l) :
          ~IsControl(chan'[n][l][i], id)
    BY <1>7, <1>8 DEF IsControl, TunnelReq
  <2> QED BY <1>7, <2>1, NothingSaid
<1>9. \A n \in Node, id \in UserLink : ~(n = st /\ id = old) => prt'[n][id] = prt[n][id]
  <2>1. prt' = prt \/ prt' = [prt EXCEPT ![st][old] = Null]
    BY <1>2 DEF DestinationMark
  <2>2. prt \in [Node -> [UserLink -> Link \cup {Null, Absent}]]
    BY DEF TypeOK
  <2>3. ASSUME NEW n \in Node, NEW id \in UserLink, ~(n = st /\ id = old),
               prt' = [prt EXCEPT ![st][old] = Null]
        PROVE  prt'[n][id] = prt[n][id]
    BY <2>2, <2>3
  <2> QED BY <2>1, <2>3
<1>10. new # old
  BY <1>3, <1>4
<1>11. LinkPlaced(new)'
  BY <1>1, <1>2, <1>3, <1>8, <1>9, <1>10, NewLinkPlaced
<1>12. ASSUME NEW id \in UserLink, id \notin {old, new} PROVE LinkPlaced(id)'
  <2>1. LinkPlaced(id) /\ UserLinksJoin
    BY DEF TunnelInv
  <2>2. /\ \A u \in Station : u # st => p2pDevice'[u] = p2pDevice[u]
        /\ p2pDevice'[st] \notin DOMAIN userLink
    BY <1>3, <1>4, <1>5, NodeAssumption DEF Node
  <2>3. \A n \in Node : /\ prt'[n][id] = prt[n][id] /\ tib'[n][id] = tib[n][id]
                        /\ id \in idList'[n] <=> id \in idList[n]
    BY <1>1, <1>2, <1>9, <1>12 DEF AddUserLink
  <2>4. id \in DOMAIN userLink' => id \in DOMAIN userLink
    BY <1>3, <1>12
  <2> QED BY <1>2, <1>3, <1>8, <1>12, <2>1, <2>2, <2>3, <2>4, OldLinkKept
<1>13. LinkPlaced(old)'
  <2>1. LinkPlaced(old) /\ Fresh(old)
    BY <1>4 DEF TunnelInv, LinkPlaced
  <2>2. /\ Owner(old)' = st /\ Target(old)' = t /\ Up(old)' = new
        /\ old \in DOMAIN userLink'
    BY <1>3, <1>4, <1>5 DEF Owner, Target, Up
  <2>3. \A n \in Node : old \in idList'[n] => n \in {st, t}
    <3>1. \A n \in Node : old \in idList'[n] => old \in idList[n]
      BY <1>1, <1>2, <1>10 DEF AddUserLink
    <3> QED BY <1>4, <2>1, <3>1 DEF LinkPlaced
  <2>4. \A n \in Node : tib'[n][old] = Absent /\ (n # st => prt'[n][old] = Absent)
    BY <1>2, <1>4, <1>9, <2>1 DEF Fresh
  <2>5. ASSUME NEW n \in Node, NEW l \in Link, NEW i \in DOMAIN chan'[n][l],
               IsControl(chan'[n][l][i], old)
        PROVE  i \in Added(chan', chan, n, l)
    <3>1. i \notin DOMAIN chan[n][l] \/ chan'[n][l][i] # chan[n][l][i]
      BY <2>1, <2>5 DEF Fresh, NoControl
    <3>2. chan[n][l] \in Seq(Message) /\ chan'[n][l] \in Seq(Message)
      BY DEF TypeOK
    <3>3. i \notin DOMAIN chan[n][l]
      BY <1>7, <3>1 DEF Extends
    <3> QED BY <3>2, <3>3 DEF Added
  <2>6. ASSUME NEW n \in Node, NEW l \in Link, NEW i \in DOMAIN chan'[n][l],
               IsControl(chan'[n][l][i], old)
        PROVE  ControlPlaced(n, l, i, old, chan[n][l][i])'
    <3>1. n = st /\ l = new /\ i = Len(chan[st][new]) + 1 /\ chan'[n][l][i] = TunnelReq(old, HopLimit)
          /\ prt' = [prt EXCEPT ![st][old] = Null]
      BY <1>7, <2>5, <2>6
    <3>2. prt'[st][old] = Null
      BY <1>3, <1>4, <3>1 DEF TypeOK
    <3>3. OnlyControl(n, l, i, old)'
      BY <1>7, <2>5, <3>1 DEF OnlyControl
    <3>4. FirstReq(n, l, i, old)'
      BY <2>2, <2>4, <3>1, <3>2, <3>3 DEF FirstReq, OwnerWaits
    <3> QED BY <1>2, <1>3, <2>2, <3>1, <3>4 DEF ControlPlaced, ReqPlaced, TunnelReq
  <2> QED BY <1>4, <1>10, <2>2, <2>3, <2>4, <2>6 DEF LinkPlaced
<1> QED BY <1>6, <1>11, <1>12, <1>13 DEF TunnelInv

----------------------------------------------------------------------------
(* Every step keeps TunnelInv, and every entry.                            *)

LEMMA TunnelInit == Init => TunnelInv
<1> SUFFICES ASSUME Init PROVE TunnelInv
  OBVIOUS
<1>1. UserLinksJoin
  BY DEF Init, UserLinksJoin
<1>2. ASSUME NEW id \in UserLink PROVE LinkPlaced(id)
  BY DEF Init, LinkPlaced, Fresh, NoControl
<1> QED BY <1>1, <1>2 DEF TunnelInv

\* Only what concerns link id changes; the other links are not spoken of.
LEMMA OthersKept ==
  ASSUME TypeOK, TypeOK', LossInv, TunnelInv, UNCHANGED linkVars,
         NEW off, NEW c, Rest(off, c), Extends(chan', c), NEW id,
         \A n \in Node, l \in Link : \A i \in Added(chan', c, n, l) :
           chan'[n][l][i].type \in {"TunnelReq", "TunnelAck"} => chan'[n][l][i].id = id,
         \A n \in Node, k \in UserLink : k # id =>
           /\ prt'[n][k] = prt[n][k] /\ tib'[n][k] = tib[n][k]
           /\ k \in idList'[n] <=> k \in idList[n],
         id \in UserLink => LinkPlaced(id)'
  PROVE  TunnelInv'
<1>1. UserLinksJoin /\ UserLinksJoin'
  BY DEF TunnelInv, UserLinksJoin, linkVars
<1>2. ASSUME NEW k \in UserLink, k # id PROVE LinkPlaced(k)'
  <2>1. LinkPlaced(k)
    BY DEF TunnelInv
  <2>2. \A n \in Node, l \in Link : \A i \in Added(chan', c, n, l) : ~IsControl(chan'[n][l][i], k)
    BY <1>2 DEF IsControl
  <2>3. \A n \in Node : /\ prt'[n][k] = prt[n][k] /\ tib'[n][k] = tib[n][k]
                        /\ k \in idList'[n] <=> k \in idList[n]
    BY <1>2
  <2> QED BY <1>1, <2>1, <2>2, <2>3, ControlKept
<1> QED BY <1>1, <1>2 DEF TunnelInv

\* A packet of another kind is emitted, or none; perhaps one was taken.
LEMMA NoControlEmitted ==
  ASSUME TypeOK, TypeOK', LossInv, TunnelInv, UNCHANGED <<linkVars, prt, tib, idList>>,
         NEW off, NEW c, Rest(off, c), Extends(chan', c),
         \A n \in Node, l \in Link : \A i \in Added(chan', c, n, l) :
           chan'[n][l][i].type \notin {"TunnelReq", "TunnelAck"}
  PROVE  TunnelInv'
<1>1. Null \notin UserLink
  BY MarkerAssumption DEF Link
<1> QED BY <1>1, OthersKept

LEMMA SendKeepsTunnels ==
  ASSUME TypeOK, TypeOK', LossInv, TunnelInv, NEW n \in Node, NEW id \in UserLink, DoSend(n, id)
  PROVE  TunnelInv'
<1>1. chan \in Channels /\ Rest(NoneTaken, chan)
  BY RestOfAll DEF TypeOK, Channels
<1>2. UNCHANGED <<linkVars, prt, tib, idList>> /\ CanSend(n, id)
  BY DEF DoSend, SendDirect, SendTunnelled, SendBuffered, shimVars
<1>3. /\ Ndn(NextPacket(n, id)) \in Message /\ LinkPayload(NextPacket(n, id)) \in Message
  BY <1>2, SendType, MessageKinds
<1>4. \/ chan' = chan
      \/ \E l, msg : msg \in Message /\ msg.type \in {"Ndn", "LinkPayload"}
                     /\ chan' = Emit(chan, n, l, <<msg>>)
  BY <1>3 DEF DoSend, SendDirect, SendTunnelled, SendBuffered, Ndn, LinkPayload
<1>5. /\ Extends(chan', chan)
      /\ \A x \in Node, k \in Link : \A i \in Added(chan', chan, x, k) :
           chan'[x][k][i].type \notin {"TunnelReq", "TunnelAck"}
  <2>1. CASE chan' = chan
    BY <1>1, <2>1 DEF Extends, Added, Channels
  <2>2. ASSUME NEW l, NEW msg \in Message, msg.type \in {"Ndn", "LinkPayload"},
               chan' = Emit(chan, n, l, <<msg>>)
        PROVE  /\ Extends(chan', chan)
               /\ \A x \in Node, k \in Link : \A i \in Added(chan', chan, x, k) :
                    chan'[x][k][i].type \notin {"TunnelReq", "TunnelAck"}
    BY <1>1, <2>2, EmitOneExtends
  <2> QED BY <1>4, <2>1, <2>2
<1> QED BY <1>1, <1>2, <1>5, NoControlEmitted

LEMMA ReceiveKeepsTunnels ==
  ASSUME TypeOK, TypeOK', LossInv, TunnelInv, HopLimit <= 3,
         NEW n \in Node, NEW l \in Link, Receive(n, l)
  PROVE  TunnelInv'
<1>1. ASSUME NEW t, Arrives(n, l, t), chan' = Received(n, l), UNCHANGED <<linkVars, prt, tib, idList>>
      PROVE  TunnelInv'
  <2>1. Rest(OneTaken(Peer(n, l), l), Received(n, l)) /\ Received(n, l) \in Channels
    BY <1>1, RestOfReceived, ArrivalType
  <2>2. Extends(chan', Received(n, l))
        /\ \A x \in Node, k \in Link : Added(chan', Received(n, l), x, k) = {}
    BY <1>1, <2>1 DEF Extends, Added, Channels
  <2> QED BY <1>1, <2>1, <2>2, NoControlEmitted
<1>2. CASE \/ ReceiveNdn(n, l) \/ ReqLoop(n, l) \/ AckUnsolicited(n, l)
           \/ PayloadDiscarded(n, l) \/ PayloadHandedUp(n, l)
  BY <1>1, <1>2 DEF ReceiveNdn, ReqLoop, AckUnsolicited, PayloadArrives, PayloadDiscarded, PayloadHandedUp, shimVars
<1>3. CASE PayloadRelayed(n, l)
  <2>1. PICK m, c, dev :
          /\ m \in Message /\ c \in Channels
          /\ m.type = "LinkPayload" /\ c = Received(n, l) /\ Arrives(n, l, "LinkPayload")
          /\ chan' = Emit(c, n, dev, <<m>>)
    BY <1>3, ArrivalType DEF PayloadRelayed, PayloadArrives
  <2>2. Rest(OneTaken(Peer(n, l), l), c)
    BY <2>1, RestOfReceived
  <2>3. /\ Extends(chan', c)
        /\ \A x \in Node, k \in Link : \A i \in Added(chan', c, x, k) :
             chan'[x][k][i].type \notin {"TunnelReq", "TunnelAck"}
    BY <2>1, EmitOneExtends
  <2>4. UNCHANGED <<linkVars, prt, tib, idList>>
    BY <1>3 DEF PayloadRelayed, shimVars
  <2> QED BY <2>2, <2>3, <2>4, NoControlEmitted
<1>4. ASSUME NEW t \in {"TunnelReq", "TunnelAck"}, Arrives(n, l, t)
      PROVE  /\ Arriving(n, l) \in Message /\ Arriving(n, l).type = t
             /\ Arriving(n, l).id \in UserLink
             /\ Rest(OneTaken(Peer(n, l), l), Received(n, l)) /\ Received(n, l) \in Channels
  BY <1>4, ArrivalType, RestOfReceived, MessageFields
<1>5. CASE ReqAtTarget(n, l)
  <2>1. PICK id \in UserLink, c \in Channels : id = Arriving(n, l).id /\ c = Received(n, l)
    BY <1>4, <1>5 DEF ReqAtTarget
  <2>2. /\ UNCHANGED <<linkVars, prt>> /\ tib' = [tib EXCEPT ![n][id] = <<Null, l>>]
        /\ chan' = Emit(c, n, l, Answer(n, id)) /\ idList' = [idList EXCEPT ![n] = @ \ {id}]
        /\ Rest(OneTaken(Peer(n, l), l), c)
    BY <1>4, <1>5, <2>1 DEF ReqAtTarget, TargetEntry, TargetErased
  <2>3. PICK a \in Seq(Message) :
          /\ a = Answer(n, id)
          /\ \A i \in DOMAIN a : a[i].type \in {"TunnelReq", "TunnelAck"} => a[i].id = id
    BY AnswerShape DEF TunnelAck, LinkPayload
  <2>4. /\ Extends(chan', c)
        /\ \A x \in Node, k \in Link : \A i \in Added(chan', c, x, k) :
             chan'[x][k][i].type \in {"TunnelReq", "TunnelAck"} => chan'[x][k][i].id = id
    BY <2>2, <2>3, EmitExtends
  <2>5. \A x \in Node, k \in UserLink : k # id =>
          /\ prt'[x][k] = prt[x][k] /\ tib'[x][k] = tib[x][k]
          /\ k \in idList'[x] <=> k \in idList[x]
    <3>1. tib \in [Node -> [UserLink -> ((Link \cup {Null}) \X (Link \cup {Null})) \cup {Absent}]]
          /\ idList \in [Node -> SUBSET UserLink]
      BY DEF TypeOK
    <3>2. \A x \in Node, k \in UserLink : k # id => tib'[x][k] = tib[x][k]
      BY <2>2, <3>1
    <3>3. \A x \in Node, k \in UserLink : k # id => (k \in idList'[x] <=> k \in idList[x])
      BY <2>2, <3>1
    <3> QED BY <2>2, <3>2, <3>3
  <2>6. LinkPlaced(id)'
    BY <1>5, <2>1, TargetAnswers
  <2> QED BY <2>2, <2>4, <2>5, <2>6, OthersKept
<1>6. CASE AckTaken(n, l)
  <2>1. PICK id, c, m, r :
          /\ id \in UserLink /\ c \in Channels /\ m \in Message
          /\ m = Arriving(n, l) /\ id = m.id /\ c = Received(n, l) /\ r = prt[n][id]
    BY <1>4, <1>6 DEF AckTaken
  <2>2. /\ UNCHANGED <<linkVars, idList>> /\ tib' = [tib EXCEPT ![n][id] = <<l, r>>]
        /\ prt' = [prt EXCEPT ![n][id] = Absent]
        /\ chan' = IF r = Null THEN c ELSE Emit(c, n, r, <<m>>)
        /\ Rest(OneTaken(Peer(n, l), l), c)
    BY <1>4, <1>6, <2>1 DEF AckTaken, RelayEntry
  <2>3. /\ Extends(chan', c)
        /\ \A x \in Node, k \in Link : \A i \in Added(chan', c, x, k) : chan'[x][k][i].id = id
    <3>1. CASE r = Null
      BY <2>2, <3>1 DEF Extends, Added, Channels
    <3>2. CASE r # Null
      BY <2>1, <2>2, <3>2, EmitOneExtends
    <3> QED BY <3>1, <3>2
  <2>4. \A x \in Node, k \in UserLink : k # id =>
          /\ prt'[x][k] = prt[x][k] /\ tib'[x][k] = tib[x][k]
          /\ k \in idList'[x] <=> k \in idList[x]
    <3>1. \A x \in Node, k \in UserLink : k # id => prt'[x][k] = prt[x][k]
      BY <2>1, <2>2, Typed, CellChanged
    <3>2. \A x \in Node, k \in UserLink : k # id => tib'[x][k] = tib[x][k]
      BY <2>1, <2>2, Typed, CellChanged
    <3> QED BY <2>2, <3>1, <3>2
  <2>5. LinkPlaced(id)'
    BY <1>6, <2>1, AckPassedOn
  <2> QED BY <2>2, <2>3, <2>4, <2>5, OthersKept
<1>7. CASE ReqRelay(n, l)
  <2>1. PICK id, c, h :
          /\ id \in UserLink /\ c \in Channels
          /\ id = Arriving(n, l).id /\ h = Arriving(n, l).hopLimit /\ c = Received(n, l)
    BY <1>4, <1>7 DEF ReqRelay
  <2>2. /\ UNCHANGED <<linkVars, idList, tib>> /\ prt' = [prt EXCEPT ![n][id] = l]
        /\ chan' = BroadcastReq(c, userLink, isGone[n], n, id, h, l)
        /\ Rest(OneTaken(Peer(n, l), l), c)
    BY <1>4, <1>7, <2>1 DEF ReqRelay, Pending
  <2>3. /\ Extends(chan', c)
        /\ \A x \in Node, k \in Link : \A i \in Added(chan', c, x, k) : chan'[x][k][i].id = id
    <3>1. /\ Extends(chan', c)
          /\ \A x \in Node, k \in Link : \A i \in Added(chan', c, x, k) :
               chan'[x][k][i] = TunnelReq(id, HopsLeft(h))
      BY <2>1, <2>2, BroadcastExtends
    <3> QED BY <3>1 DEF TunnelReq
  <2>4. \A x \in Node, k \in UserLink : k # id =>
          /\ prt'[x][k] = prt[x][k] /\ tib'[x][k] = tib[x][k]
          /\ k \in idList'[x] <=> k \in idList[x]
    <3>1. \A x \in Node, k \in UserLink : k # id => prt'[x][k] = prt[x][k]
      BY <2>1, <2>2, Typed, CellChanged
    <3> QED BY <2>2, <3>1
  <2>5. LinkPlaced(id)'
    BY <1>7, <2>1, RequestSpreads
  <2> QED BY <2>2, <2>3, <2>4, <2>5, OthersKept
<1> QED BY <1>2, <1>3, <1>5, <1>6, <1>7 DEF Receive, ProcessPacket, ProcessAck

LEMMA TunnelStep ==
  HopLimit <= 3 /\ TypeOK /\ LossInv /\ TunnelInv /\ [Next]_vars => TunnelInv'
<1> SUFFICES ASSUME HopLimit <= 3, TypeOK, LossInv, TunnelInv, [Next]_vars PROVE TunnelInv'
  OBVIOUS
<1>1. TypeOK'
  BY TypeStep
<1>2. CASE UpdateStart
  BY <1>1, <1>2, TodoChanged DEF UpdateStart
<1>3. ASSUME NEW st \in Station, Stay(st) PROVE TunnelInv'
  <2>1. todo' \subseteq todo /\ UNCHANGED <<userLink, p2pDevice, isGone, shimVars, chan>>
    BY <1>3 DEF Stay
  <2> QED BY <1>1, <2>1, TodoChanged
<1>4. CASE UNCHANGED vars
  <2>1. todo' \subseteq todo /\ UNCHANGED <<userLink, p2pDevice, isGone, shimVars, chan>>
    BY <1>4 DEF vars, linkVars
  <2> QED BY <1>1, <2>1, TodoChanged
<1> QED
  BY <1>1, <1>2, <1>3, <1>4, StationLeaves, StationEnters, StationMoves,
     SendKeepsTunnels, ReceiveKeepsTunnels DEF Next, UpdateStation

LEMMA EntriesKept ==
  TypeOK /\ TypeOK' /\ LossInv /\ TunnelInv /\ [Next]_vars
    => \A n \in Node, id \in UserLink : tib[n][id] # Absent => tib'[n][id] = tib[n][id]
<1> SUFFICES ASSUME TypeOK, TypeOK', LossInv, TunnelInv, [Next]_vars,
                    NEW x \in Node, NEW k \in UserLink, tib[x][k] # Absent
             PROVE  tib'[x][k] = tib[x][k]
  OBVIOUS
<1>1. ASSUME NEW n \in Node, NEW l \in Link, ReqAtTarget(n, l) PROVE tib'[x][k] = tib[x][k]
  <2>1. PICK id : id = Arriving(n, l).id
    OBVIOUS
  <2>2. id # k
    BY <1>1, <2>1, TargetAnswers
  <2> QED BY <1>1, <2>1, <2>2 DEF ReqAtTarget, TypeOK
<1>2. ASSUME NEW n \in Node, NEW l \in Link, AckTaken(n, l) PROVE tib'[x][k] = tib[x][k]
  <2>1. PICK id : id = Arriving(n, l).id
    OBVIOUS
  <2>2. ~(id = k /\ n = x)
    BY <1>2, <2>1, AckPassedOn DEF AckFindsWay
  <2> QED BY <1>2, <2>1, <2>2 DEF AckTaken, TypeOK
<1>3. \/ UNCHANGED tib
      \/ \E n \in Node, l \in Link : ReqAtTarget(n, l) \/ AckTaken(n, l)
  <2>1. CASE UNCHANGED vars \/ UpdateStart
    BY <2>1 DEF vars, shimVars, UpdateStart
  <2>2. ASSUME NEW st \in Station, UpdateStation(st) PROVE UNCHANGED tib
    <3>1. CASE Stay(st) \/ Leave(st)
      BY <3>1 DEF Stay, Leave, shimVars
    <3>2. ASSUME NEW s \in Sat, Enter(st, s) \/ Move(st, s) PROVE UNCHANGED tib
      BY <3>2 DEF Enter, Move
    <3> QED BY <2>2, <3>1, <3>2 DEF UpdateStation
  <2>3. ASSUME NEW n \in Node, NEW id \in UserLink, DoSend(n, id) PROVE UNCHANGED tib
    BY <2>3 DEF DoSend, SendDirect, SendTunnelled, SendBuffered, shimVars
  <2>4. ASSUME NEW n \in Node, NEW l \in Link, Receive(n, l)
        PROVE  UNCHANGED tib \/ ReqAtTarget(n, l) \/ AckTaken(n, l)
    <3>1. ReceiveNdn(n, l) => UNCHANGED tib
      BY DEF ReceiveNdn, shimVars
    <3>2. ReqLoop(n, l) \/ ReqRelay(n, l) \/ AckUnsolicited(n, l) => UNCHANGED tib
      BY DEF ReqLoop, ReqRelay, AckUnsolicited, shimVars
    <3>3. PayloadDiscarded(n, l) \/ PayloadHandedUp(n, l) \/ PayloadRelayed(n, l) => UNCHANGED tib
      BY DEF PayloadDiscarded, PayloadHandedUp, PayloadRelayed, shimVars
    <3> QED BY <2>4, <3>1, <3>2, <3>3 DEF Receive, ProcessPacket, ProcessAck
  <2> QED BY <2>1, <2>2, <2>3, <2>4 DEF Next
<1> QED BY <1>1, <1>2, <1>3

\* A TIB entry is never overwritten or dropped: when a hop limit of at most 3
\* keeps the request among the neighbours of the new access satellite, late
\* requests, acks and later handovers leave the entries of a tunnel alone.
THEOREM TunnelsStay == HopLimit <= 3 => (Spec => TunnelNeverRerouted)
<1> SUFFICES ASSUME HopLimit <= 3 PROVE Spec => TunnelNeverRerouted
  OBVIOUS
<1>1. TypeOK /\ LossInv /\ TunnelInv /\ [Next]_vars => (TypeOK /\ LossInv /\ TunnelInv)'
  BY TypeStep, LossStep, TunnelStep
<1>2. TypeOK /\ TypeOK' /\ LossInv /\ TunnelInv /\ [Next]_vars
        => [\A n \in Node, id \in UserLink : tib[n][id] # Absent => tib'[n][id] = tib[n][id]]_vars
  BY EntriesKept
<1> QED BY <1>1, <1>2, InitType, LossInit, TunnelInit, PTL DEF Spec, TunnelNeverRerouted

\* An ack comes to nodes that expect it, so that ProcessPacket never discards
\* it: it is the answer to the only copy of the request that is answered, and
\* goes by the PRT entries that the copy has left on its way.
LEMMA AckExpected ==
  ASSUME TypeOK, LossInv, TunnelInv, NEW n \in Node, NEW l \in Link, Arrives(n, l, "TunnelAck"),
         NEW id, id = Arriving(n, l).id
  PROVE  prt[n][id] # Absent
<1>1. PICK q, m : q = Peer(n, l) /\ m = Arriving(n, l)
  OBVIOUS
<1>2. /\ m.type = "TunnelAck" /\ ControlPlaced(q, l, 1, id, m) /\ Peer(q, l) = n
      /\ id \in DOMAIN userLink /\ Up(id) # Null
  BY <1>1, ArrivalPlaced
<1>3. AckFindsWay(n, id)
  BY <1>2 DEF ControlPlaced, AckPlaced
<1>4. Up(id) \in Link
  BY <1>2, UpJoins DEF TunnelInv
<1>5. HasDevice(userLink, n, prt[n][id]) => prt[n][id] \in Link
  BY PeerOfPeer
<1> QED BY <1>3, <1>4, <1>5, MarkerAssumption DEF AckFindsWay, OwnerWaits, AccessWaits, RelaysToAccess

THEOREM AcksSolicited == HopLimit <= 3 => (Spec => []AckSolicited)
<1> SUFFICES ASSUME HopLimit <= 3 PROVE Spec => []AckSolicited
  OBVIOUS
<1>1. TypeOK /\ LossInv /\ TunnelInv /\ [Next]_vars => (TypeOK /\ LossInv /\ TunnelInv)'
  BY TypeStep, LossStep, TunnelStep
<1>2. TypeOK /\ LossInv /\ TunnelInv => AckSolicited
  BY AckExpected DEF AckSolicited
<1> QED BY <1>1, <1>2, InitType, LossInit, TunnelInit, PTL DEF Spec
=============================================================================
