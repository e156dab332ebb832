----------------------------- MODULE Kite_proofs -----------------------------
(***************************************************************************)
(* Proof that the traces of the last request form a path from the RV to    *)
(* the producer once it has the Ack, for every network, number of requests *)
(* and of Interests.                                                       *)
(*                                                                         *)
(* A request is under way at one place, on its way up or, as an Ack, down. *)
(* Requests do not overtake each other, so that a node never announces an  *)
(* older one after a newer; and the Ack leaves a trace on each link it     *)
(* takes.                                                                  *)
(***************************************************************************)
EXTENDS Kite, FiniteSetTheorems, SequenceTheorems, TLAPS

----------------------------------------------------------------------------
(* The inductive invariant.                                                *)

Depth == CHOOSE depth \in Depths : TRUE

\* The access satellite from which request k goes: only the last one is sent
\* after the producer has moved.
AccessOf(k) == IF k = MaxRequest THEN NewSat ELSE OldSat

\* Request k goes from b up to u, and its Ack down again.
Climbs(u, b, k) ==
  /\ u \in Inner /\ Depth[u] <= Depth[AccessOf(k)]
  /\ \/ b = Producer /\ u = AccessOf(k)
     \/ b \in Inner \ {Rv} /\ u = Up[b] /\ Depth[b] <= Depth[AccessOf(k)]

\* A request or an Ack under way.
IsToken(s) == s.packet.type \in {"request", "ack"}
Number(s) == s.packet.request
Upper(s) == IF s.packet.type = "request" THEN s.link[2] ELSE s.link[1]
Lower(s) == IF s.packet.type = "request" THEN s.link[1] ELSE s.link[2]

\* How far it has come, on the way up and down again: it grows, and it is
\* negative on the way up.
Place(s) == IF s.packet.type = "request" THEN 0 - (Depth[Upper(s)] + 1) ELSE Depth[Upper(s)] + 1

TokenFits(s) ==
  /\ s \in [link : Node \X Node, packet : RequestMessage]
  /\ Number(s) \in acked + 1 .. requests
  /\ Climbs(Upper(s), Lower(s), Number(s))

IsInterest(m) == \E x, h : m = [type |-> "interest", nonce |-> x, hint |-> h]
PacketFits(s) ==
  \/ IsToken(s) /\ TokenFits(s)
  \/ s.packet.type \in {"data", "nack"} \/ IsInterest(s.packet)
IsAir(q) == \E S : q \in Seq(S)
AirFits ==
  /\ IsAir(air)
  /\ \A i \in DOMAIN air : \A s \in air[i] : PacketFits(s)

\* One request is in one place, and one sent later is not as far, or behind it.
Alone ==
  \A i, j \in DOMAIN air : \A s \in air[i], t \in air[j] :
    IsToken(s) /\ IsToken(t) /\ Number(s) = Number(t) => i = j /\ s = t
InOrder ==
  \A i, j \in DOMAIN air : \A s \in air[i], t \in air[j] :
    IsToken(s) /\ IsToken(t) /\ Number(s) < Number(t) =>
      Place(s) > Place(t) \/ (Place(s) = Place(t) /\ i < j)

\* The in-records are of requests that have passed.
RecordFits(n, r) ==
  /\ r.request \in 1..requests
  /\ IF n = Producer THEN r.face = App ELSE n # Rv /\ Climbs(n, r.face, r.request)
RecordsFit ==
  \A n \in Node : \A r \in asking[n] :
    /\ RecordFits(n, r)
    /\ \A q \in asking[n] : q.request = r.request => q = r
HasPassed ==
  \A n \in Inner : \A r \in asking[n] : \A i \in DOMAIN air : \A s \in air[i] :
    IsToken(s) /\ Number(s) = r.request => Place(s) > 0 - (Depth[n] + 1)

\* Announcements and traces.
IsAnnouncement(a) ==
  a = [node |-> a.node, from |-> a.from, face |-> a.face, request |-> a.request, stage |-> a.stage]
TraceFits ==
  /\ DOMAIN traces = Node /\ \A n \in Node : \A f \in DOMAIN traces[n] : traces[n][f] \in 1..requests
  /\ \A a \in announced : IsAnnouncement(a) /\ a.node \in Node /\ a.request \in 1..requests

\* A node has announced request k: the earlier ones have gone further down, and
\* when the trace is there, their announcements have been taken.
HasAnnounced(n, k) ==
  \/ \E a \in announced : a.node = n /\ a.request = k
  \/ \E f \in DOMAIN traces[n] : traces[n][f] = k
EarlierGone ==
  \A n \in Inner, k \in Request : HasAnnounced(n, k) =>
    \A i \in DOMAIN air : \A s \in air[i] : IsToken(s) /\ Number(s) < k => Place(s) > Depth[n]
NewestTraced ==
  \A n \in Inner : \A f \in DOMAIN traces[n] : \A a \in announced :
    a.node = n => a.request >= traces[n][f]

\* Behind the Ack of the last request is a trace on each link.
AckTraces ==
  \A i \in DOMAIN air : \A s \in air[i] :
    s.packet.type = "ack" /\ Number(s) = requests =>
      HasTrace(Upper(s), Lower(s), requests) /\ TracedUp(Upper(s), requests)
LastTraced ==
  acked = requests /\ acked > 0 =>
    HasTrace(AccessOf(acked), Producer, acked) /\ TracedUp(AccessOf(acked), acked)

CountsFit ==
  /\ associations \in Nat /\ requests \in Nat /\ acked \in 0..requests /\ moved \in BOOLEAN
  /\ IF moved THEN requests + associations = MaxRequest /\ acked >= MaxRequest - 1
     ELSE requests + associations <= MaxRequest - 1

KiteInv ==
  /\ CountsFit /\ AirFits /\ Alone /\ InOrder
  /\ DOMAIN asking = Node /\ RecordsFit /\ HasPassed
  /\ TraceFits /\ EarlierGone /\ NewestTraced /\ AckTraces /\ LastTraced

----------------------------------------------------------------------------
(* The network.                                                            *)

LEMMA DepthFacts ==
  /\ Depth \in [Inner -> Nat] /\ Depth[Rv] = 0
  /\ \A n \in Inner \ {Rv} : Up[n] \in Inner /\ Depth[n] = Depth[Up[n]] + 1
  /\ {Rv, OldSat, NewSat} \subseteq Inner /\ Inner \subseteq Node /\ Producer \notin Inner
  /\ \A k : AccessOf(k) \in Inner
<1>1. Depth \in Depths
  BY RouteAssumption DEF Depth
<1>2. Cardinality(Node) \in Nat
  BY PlaceAssumption, FS_CardinalityType
<1> QED BY <1>1, <1>2, PlaceAssumption DEF Depths, IsDepth, Inner, AccessOf

\* What has the path above n, and n itself, has the path of n.
LEMMA AncestorsStep ==
  ASSUME NEW n \in Inner
  PROVE  /\ Ancestors(n) \subseteq Inner
         /\ n = Rv => Ancestors(n) \subseteq {Rv}
         /\ n # Rv => Ancestors(n) \subseteq {n} \cup Ancestors(Up[n])
<1>1. Ancestors(n) \subseteq Inner
  BY DEF Ancestors
<1>2. ASSUME n = Rv PROVE Ancestors(n) \subseteq {Rv}
  <2>1. {Rv} \in SUBSET Inner /\ n \in {Rv} /\ \A x \in {Rv} \ {Rv} : Up[x] \in {Rv}
    BY <1>2, DepthFacts
  <2> QED BY <2>1 DEF Ancestors
<1>3. ASSUME n # Rv PROVE Ancestors(n) \subseteq {n} \cup Ancestors(Up[n])
  <2> DEFINE T == {n} \cup Ancestors(Up[n])
  <2>1. Up[n] \in Ancestors(Up[n])
    BY <1>3, DepthFacts DEF Ancestors
  <2>2. ASSUME NEW x \in Ancestors(Up[n]) \ {Rv} PROVE Up[x] \in Ancestors(Up[n])
    BY DepthFacts DEF Ancestors
  <2>3. T \in SUBSET Inner /\ n \in T /\ \A x \in T \ {Rv} : Up[x] \in T
    BY <2>1, <2>2 DEF Ancestors
  <2> HIDE DEF T
  <2>4. Ancestors(n) \subseteq T
    BY <2>3 DEF Ancestors
  <2> QED BY <2>4 DEF T
<1> QED BY <1>1, <1>2, <1>3

LEMMA TracedOneMore ==
  ASSUME NEW n \in Inner, NEW k,
         n # Rv => HasTrace(Up[n], n, k) /\ TracedUp(Up[n], k)
  PROVE  TracedUp(n, k)
BY AncestorsStep DEF TracedUp

LEMMA TokenPlace ==
  ASSUME NEW s, IsToken(s), TokenFits(s)
  PROVE  /\ Place(s) \in Int /\ Number(s) \in Nat
         /\ Upper(s) \in Inner
         /\ s.packet.type \in {"request", "ack"}
         /\ s.packet.type = "request" => s.link = <<Lower(s), Upper(s)>> /\ Place(s) = 0 - (Depth[Upper(s)] + 1)
         /\ s.packet.type = "ack" => s.link = <<Upper(s), Lower(s)>> /\ Place(s) = Depth[Upper(s)] + 1
<1>1. /\ Upper(s) \in Inner /\ Depth[Upper(s)] \in Nat
      /\ s \in [link : Node \X Node, packet : RequestMessage]
  BY DepthFacts DEF TokenFits, Climbs
<1>2. Number(s) \in Nat
  BY <1>1, RequestAssumption DEF RequestMessage, Number, Request
<1> QED BY <1>1, <1>2 DEF IsToken, Place, Upper, Lower

----------------------------------------------------------------------------
(* Packets on their way.                                                   *)

SentBy(n, sends) ==
  {[link |-> <<n, f>>, packet |-> sends[f]] : f \in {g \in DOMAIN sends \ {App} : ~F!Gone(<<n, g>>)}}

IsTaken(took) == took \in {None, App} \/ (air # <<>> /\ took \in Head(air))

\* In the air are packets that were there, but the one taken, in the same order,
\* and behind them those sent.
AirGives(took, sent) ==
  \E d \in {0, 1}, z \in Nat : \A i \in DOMAIN air' : \A s \in air'[i] :
    \/ i <= z /\ i + d \in DOMAIN air /\ s \in air[i + d]
       /\ (i + d = 1 /\ took \notin {None, App} => s # took)
    \/ i = z + 1 /\ s \in sent

LEMMA LeftGives ==
  ASSUME IsAir(air), NEW took, IsTaken(took)
  PROVE  /\ IsAir(F!Left(took))
         /\ \E d \in {0, 1} : \A i \in DOMAIN F!Left(took) : \A s \in F!Left(took)[i] :
              /\ i + d \in DOMAIN air /\ s \in air[i + d]
              /\ i + d = 1 /\ took \notin {None, App} => s # took
<1>1. PICK S : air \in Seq(S)
  BY DEF IsAir
<1>2. CASE took \in {None, App}
  <2>1. F!Left(took) = air
    BY <1>2 DEF F!Left
  <2>2. \A i \in DOMAIN air : i + 0 = i
    BY <1>1
  <2> QED BY <1>1, <1>2, <2>1, <2>2 DEF IsAir
<1>3. CASE took \notin {None, App} /\ Head(air) = {took}
  <2>1. F!Left(took) = Tail(air) /\ air # <<>>
    BY <1>3 DEF F!Left, IsTaken
  <2>2. Tail(air) \in Seq(S) /\ \A i \in DOMAIN Tail(air) : i + 1 \in DOMAIN air /\ i + 1 # 1 /\ Tail(air)[i] = air[i + 1]
    BY <1>1, <2>1
  <2> QED BY <2>1, <2>2 DEF IsAir
<1>4. CASE took \notin {None, App} /\ Head(air) # {took}
  <2> DEFINE left == [air EXCEPT ![1] = @ \ {took}]
  <2>1. F!Left(took) = left /\ air # <<>>
    BY <1>4 DEF F!Left, IsTaken
  <2>2. left \in Seq(S \cup {air[1] \ {took}})
    BY <1>1, <2>1
  <2>3. DOMAIN left = DOMAIN air /\ \A i \in DOMAIN air : i + 0 = i /\ left[i] \subseteq air[i] /\ (i = 1 => took \notin left[i])
    BY <1>1
  <2> HIDE DEF left
  <2> QED BY <1>4, <2>1, <2>2, <2>3 DEF IsAir
<1> QED BY <1>2, <1>3, <1>4

LEMMA HandleGives ==
  ASSUME IsAir(air), NEW took, IsTaken(took), NEW n, NEW entry, NEW sends,
         F!Handle(n, took, entry, sends)
  PROVE  IsAir(air') /\ AirGives(took, SentBy(n, sends))
<1> DEFINE left == F!Left(took)
           sent == SentBy(n, sends)
<1>1. air' = IF sent = {} THEN left ELSE Append(left, sent)
  BY DEF F!Handle, SentBy
<1>2. PICK S : left \in Seq(S)
  BY LeftGives DEF IsAir
<1>3. PICK d \in {0, 1} : \A i \in DOMAIN left : \A s \in left[i] :
        i + d \in DOMAIN air /\ s \in air[i + d] /\ (i + d = 1 /\ took \notin {None, App} => s # took)
  BY LeftGives
<1> HIDE DEF left, sent
<1>4. CASE sent = {}
  <2>1. air' = left /\ Len(left) \in Nat /\ \A i \in DOMAIN left : i <= Len(left)
    BY <1>1, <1>2, <1>4
  <2> QED BY <1>2, <1>3, <2>1 DEF IsAir, AirGives
<1>5. CASE sent # {}
  <2>1. air' = Append(left, sent) /\ Len(left) \in Nat
    BY <1>1, <1>2, <1>5
  <2>2. air' \in Seq(S \cup {sent})
    BY <1>2, <2>1
  <2>3. ASSUME NEW i \in DOMAIN air'
        PROVE  \/ i \in DOMAIN left /\ air'[i] = left[i] /\ i <= Len(left)
               \/ i = Len(left) + 1 /\ air'[i] = sent
    <3>1. i \in 1..Len(left) + 1
      BY <1>2, <2>1
    <3> QED BY <1>2, <2>1, <3>1
  <2>4. \A i \in DOMAIN air' : \A s \in air'[i] :
          \/ i <= Len(left) /\ i + d \in DOMAIN air /\ s \in air[i + d]
             /\ (i + d = 1 /\ took \notin {None, App} => s # took)
          \/ i = Len(left) + 1 /\ s \in sent
    BY <1>3, <2>3
  <2>5. AirGives(took, sent)
    BY <2>1, <2>4 DEF AirGives
  <2> QED BY <2>2, <2>5 DEF IsAir, sent
<1> QED BY <1>4, <1>5

\* Those of the name: Interests, Data and Nacks.
IsOther(m) == m.type \in {"data", "nack"} \/ IsInterest(m)
OnlyThins ==
  /\ IsAir(air')
  /\ \E d \in {0, 1} : \A i \in DOMAIN air' : \A s \in air'[i] :
       (IsToken(s) /\ i + d \in DOMAIN air /\ s \in air[i + d]) \/ IsOther(s.packet)

LEMMA OthersAreNoTokens ==
  ASSUME NEW s, IsOther(s.packet)
  PROVE  ~IsToken(s)
<1>1. CASE IsInterest(s.packet)
  <2>1. PICK x, h : s.packet = [type |-> "interest", nonce |-> x, hint |-> h]
    BY <1>1 DEF IsInterest
  <2>2. s.packet.type = "interest"
    BY <2>1
  <2> QED BY <2>2 DEF IsToken
<1>2. CASE s.packet.type \in {"data", "nack"}
  BY <1>2 DEF IsToken
<1> QED BY <1>1, <1>2 DEF IsOther

LEMMA AirStays ==
  ASSUME AirFits, air' = air
  PROVE  OnlyThins
<1>1. \A i \in DOMAIN air' : \A s \in air'[i] :
        (IsToken(s) /\ i + 0 \in DOMAIN air /\ s \in air[i + 0]) \/ IsOther(s.packet)
  BY DEF AirFits, IsAir, PacketFits, IsOther
<1> QED BY <1>1 DEF OnlyThins, AirFits

LEMMA OthersSent ==
  ASSUME AirFits, NEW took, IsTaken(took), NEW n, NEW entry, NEW sends,
         F!Handle(n, took, entry, sends), \A f \in DOMAIN sends \ {App} : IsOther(sends[f])
  PROVE  OnlyThins
<1>1. IsAir(air') /\ AirGives(took, SentBy(n, sends))
  BY HandleGives DEF AirFits
<1>2. ASSUME NEW s \in SentBy(n, sends) PROVE IsOther(s.packet)
  <2>1. PICK f \in DOMAIN sends \ {App} : s = [link |-> <<n, f>>, packet |-> sends[f]]
    BY DEF SentBy
  <2>2. s.packet = sends[f]
    BY <2>1
  <2> QED BY <2>2
<1>3. PICK d \in {0, 1}, z \in Nat : \A i \in DOMAIN air' : \A s \in air'[i] :
        (i + d \in DOMAIN air /\ s \in air[i + d]) \/ s \in SentBy(n, sends)
  BY <1>1 DEF AirGives
<1>4. \A i \in DOMAIN air' : \A s \in air'[i] :
        (IsToken(s) /\ i + d \in DOMAIN air /\ s \in air[i + d]) \/ IsOther(s.packet)
  BY <1>2, <1>3 DEF AirFits, PacketFits, IsOther
<1> QED BY <1>1, <1>4 DEF OnlyThins

\* A step in which no request or Ack moves.
LEMMA StandStill ==
  ASSUME KiteInv, OnlyThins, CountsFit', UNCHANGED <<requests, acked, asking>>,
         TraceFits', NewestTraced',
         \A n \in Inner, k \in Request : HasAnnounced(n, k)' => HasAnnounced(n, k),
         \A n \in Inner : \A f : HasTrace(n, f, requests) => HasTrace(n, f, requests)'
  PROVE  KiteInv'
<1>1. PICK d \in {0, 1} : \A i \in DOMAIN air' : \A s \in air'[i] :
        (IsToken(s) /\ i + d \in DOMAIN air /\ s \in air[i + d]) \/ IsOther(s.packet)
  BY DEF OnlyThins
<1>2. \A i \in DOMAIN air' : i \in Nat
  BY DEF OnlyThins, IsAir
<1>3. \A i \in DOMAIN air' : \A s \in air'[i] : IsToken(s) => i + d \in DOMAIN air /\ s \in air[i + d]
  BY <1>1, OthersAreNoTokens
<1>4. AirFits'
  <2>1. ASSUME NEW i \in DOMAIN air', NEW s \in air'[i] PROVE PacketFits(s)'
    <3>1. CASE IsToken(s)
      <4>1. PacketFits(s)
        BY <1>3, <3>1 DEF KiteInv, AirFits
      <4>2. TokenFits(s)
        BY <3>1, <4>1, OthersAreNoTokens DEF PacketFits, IsOther
      <4> QED BY <3>1, <4>2 DEF PacketFits, TokenFits
    <3>2. CASE IsOther(s.packet)
      BY <3>2 DEF PacketFits, IsOther
    <3> QED BY <1>1, <3>1, <3>2
  <2> QED BY <2>1 DEF AirFits, OnlyThins
<1>5. Alone'
  <2> SUFFICES ASSUME NEW i \in DOMAIN air', NEW j \in DOMAIN air', NEW s \in air'[i], NEW t \in air'[j],
                      IsToken(s), IsToken(t), Number(s) = Number(t)
               PROVE  i = j /\ s = t
    BY DEF Alone
  <2>1. i + d = j + d /\ s = t
    BY <1>3 DEF KiteInv, Alone
  <2> QED BY <1>2, <2>1
<1>6. InOrder'
  <2> SUFFICES ASSUME NEW i \in DOMAIN air', NEW j \in DOMAIN air', NEW s \in air'[i], NEW t \in air'[j],
                      IsToken(s), IsToken(t), Number(s) < Number(t)
               PROVE  Place(s) > Place(t) \/ (Place(s) = Place(t) /\ i < j)
    BY DEF InOrder
  <2>1. Place(s) > Place(t) \/ (Place(s) = Place(t) /\ i + d < j + d)
    BY <1>3 DEF KiteInv, InOrder
  <2> QED BY <1>2, <2>1
<1>7. RecordsFit' /\ HasPassed'
  <2>1. RecordsFit'
    BY DEF KiteInv, RecordsFit, RecordFits
  <2>2. HasPassed'
    BY <1>3 DEF KiteInv, HasPassed
  <2> QED BY <2>1, <2>2
<1>8. EarlierGone'
  BY <1>3 DEF KiteInv, EarlierGone
<1>9. \A n \in Inner : TracedUp(n, requests) => TracedUp(n, requests)'
  BY AncestorsStep, DepthFacts DEF TracedUp
<1>10. AckTraces'
  <2> SUFFICES ASSUME NEW i \in DOMAIN air', NEW s \in air'[i],
                      s.packet.type = "ack", Number(s) = requests
               PROVE  HasTrace(Upper(s), Lower(s), requests)' /\ TracedUp(Upper(s), requests)'
    BY DEF AckTraces
  <2>1. IsToken(s)
    BY DEF IsToken
  <2>2. HasTrace(Upper(s), Lower(s), requests) /\ TracedUp(Upper(s), requests)
    BY <1>3, <2>1 DEF KiteInv, AckTraces
  <2>3. PacketFits(s)
    BY <1>3, <2>1 DEF KiteInv, AirFits
  <2>4. Upper(s) \in Inner
    BY <2>1, <2>3, TokenPlace, OthersAreNoTokens DEF PacketFits, IsOther
  <2> QED BY <1>9, <2>2, <2>4
<1>11. LastTraced'
  <2> SUFFICES ASSUME acked = requests, acked > 0
               PROVE  HasTrace(AccessOf(requests), Producer, requests)' /\ TracedUp(AccessOf(requests), requests)'
    BY DEF LastTraced
  <2>1. HasTrace(AccessOf(requests), Producer, requests) /\ TracedUp(AccessOf(requests), requests)
    BY DEF KiteInv, LastTraced
  <2> QED BY <1>9, <2>1, DepthFacts
<1> QED BY <1>4, <1>5, <1>6, <1>7, <1>8, <1>10, <1>11 DEF KiteInv

----------------------------------------------------------------------------
(* A request or an Ack arrives.                                            *)

\* s is the next to be handled, and has number k.
Arriving(s) == air # <<>> /\ s \in Head(air) /\ IsToken(s)

LEMMA ArrivingFits ==
  ASSUME KiteInv, NEW s, Arriving(s)
  PROVE  /\ TokenFits(s) /\ s \notin {None, App} /\ IsTaken(s)
         /\ 1 \in DOMAIN air /\ s \in air[1] /\ Number(s) \in 1..requests
         /\ \A i \in DOMAIN air : i \in Nat /\ i >= 1
         /\ \A i \in DOMAIN air : \A t \in air[i] : IsToken(t) =>
              /\ TokenFits(t)
              /\ Number(t) = Number(s) => i = 1 /\ t = s
              /\ Number(t) < Number(s) => Place(t) > Place(s)
              /\ Number(t) > Number(s) => Place(s) >= Place(t)
<1>1. IsAir(air) /\ AirFits
  BY DEF KiteInv, AirFits
<1>2. 1 \in DOMAIN air /\ s \in air[1] /\ \A i \in DOMAIN air : i \in Nat /\ i >= 1
  BY <1>1 DEF Arriving, IsAir
<1>3. \A i \in DOMAIN air : \A t \in air[i] : IsToken(t) => TokenFits(t)
  BY <1>1, OthersAreNoTokens DEF AirFits, PacketFits, IsOther
<1>4. TokenFits(s)
  BY <1>2, <1>3 DEF Arriving
<1>5. s \notin {None, App} /\ IsTaken(s)
  BY <1>4, MessageAssumption DEF TokenFits, IsTaken, Arriving
<1>6. Number(s) \in 1..requests
  BY <1>4 DEF TokenFits, KiteInv, CountsFit
<1>7. ASSUME NEW i \in DOMAIN air, NEW t \in air[i], IsToken(t)
      PROVE  /\ Number(t) = Number(s) => i = 1 /\ t = s
             /\ Number(t) < Number(s) => Place(t) > Place(s)
             /\ Number(t) > Number(s) => Place(s) >= Place(t)
  <2>1. Place(t) \in Int /\ Place(s) \in Int
    BY <1>3, <1>4, <1>7, TokenPlace DEF Arriving
  <2>2. Number(t) = Number(s) => i = 1 /\ t = s
    BY <1>2, <1>7 DEF KiteInv, Alone, Arriving
  <2>3. Number(t) < Number(s) => Place(t) > Place(s) \/ (Place(t) = Place(s) /\ i < 1)
    BY <1>2, <1>7 DEF KiteInv, InOrder, Arriving
  <2>4. Number(t) > Number(s) => Number(s) < Number(t)
    <3>1. Number(t) \in Nat /\ Number(s) \in Nat
      BY <1>3, <1>4, <1>7, TokenPlace DEF Arriving
    <3> QED BY <3>1
  <2>5. Number(s) < Number(t) => Place(s) > Place(t) \/ (Place(s) = Place(t) /\ 1 < i)
    BY <1>2, <1>7 DEF KiteInv, InOrder, Arriving
  <2> QED BY <1>2, <2>1, <2>2, <2>3, <2>4, <2>5
<1> QED BY <1>2, <1>3, <1>4, <1>5, <1>6, <1>7

\* What n sends on, at most one message of the same number, one place further.
PlaceAfter(x) == IF x = 0 - 1 THEN 1 ELSE x + 1
SendsOn(s, T) ==
  /\ \A t \in T : IsToken(t) /\ Number(t) = Number(s) /\ Place(t) = PlaceAfter(Place(s)) /\ TokenFits(t)'
  /\ \A t, u \in T : t = u

\* The requests and Acks in the air afterwards.
AirNow(s, T) ==
  \A i \in DOMAIN air' : \A t \in air'[i] : IsToken(t) =>
    t \in T \/ (Number(t) # Number(s) /\ \E j \in DOMAIN air : t \in air[j])

LEMMA Receipt ==
  ASSUME KiteInv, NEW s, Arriving(s), NEW n, NEW entry, NEW sends,
         F!Handle(n, s, entry, sends), SendsOn(s, SentBy(n, sends)),
         requests' = requests,
         \A i \in DOMAIN air : \A t \in air[i] :
           IsToken(t) /\ Number(t) # Number(s) => Number(t) \in acked' + 1 .. requests
  PROVE  AirFits' /\ Alone' /\ InOrder' /\ AirNow(s, SentBy(n, sends))
<1> DEFINE T == SentBy(n, sends)
           k == Number(s)
<1>1. /\ TokenFits(s) /\ s \notin {None, App} /\ IsTaken(s) /\ 1 \in DOMAIN air /\ s \in air[1]
      /\ \A i \in DOMAIN air : i \in Nat /\ i >= 1
      /\ \A i \in DOMAIN air : \A t \in air[i] : IsToken(t) =>
           /\ TokenFits(t)
           /\ Number(t) = k => i = 1 /\ t = s
           /\ Number(t) < k => Place(t) > Place(s)
           /\ Number(t) > k => Place(s) >= Place(t)
  BY ArrivingFits
<1>2. IsAir(air') /\ AirGives(s, T)
  BY <1>1, HandleGives DEF KiteInv, AirFits
<1>3. SendsOn(s, T)
  OBVIOUS
<1> HIDE DEF T, k
<1>4. PICK d \in {0, 1}, z \in Nat : \A i \in DOMAIN air' : \A t \in air'[i] :
        \/ i <= z /\ i + d \in DOMAIN air /\ t \in air[i + d] /\ (i + d = 1 => t # s)
        \/ i = z + 1 /\ t \in T
  BY <1>1, <1>2 DEF AirGives
<1>5. \A i \in DOMAIN air' : i \in Nat
  BY <1>2 DEF IsAir
<1>6. ASSUME NEW i \in DOMAIN air', NEW t \in air'[i], IsToken(t)
      PROVE  \/ i <= z /\ i + d \in DOMAIN air /\ t \in air[i + d] /\ Number(t) # k
             \/ i = z + 1 /\ t \in T
  BY <1>1, <1>4, <1>6
<1>7. AirFits'
  <2>1. ASSUME NEW i \in DOMAIN air', NEW t \in air'[i] PROVE PacketFits(t)'
    <3>1. CASE IsToken(t) /\ t \in T
      BY <1>3, <3>1 DEF SendsOn, PacketFits
    <3>2. CASE IsToken(t) /\ t \notin T
      <4>1. i + d \in DOMAIN air /\ t \in air[i + d] /\ Number(t) # k
        BY <1>6, <3>2
      <4>2. TokenFits(t)'
        BY <1>1, <3>2, <4>1 DEF TokenFits, k
      <4> QED BY <3>2, <4>2 DEF PacketFits
    <3>3. CASE ~IsToken(t)
      <4>1. i + d \in DOMAIN air /\ t \in air[i + d]
        BY <1>3, <1>4, <3>3 DEF SendsOn
      <4>2. PacketFits(t)
        BY <4>1 DEF KiteInv, AirFits
      <4> QED BY <3>3, <4>2 DEF PacketFits
    <3> QED BY <3>1, <3>2, <3>3
  <2> QED BY <1>2, <2>1 DEF AirFits
<1>8. Alone'
  <2> SUFFICES ASSUME NEW i \in DOMAIN air', NEW j \in DOMAIN air', NEW t \in air'[i], NEW u \in air'[j],
                      IsToken(t), IsToken(u), Number(t) = Number(u)
               PROVE  i = j /\ t = u
    BY DEF Alone
  <2>1. CASE t \in T
    <3>1. Number(u) = k
      BY <1>3, <2>1 DEF SendsOn, k
    <3> QED BY <1>3, <1>6, <2>1, <3>1 DEF SendsOn
  <2>2. CASE t \notin T
    <3>1. i + d \in DOMAIN air /\ t \in air[i + d] /\ Number(t) # k
      BY <1>6, <2>2
    <3>2. u \notin T
      BY <1>3, <3>1 DEF SendsOn, k
    <3>3. j + d \in DOMAIN air /\ u \in air[j + d]
      BY <1>6, <3>2
    <3>4. i + d = j + d /\ t = u
      BY <3>1, <3>3 DEF KiteInv, Alone
    <3> QED BY <1>5, <3>4
  <2> QED BY <2>1, <2>2
<1>9. InOrder'
  <2> SUFFICES ASSUME NEW i \in DOMAIN air', NEW j \in DOMAIN air', NEW t \in air'[i], NEW u \in air'[j],
                      IsToken(t), IsToken(u), Number(t) < Number(u)
               PROVE  Place(t) > Place(u) \/ (Place(t) = Place(u) /\ i < j)
    BY DEF InOrder
  <2>1. Place(s) \in Int /\ Number(s) \in Nat
    BY <1>1, TokenPlace DEF Arriving
  <2>2. \A v \in T : IsToken(v) /\ Number(v) = k /\ Place(v) \in Int /\ Place(v) > Place(s)
    <3> SUFFICES ASSUME NEW v \in T
                 PROVE  IsToken(v) /\ Number(v) = k /\ Place(v) \in Int /\ Place(v) > Place(s)
      OBVIOUS
    <3>1. IsToken(v) /\ Number(v) = k /\ Place(v) > Place(s)
      BY <1>3, <2>1 DEF SendsOn, k, PlaceAfter
    <3>2. Upper(v) \in Inner
      BY <1>3 DEF SendsOn, TokenFits, Climbs
    <3>3. Depth[Upper(v)] \in Nat
      BY <3>2, DepthFacts
    <3> QED BY <3>1, <3>3 DEF Place
  <2>3. CASE t \in T /\ u \in T
    BY <1>3, <2>1, <2>3 DEF SendsOn
  <2>4. CASE t \in T /\ u \notin T
    <3>1. u \in air[j + d] /\ j + d \in DOMAIN air /\ Number(u) > k
      BY <1>6, <2>1, <2>2, <2>4, TokenPlace, <1>1
    <3>2. Place(s) >= Place(u) /\ Place(u) \in Int
      BY <1>1, <3>1, TokenPlace
    <3> QED BY <2>1, <2>2, <2>4, <3>2
  <2>5. CASE t \notin T /\ u \in T
    <3>1. i + d \in DOMAIN air /\ t \in air[i + d] /\ i <= z /\ j = z + 1
      <4>1. i <= z /\ i + d \in DOMAIN air /\ t \in air[i + d] /\ Number(t) # k
        BY <1>6, <2>5
      <4>2. Number(u) = k
        BY <2>2, <2>5
      <4>3. j = z + 1
        BY <1>6, <2>5, <4>2
      <4> QED BY <4>1, <4>3
    <3>2. Number(t) < k /\ TokenFits(t) /\ Place(t) > Place(s)
      BY <1>1, <2>2, <2>5, <3>1
    <3>3. Depth[Upper(t)] \in Nat
      BY <3>2, DepthFacts DEF TokenFits, Climbs
    <3>4. Place(t) \in Int /\ Place(t) # 0
      BY <3>3 DEF Place
    <3>5. Place(u) = PlaceAfter(Place(s))
      BY <1>3, <2>5 DEF SendsOn
    <3>6. Place(t) >= Place(u)
      BY <2>1, <3>2, <3>4, <3>5 DEF PlaceAfter
    <3>7. i < j
      BY <1>5, <3>1
    <3> QED BY <2>2, <2>5, <3>4, <3>6, <3>7
  <2>6. CASE t \notin T /\ u \notin T
    <3>1. /\ i + d \in DOMAIN air /\ t \in air[i + d]
          /\ j + d \in DOMAIN air /\ u \in air[j + d]
      BY <1>6, <2>6
    <3>2. Place(t) > Place(u) \/ (Place(t) = Place(u) /\ i + d < j + d)
      BY <3>1 DEF KiteInv, InOrder
    <3> QED BY <1>5, <3>2
  <2> QED BY <2>3, <2>4, <2>5, <2>6
<1>10. AirNow(s, T)
  BY <1>6 DEF AirNow, k
<1> QED BY <1>7, <1>8, <1>9, <1>10 DEF T

\* When n announces what arrives, no later request has been announced there.
LEMMA Announcing ==
  ASSUME KiteInv, NEW s, Arriving(s), NEW T, AirNow(s, T),
         \A t \in T : Number(t) = Number(s) /\ Place(t) = PlaceAfter(Place(s)),
         NEW n \in Node, NEW x, NEW faces, announced' = Announce(n, x, faces, Number(s)),
         UNCHANGED <<requests, traces>>,
         faces = {} \/ (n \in Inner /\ (Place(s) = Depth[n] \/ (n = Rv /\ Place(s) = 0 - 1)))
  PROVE  /\ TraceFits' /\ EarlierGone' /\ NewestTraced'
         /\ \A m, f, k : HasTrace(m, f, k) => HasTrace(m, f, k)'
         /\ \A f \in faces : HasTrace(n, f, Number(s))'
<1> DEFINE k == Number(s)
           new == {[node |-> n, from |-> x, face |-> f, request |-> k, stage |-> "rib"] : f \in faces}
<1>1. announced' = announced \cup new
  BY DEF Announce
<1>2. /\ \A a \in new : IsAnnouncement(a) /\ a.node = n /\ a.request = k /\ a.stage = "rib"
      /\ \A f \in faces : \E a \in new : a.node = n /\ a.face = f /\ a.request = k /\ a.stage = "rib"
      /\ new # {} => faces # {}
  <2>1. \A a \in new : IsAnnouncement(a) /\ a.node = n /\ a.request = k /\ a.stage = "rib"
    BY DEF IsAnnouncement
  <2>2. ASSUME NEW f \in faces
        PROVE  \E a \in new : a.node = n /\ a.face = f /\ a.request = k /\ a.stage = "rib"
    <3> DEFINE a == [node |-> n, from |-> x, face |-> f, request |-> k, stage |-> "rib"]
    <3>1. a \in new /\ a.node = n /\ a.face = f /\ a.request = k /\ a.stage = "rib"
      OBVIOUS
    <3> QED BY <3>1
  <2>3. new # {} => faces # {}
    OBVIOUS
  <2> QED BY <2>1, <2>2, <2>3
<1>3. /\ TokenFits(s) /\ IsToken(s) /\ s \in air[1] /\ 1 \in DOMAIN air /\ k \in 1..requests
      /\ \A i \in DOMAIN air : \A t \in air[i] : IsToken(t) =>
           TokenFits(t) /\ (Number(t) < k => Place(t) > Place(s))
  BY ArrivingFits DEF Arriving
<1>4. requests \in Nat /\ requests <= MaxRequest /\ MaxRequest \in Nat
  BY RequestAssumption DEF KiteInv, CountsFit
<1>5. k \in Request /\ Place(s) \in Int /\ k \in Nat
  BY <1>3, <1>4, TokenPlace DEF Request
<1>6. \A m \in Inner : Depth[m] \in Nat
  BY DepthFacts
<1>7. \A t \in T : Number(t) = k /\ Place(t) \in Int /\ Place(t) > Place(s)
  BY <1>5 DEF PlaceAfter
<1> HIDE DEF new, k
<1>8. \A m, j : HasAnnounced(m, j)' => HasAnnounced(m, j) \/ (m = n /\ j = k /\ faces # {})
  BY <1>1, <1>2 DEF HasAnnounced
<1>9. TraceFits'
  <2>1. \A a \in announced' : IsAnnouncement(a) /\ a.node \in Node /\ a.request \in 1..requests
    BY <1>1, <1>2, <1>3 DEF KiteInv, TraceFits
  <2> QED BY <2>1 DEF KiteInv, TraceFits
<1>10. NewestTraced'
  <2> SUFFICES ASSUME NEW m \in Inner, NEW f \in DOMAIN traces[m], NEW a \in announced', a.node = m
               PROVE  a.request >= traces[m][f]
    BY DEF NewestTraced
  <2>1. CASE a \in announced
    BY <2>1 DEF KiteInv, NewestTraced
  <2>2. CASE a \in new
    <3>1. m = n /\ a.request = k /\ faces # {}
      BY <1>2, <2>2
    <3>2. traces[m][f] \in 1..requests
      BY DepthFacts DEF KiteInv, TraceFits
    <3>3. traces[m][f] \in Request /\ HasAnnounced(m, traces[m][f])
      BY <1>4, <3>2 DEF HasAnnounced, Request
    <3>4. k < traces[m][f] => Place(s) > Depth[m]
      BY <1>3, <3>3 DEF KiteInv, EarlierGone, k
    <3>5. Place(s) <= Depth[m]
      BY <1>5, <1>6, <3>1
    <3> QED BY <1>5, <1>6, <3>1, <3>2, <3>4, <3>5
  <2> QED BY <1>1, <2>1, <2>2
<1>11. EarlierGone'
  <2> SUFFICES ASSUME NEW m \in Inner, NEW j \in Request, HasAnnounced(m, j)',
                      NEW i \in DOMAIN air', NEW t \in air'[i], IsToken(t), Number(t) < j
               PROVE  Place(t) > Depth[m]
    BY DEF EarlierGone
  <2>1. CASE HasAnnounced(m, j) /\ t \in T
    <3>1. Number(s) < j
      BY <1>7, <2>1 DEF k
    <3>2. Place(s) > Depth[m]
      BY <1>3, <2>1, <3>1 DEF KiteInv, EarlierGone
    <3> QED BY <1>5, <1>6, <1>7, <2>1, <3>2
  <2>2. CASE HasAnnounced(m, j) /\ t \notin T
    <3>1. PICK l \in DOMAIN air : t \in air[l]
      BY <2>2 DEF AirNow
    <3> QED BY <2>2, <3>1 DEF KiteInv, EarlierGone
  <2>3. CASE m = n /\ j = k /\ faces # {}
    <3>1. t \notin T
      BY <1>5, <1>7, <2>3
    <3>2. PICK l \in DOMAIN air : t \in air[l]
      BY <3>1 DEF AirNow
    <3>3. Place(t) > Place(s) /\ TokenFits(t)
      BY <1>3, <2>3, <3>2
    <3>4. Depth[Upper(t)] \in Nat
      BY <1>6, <3>3 DEF TokenFits, Climbs
    <3>5. Place(t) \in Int /\ Place(t) # 0
      BY <3>4 DEF Place
    <3>6. Depth[m] = Place(s) \/ (Depth[m] = 0 /\ Place(s) = 0 - 1)
      BY <2>3, DepthFacts
    <3> QED BY <1>5, <3>3, <3>5, <3>6
  <2> QED BY <1>8, <2>1, <2>2, <2>3
<1>12. \A m, f, j : HasTrace(m, f, j) => HasTrace(m, f, j)'
  BY <1>1 DEF HasTrace
<1>13. \A f \in faces : HasTrace(n, f, k)'
  BY <1>1, <1>2 DEF HasTrace
<1> QED BY <1>9, <1>10, <1>11, <1>12, <1>13 DEF k

\* What is sent when one message goes to all of S.
LEMMA SentTo ==
  ASSUME NEW n, NEW S, NEW m, NEW t \in SentBy(n, F!To(S, m))
  PROVE  \E f \in S \ {App} : t = [link |-> <<n, f>>, packet |-> m]
BY DEF SentBy, F!To

\* A message of request k that n sends to f.
LEMMA NewToken ==
  ASSUME KiteInv, NEW n \in Node, NEW f \in Node, NEW k \in 1..requests, NEW type \in {"request", "ack"},
         NEW t, t = [link |-> <<n, f>>, packet |-> [type |-> type, request |-> k]]
  PROVE  /\ IsToken(t) /\ Number(t) = k /\ t \in [link : Node \X Node, packet : RequestMessage]
         /\ t.packet.type = type
         /\ type = "request" => Upper(t) = f /\ Lower(t) = n /\ Place(t) = 0 - (Depth[f] + 1)
         /\ type = "ack" => Upper(t) = n /\ Lower(t) = f /\ Place(t) = Depth[n] + 1
<1>1. k \in Request
  BY RequestAssumption DEF KiteInv, CountsFit, Request
<1>2. t.link = <<n, f>> /\ t.packet = [type |-> type, request |-> k]
  OBVIOUS
<1>3. t.packet \in RequestMessage /\ t.packet.type = type /\ t.packet.request = k
  BY <1>1, <1>2 DEF RequestMessage
<1>4. t \in [link : Node \X Node, packet : RequestMessage]
  BY <1>2, <1>3
<1> QED BY <1>2, <1>3, <1>4 DEF IsToken, Number, Upper, Lower, Place

\* The parts about the requests' own entries and Acks, in a step in which the
\* packet of request k is handled at n.
LEMMA TracesKept ==
  ASSUME KiteInv, UNCHANGED requests, NEW s, Arriving(s), NEW T, AirNow(s, T),
         \A m, f, k : HasTrace(m, f, k) => HasTrace(m, f, k)',
         \A t \in T : t.packet.type = "ack" /\ Number(t) = requests =>
           HasTrace(Upper(t), Lower(t), requests)' /\ TracedUp(Upper(t), requests)'
  PROVE  AckTraces' /\ (acked' = acked => LastTraced')
<1>1. \A n : \A k : TracedUp(n, k) => TracedUp(n, k)'
  BY DEF TracedUp
<1>2. AckTraces'
  <2> SUFFICES ASSUME NEW i \in DOMAIN air', NEW t \in air'[i], t.packet.type = "ack", Number(t) = requests
               PROVE  HasTrace(Upper(t), Lower(t), requests)' /\ TracedUp(Upper(t), requests)'
    BY DEF AckTraces
  <2>1. CASE t \in T
    BY <2>1
  <2>2. CASE t \notin T
    <3>1. PICK j \in DOMAIN air : t \in air[j]
      BY <2>2 DEF AirNow, IsToken
    <3>2. HasTrace(Upper(t), Lower(t), requests) /\ TracedUp(Upper(t), requests)
      BY <3>1 DEF KiteInv, AckTraces
    <3> QED BY <1>1, <3>2
  <2> QED BY <2>1, <2>2
<1>3. ASSUME acked' = acked PROVE LastTraced'
  <2> SUFFICES ASSUME acked = requests, acked > 0
               PROVE  HasTrace(AccessOf(acked), Producer, acked)' /\ TracedUp(AccessOf(acked), acked)'
    BY <1>3 DEF LastTraced
  <2>1. HasTrace(AccessOf(acked), Producer, acked) /\ TracedUp(AccessOf(acked), acked)
    BY DEF KiteInv, LastTraced
  <2> QED BY <1>1, <1>3, <2>1
<1> QED BY <1>2, <1>3

LEMMA RequestKept ==
  ASSUME KiteInv, NEW s, Arriving(s), s.packet.type = "request",
         IncomingRequest(s.link[2], s, s.link[1], s.packet.request)
  PROVE  KiteInv'
<1> DEFINE n == Upper(s)
           b == Lower(s)
           k == Number(s)
<1>1. /\ TokenFits(s) /\ IsToken(s) /\ s \in air[1] /\ 1 \in DOMAIN air /\ k \in 1..requests
      /\ \A i \in DOMAIN air : \A t \in air[i] : IsToken(t) => TokenFits(t)
  BY ArrivingFits DEF Arriving
<1>2. n \in Inner /\ n \in Node /\ Place(s) = 0 - (Depth[n] + 1) /\ Depth[n] \in Nat
  BY <1>1, TokenPlace, DepthFacts
<1>3. b \in Node /\ Climbs(n, b, k) /\ k \in acked + 1 .. requests
  BY <1>1, PlaceAssumption, DepthFacts DEF TokenFits, Climbs
<1>4. s.link[2] = n /\ s.link[1] = b /\ s.packet.request = k
  BY DEF Upper, Lower, Number
<1>5. App \notin Node
  BY PlaceAssumption
<1>6. UNCHANGED <<associations, requests, acked, traces, moved>>
  BY DEF IncomingRequest, Pass
<1> HIDE DEF n, b, k
<1>7. CountsFit'
  BY <1>6 DEF KiteInv, CountsFit
<1>8. \A i \in DOMAIN air : \A t \in air[i] :
        IsToken(t) /\ Number(t) # k => Number(t) \in acked' + 1 .. requests
  BY <1>1, <1>6 DEF TokenFits
<1>9. CASE n = Rv
  <2> DEFINE m == [type |-> "ack", request |-> k]
             T == SentBy(n, F!To({b}, m))
  <2>1. /\ F!Handle(n, s, pit[n], F!To({b}, m)) /\ announced' = Announce(n, b, {b}, k) /\ asking' = asking
    BY <1>4, <1>9 DEF IncomingRequest, Pass
  <2>2. \A t \in T : t = [link |-> <<n, b>>, packet |-> m]
    BY SentTo
  <2>3. Place(s) = 0 - 1 /\ Depth[n] = 0
    BY <1>2, <1>9, DepthFacts
  <2>4. ASSUME NEW t \in T
        PROVE  /\ IsToken(t) /\ Number(t) = k /\ Place(t) = PlaceAfter(Place(s)) /\ TokenFits(t)'
               /\ t.packet.type = "ack" /\ Upper(t) = n /\ Lower(t) = b /\ Place(t) = 1
    <3>1. /\ IsToken(t) /\ Number(t) = k /\ t \in [link : Node \X Node, packet : RequestMessage]
          /\ t.packet.type = "ack" /\ Upper(t) = n /\ Lower(t) = b /\ Place(t) = Depth[n] + 1
      <4>1. t = [link |-> <<n, b>>, packet |-> [type |-> "ack", request |-> k]]
        BY <2>2
      <4>2. "ack" \in {"request", "ack"} /\ k \in 1..requests /\ n \in Node /\ b \in Node
        BY <1>1, <1>2, <1>3
      <4> QED BY <4>1, <4>2, NewToken
    <3>2. TokenFits(t)'
      BY <1>3, <1>6, <3>1 DEF TokenFits
    <3> QED BY <2>3, <3>1, <3>2 DEF PlaceAfter
  <2> HIDE DEF m, T
  <2>5. SendsOn(s, T)
    BY <2>2, <2>4 DEF SendsOn, k
  <2>6. AirFits' /\ Alone' /\ InOrder' /\ AirNow(s, T)
    BY <1>6, <1>8, <2>1, <2>5, Receipt DEF T, k
  <2>7. /\ TraceFits' /\ EarlierGone' /\ NewestTraced'
        /\ \A v, f, j : HasTrace(v, f, j) => HasTrace(v, f, j)'
        /\ \A f \in {b} : HasTrace(n, f, k)'
    <3>1. \A t \in T : Number(t) = Number(s) /\ Place(t) = PlaceAfter(Place(s))
      BY <2>4 DEF k
    <3>2. announced' = Announce(n, b, {b}, Number(s))
      BY <2>1 DEF k
    <3>3. n \in Inner /\ n = Rv /\ Place(s) = 0 - 1
      BY <1>2, <1>9, <2>3
    <3>4. UNCHANGED <<requests, traces>>
      BY <1>6
    <3> QED BY <1>2, <2>6, <3>1, <3>2, <3>3, <3>4, Announcing DEF k
  <2>8. RecordsFit' /\ DOMAIN asking' = Node
    BY <1>6, <2>1 DEF KiteInv, RecordsFit, RecordFits
  <2>9. HasPassed'
    <3> SUFFICES ASSUME NEW v \in Inner, NEW r \in asking[v], NEW i \in DOMAIN air', NEW t \in air'[i],
                        IsToken(t), Number(t) = r.request
                 PROVE  Place(t) > 0 - (Depth[v] + 1)
      BY <2>1 DEF HasPassed
    <3>1. CASE t \in T
      BY <2>4, <3>1, DepthFacts
    <3>2. CASE t \notin T
      BY <2>6, <3>2 DEF AirNow, KiteInv, HasPassed
    <3> QED BY <3>1, <3>2
  <2>10. \A t \in T : t.packet.type = "ack" /\ Number(t) = requests =>
           HasTrace(Upper(t), Lower(t), requests)' /\ TracedUp(Upper(t), requests)'
    <3>1. TracedUp(n, requests)'
      BY <1>2, <1>9, AncestorsStep DEF TracedUp
    <3> QED BY <1>6, <2>4, <2>7, <3>1
  <2>11. AckTraces' /\ LastTraced'
    BY <1>6, <2>6, <2>7, <2>10, TracesKept
  <2> QED BY <1>7, <2>6, <2>7, <2>8, <2>9, <2>11 DEF KiteInv
<1>10. CASE n # Rv
  <2> DEFINE m == [type |-> "request", request |-> k]
             T == SentBy(n, F!To({Up[n]}, m))
             rec == [request |-> k, face |-> b]
  <2>1. /\ F!Handle(n, s, pit[n], F!To({Up[n]}, m)) /\ announced' = announced
        /\ asking' = [asking EXCEPT ![n] = @ \cup {rec}]
    BY <1>4, <1>10 DEF IncomingRequest, Pass
  <2>2. \A t \in T : t = [link |-> <<n, Up[n]>>, packet |-> m]
    BY SentTo
  <2>3. Up[n] \in Inner /\ Up[n] \in Node /\ Depth[n] = Depth[Up[n]] + 1 /\ Depth[Up[n]] \in Nat
    BY <1>2, <1>10, DepthFacts
  <2>4. Climbs(Up[n], n, k)
    <3>1. Depth[AccessOf(k)] \in Nat
      BY DepthFacts
    <3> QED BY <1>2, <1>3, <1>10, <2>3, <3>1 DEF Climbs
  <2>5. ASSUME NEW t \in T
        PROVE  /\ IsToken(t) /\ Number(t) = k /\ Place(t) = PlaceAfter(Place(s)) /\ TokenFits(t)'
               /\ t.packet.type = "request" /\ Place(t) = 0 - Depth[n]
    <3>1. /\ IsToken(t) /\ Number(t) = k /\ t \in [link : Node \X Node, packet : RequestMessage]
          /\ t.packet.type = "request" /\ Upper(t) = Up[n] /\ Lower(t) = n /\ Place(t) = 0 - (Depth[Up[n]] + 1)
      <4>1. t = [link |-> <<n, Up[n]>>, packet |-> [type |-> "request", request |-> k]]
        BY <2>2
      <4>2. "request" \in {"request", "ack"} /\ k \in 1..requests /\ n \in Node /\ Up[n] \in Node
        BY <1>1, <1>2, <2>3
      <4> QED BY <4>1, <4>2, NewToken
    <3>2. TokenFits(t)'
      BY <1>3, <1>6, <2>4, <3>1 DEF TokenFits
    <3> QED BY <1>2, <2>3, <3>1, <3>2 DEF PlaceAfter
  <2> HIDE DEF m, T
  <2>6. SendsOn(s, T)
    BY <2>2, <2>5 DEF SendsOn, k
  <2>7. AirFits' /\ Alone' /\ InOrder' /\ AirNow(s, T)
    BY <1>6, <1>8, <2>1, <2>6, Receipt DEF T, k
  <2>8. /\ TraceFits' /\ EarlierGone' /\ NewestTraced'
        /\ \A v, f, j : HasTrace(v, f, j) => HasTrace(v, f, j)'
    <3>1. \A t \in T : Number(t) = Number(s) /\ Place(t) = PlaceAfter(Place(s))
      BY <2>5 DEF k
    <3>2. announced' = Announce(n, b, {}, Number(s))
      BY <2>1 DEF Announce
    <3>3. UNCHANGED <<requests, traces>>
      BY <1>6
    <3> QED BY <1>2, <2>7, <3>1, <3>2, <3>3, Announcing
  <2>9. /\ DOMAIN asking' = Node /\ asking'[n] = asking[n] \cup {rec}
        /\ \A v \in Node \ {n} : asking'[v] = asking[v]
    BY <1>2, <2>1 DEF KiteInv
  <2>10. \A r \in asking[n] : r.request # k
    <3> SUFFICES ASSUME NEW r \in asking[n], r.request = k PROVE FALSE
      OBVIOUS
    <3>1. Place(s) > 0 - (Depth[n] + 1)
      BY <1>1, <1>2 DEF KiteInv, HasPassed, k
    <3> QED BY <1>2, <3>1
  <2>11. rec.request = k /\ rec.face = b
    OBVIOUS
  <2> HIDE DEF rec
  <2>12. RecordsFit'
    <3> SUFFICES ASSUME NEW v \in Node, NEW r \in asking'[v]
                 PROVE  /\ RecordFits(v, r)' /\ \A q \in asking'[v] : q.request = r.request => q = r
      BY DEF RecordsFit
    <3>1. RecordFits(v, r)'
      <4>1. CASE r \in asking[v]
        BY <1>6, <4>1 DEF KiteInv, RecordsFit, RecordFits
      <4>2. CASE v = n /\ r = rec
        BY <1>1, <1>2, <1>3, <1>6, <1>10, <2>11, <4>2, DepthFacts DEF RecordFits
      <4> QED BY <2>9, <4>1, <4>2
    <3>2. \A q \in asking'[v] : q.request = r.request => q = r
      BY <2>9, <2>10, <2>11 DEF KiteInv, RecordsFit
    <3> QED BY <3>1, <3>2
  <2>13. HasPassed'
    <3> SUFFICES ASSUME NEW v \in Inner, NEW r \in asking'[v], NEW i \in DOMAIN air', NEW t \in air'[i],
                        IsToken(t), Number(t) = r.request
                 PROVE  Place(t) > 0 - (Depth[v] + 1)
      BY DEF HasPassed
    <3>1. v \in Node /\ Depth[v] \in Nat
      BY DepthFacts
    <3>2. CASE t \in T /\ r \in asking[v]
      <4>1. Place(s) > 0 - (Depth[v] + 1)
        BY <1>1, <2>5, <3>2 DEF KiteInv, HasPassed, k
      <4> QED BY <1>2, <2>5, <3>1, <3>2, <4>1
    <3>3. CASE t \in T /\ v = n
      BY <1>2, <2>5, <3>3
    <3>4. CASE t \notin T /\ r \in asking[v]
      BY <2>7, <3>4 DEF AirNow, KiteInv, HasPassed
    <3>5. CASE t \notin T /\ r = rec
      BY <2>7, <2>11, <3>5 DEF AirNow, k
    <3> QED BY <2>9, <3>1, <3>2, <3>3, <3>4, <3>5
  <2>14. AckTraces' /\ LastTraced'
    <3>1. \A t \in T : t.packet.type # "ack"
      BY <2>5
    <3> QED BY <1>6, <2>7, <2>8, <3>1, TracesKept
  <2> QED BY <1>7, <2>7, <2>8, <2>9, <2>12, <2>13, <2>14 DEF KiteInv
<1> QED BY <1>9, <1>10

\* The Ack with which the producer learns of a path: those of earlier requests
\* have come before.
LEMMA EarlierAcked ==
  ASSUME KiteInv, NEW s, Arriving(s), s.packet.type = "ack", Lower(s) = Producer,
         NEW i \in DOMAIN air, NEW t \in air[i], IsToken(t), Number(t) # Number(s)
  PROVE  Number(t) \in Number(s) + 1 .. requests
<1> DEFINE k == Number(s)
           j == Number(t)
<1>1. /\ TokenFits(s) /\ TokenFits(t) /\ IsToken(s) /\ k \in acked + 1 .. requests /\ j \in acked + 1 .. requests
      /\ j < k => Place(t) > Place(s)
  BY ArrivingFits DEF Arriving, TokenFits
<1>2. /\ acked \in Nat /\ requests \in Nat /\ associations \in Nat
      /\ IF moved THEN requests + associations = MaxRequest /\ acked >= MaxRequest - 1
         ELSE requests + associations <= MaxRequest - 1
  BY DEF KiteInv, CountsFit
<1>3. MaxRequest \in Nat /\ j \in Nat /\ k \in Nat
  BY <1>1, <1>2, RequestAssumption
<1>4. Place(s) = Depth[AccessOf(k)] + 1
  <2>1. Upper(s) = AccessOf(k) /\ Place(s) = Depth[Upper(s)] + 1
    BY <1>1, TokenPlace, DepthFacts DEF TokenFits, Climbs
  <2> QED BY <2>1
<1>5. Place(t) <= Depth[AccessOf(j)] + 1
  <2>1. Depth[Upper(t)] <= Depth[AccessOf(j)] /\ Depth[Upper(t)] \in Nat /\ Depth[AccessOf(j)] \in Nat
    BY <1>1, DepthFacts DEF TokenFits, Climbs
  <2> QED BY <2>1 DEF Place
<1>6. CASE j < k
  <2>1. AccessOf(j) = AccessOf(k)
    BY <1>1, <1>2, <1>3, <1>6 DEF AccessOf
  <2>2. Depth[AccessOf(k)] \in Nat /\ Place(t) \in Int
    BY <1>1, DepthFacts, TokenPlace
  <2> QED BY <1>1, <1>4, <1>5, <1>6, <2>1, <2>2
<1>7. CASE j > k
  BY <1>1, <1>2, <1>3, <1>7
<1> HIDE DEF j, k
<1>8. j # k
  BY DEF j, k
<1> QED BY <1>3, <1>6, <1>7, <1>8 DEF j, k

LEMMA AckKept ==
  ASSUME KiteInv, NEW s, Arriving(s), s.packet.type = "ack",
         IncomingKiteAck(s.link[2], s, s.link[1], s.packet.request)
  PROVE  KiteInv'
<1> DEFINE n == Lower(s)
           u == Upper(s)
           k == Number(s)
           records == {r \in asking[n] : r.request = k}
           faces == {r.face : r \in records}
           m == [type |-> "ack", request |-> k]
           T == SentBy(n, F!To(faces, m))
<1>1. /\ TokenFits(s) /\ IsToken(s) /\ s \in air[1] /\ 1 \in DOMAIN air /\ k \in 1..requests
      /\ \A i \in DOMAIN air : \A t \in air[i] : IsToken(t) => TokenFits(t)
  BY ArrivingFits DEF Arriving
<1>2. u \in Inner /\ Place(s) = Depth[u] + 1 /\ Depth[u] \in Nat
  BY <1>1, TokenPlace, DepthFacts
<1>3. n \in Node /\ Climbs(u, n, k) /\ k \in acked + 1 .. requests
  BY <1>1, PlaceAssumption, DepthFacts DEF TokenFits, Climbs
<1>4. s.link[2] = n /\ s.link[1] = u /\ s.packet.request = k /\ s.packet.type # "request"
  BY DEF Upper, Lower, Number
<1>5. App \notin Node
  BY PlaceAssumption
<1>6. /\ UNCHANGED <<associations, requests, traces, moved>>
      /\ F!Handle(n, s, pit[n], F!To(faces, m))
      /\ announced' = Announce(n, u, Remote(faces), k)
      /\ asking' = [asking EXCEPT ![n] = @ \ records]
      /\ acked' = IF n = Producer THEN k ELSE acked
  BY <1>4 DEF IncomingKiteAck, Pass
<1>7. \A t \in T : \E f \in faces \ {App} : t = [link |-> <<n, f>>, packet |-> m]
  BY SentTo
<1>8. \A r \in records : RecordFits(n, r) /\ r.request = k /\ \A q \in records : q = r
  BY <1>3 DEF KiteInv, RecordsFit
<1>9. \A f \in faces : \E r \in records : f = r.face
  OBVIOUS
<1>10. \A r \in records : r \in asking[n] /\ r.request = k
  OBVIOUS
<1>11. \A r \in asking[n] : r.request = k => r \in records
  OBVIOUS
<1>12. \A f \in Remote(faces) : f \in faces /\ f # App
  BY DEF Remote
<1>13. Remote(faces) = faces \ {App}
  BY DEF Remote
<1> HIDE DEF n, u, k, records, faces
<1>14. /\ DOMAIN asking' = Node /\ asking'[n] = asking[n] \ records
       /\ \A v \in Node \ {n} : asking'[v] = asking[v]
  BY <1>3, <1>6 DEF KiteInv
<1>15. DOMAIN asking' = Node /\ \A v \in Node : \A r \in asking'[v] : r \in asking[v] /\ ~(v = n /\ r.request = k)
  BY <1>11, <1>14
<1>16. RecordsFit'
  BY <1>6, <1>15 DEF KiteInv, RecordsFit, RecordFits
<1>17. ASSUME AirNow(s, T), \A t \in T : Number(t) = k /\ Place(t) > Place(s), \A t \in T : Place(t) \in Int PROVE HasPassed'
  <2> SUFFICES ASSUME NEW v \in Inner, NEW r \in asking'[v], NEW i \in DOMAIN air', NEW t \in air'[i],
                      IsToken(t), Number(t) = r.request
               PROVE  Place(t) > 0 - (Depth[v] + 1)
    BY DEF HasPassed
  <2>1. v \in Node /\ r \in asking[v] /\ Depth[v] \in Nat
    BY <1>15, DepthFacts
  <2>2. CASE t \in T
    <3>1. Place(s) > 0 - (Depth[v] + 1)
      BY <1>1, <1>17, <2>1, <2>2 DEF KiteInv, HasPassed, k
    <3> QED BY <1>2, <1>17, <2>1, <2>2, <3>1
  <2>3. CASE t \notin T
    BY <1>17, <2>1, <2>3 DEF AirNow, KiteInv, HasPassed
  <2> QED BY <2>2, <2>3
<1>18. CASE n = Producer
  <2>1. \A f \in faces : f = App
    BY <1>8, <1>9, <1>18 DEF RecordFits
  <2>2. T = {} /\ Remote(faces) = {}
    BY <1>7, <1>13, <2>1
  <2>3. acked' = k
    BY <1>6, <1>18
  <2>4. \A i \in DOMAIN air : \A t \in air[i] :
          IsToken(t) /\ Number(t) # Number(s) => Number(t) \in acked' + 1 .. requests
    BY <1>18, <2>3, EarlierAcked DEF n, k
  <2> HIDE DEF m, T
  <2>5. SendsOn(s, T)
    BY <2>2 DEF SendsOn
  <2>6. AirFits' /\ Alone' /\ InOrder' /\ AirNow(s, T)
    BY <1>6, <2>4, <2>5, Receipt DEF T
  <2>7. /\ TraceFits' /\ EarlierGone' /\ NewestTraced'
        /\ \A v, f, j : HasTrace(v, f, j) => HasTrace(v, f, j)'
    <3>1. announced' = Announce(n, u, {}, Number(s))
      BY <1>6, <2>2 DEF k
    <3>2. UNCHANGED <<requests, traces>>
      BY <1>6
    <3> QED BY <1>3, <2>2, <2>6, <3>1, <3>2, Announcing
  <2>8. CountsFit'
    <3>1. k \in Nat /\ k > acked /\ k <= requests
      BY <1>1, <1>3 DEF KiteInv, CountsFit
    <3> QED BY <1>6, <2>3, <3>1, RequestAssumption DEF KiteInv, CountsFit
  <2>9. AckTraces'
    BY <1>6, <2>2, <2>6, <2>7, TracesKept
  <2>10. LastTraced'
    <3> SUFFICES ASSUME k = requests
                 PROVE  HasTrace(AccessOf(k), Producer, k)' /\ TracedUp(AccessOf(k), k)'
      BY <1>6, <2>3 DEF LastTraced
    <3>1. HasTrace(u, n, k) /\ TracedUp(u, k)
      BY <1>1 DEF KiteInv, AckTraces, u, n, k
    <3>2. u = AccessOf(k)
      BY <1>3, <1>18, DepthFacts DEF Climbs
    <3> QED BY <1>18, <2>7, <3>1, <3>2 DEF TracedUp
  <2>11. HasPassed'
    BY <1>17, <2>2, <2>6
  <2> QED BY <1>15, <1>16, <2>6, <2>7, <2>8, <2>9, <2>10, <2>11 DEF KiteInv
<1>19. CASE n # Producer
  <2>1. n \in Inner \ {Rv} /\ u = Up[n] /\ Depth[n] = Place(s) /\ Depth[n] \in Nat
    BY <1>2, <1>3, <1>19, DepthFacts DEF Climbs
  <2>2. acked' = acked
    BY <1>6, <1>19
  <2>3. \A f \in faces : Climbs(n, f, k) /\ f \in Node
    BY <1>8, <1>9, <1>19, DepthFacts, PlaceAssumption DEF RecordFits, Climbs
  <2>4. Remote(faces) = faces
    BY <1>5, <1>13, <2>3
  <2>5. ASSUME NEW t \in T
        PROVE  /\ IsToken(t) /\ Number(t) = k /\ Place(t) = PlaceAfter(Place(s)) /\ TokenFits(t)'
               /\ Upper(t) = n /\ Lower(t) \in faces /\ Place(t) > Place(s) /\ Place(t) \in Int
    <3>1. PICK f \in faces : t = [link |-> <<n, f>>, packet |-> [type |-> "ack", request |-> k]]
      BY <1>7
    <3>2. f \in Node /\ Climbs(n, f, k) /\ "ack" \in {"request", "ack"}
      BY <2>3
    <3>3. /\ IsToken(t) /\ Number(t) = k /\ t \in [link : Node \X Node, packet : RequestMessage]
          /\ t.packet.type = "ack" /\ Upper(t) = n /\ Lower(t) = f /\ Place(t) = Depth[n] + 1
      BY <1>1, <1>3, <3>1, <3>2, NewToken
    <3>4. TokenFits(t)'
      BY <1>3, <1>6, <2>2, <3>2, <3>3 DEF TokenFits
    <3>5. Place(t) = PlaceAfter(Place(s)) /\ Place(t) > Place(s) /\ Place(t) \in Int
      BY <2>1, <3>3 DEF PlaceAfter
    <3> QED BY <3>3, <3>4, <3>5
  <2>6. \A t, v \in T : t = v
    <3>1. \A f, g \in faces : f = g
      BY <1>8, <1>9
    <3> QED BY <1>7, <3>1
  <2> HIDE DEF m, T
  <2>7. SendsOn(s, T)
    BY <2>5, <2>6 DEF SendsOn, k
  <2>8. \A i \in DOMAIN air : \A t \in air[i] :
          IsToken(t) /\ Number(t) # k => Number(t) \in acked' + 1 .. requests
    BY <1>1, <2>2 DEF TokenFits
  <2>9. AirFits' /\ Alone' /\ InOrder' /\ AirNow(s, T)
    BY <1>6, <2>7, <2>8, Receipt DEF T, k
  <2>10. /\ TraceFits' /\ EarlierGone' /\ NewestTraced'
         /\ \A v, f, j : HasTrace(v, f, j) => HasTrace(v, f, j)'
         /\ \A f \in faces : HasTrace(n, f, k)'
    <3>1. \A t \in T : Number(t) = Number(s) /\ Place(t) = PlaceAfter(Place(s))
      BY <2>5 DEF k
    <3>2. announced' = Announce(n, u, faces, Number(s))
      BY <1>6, <2>4 DEF k
    <3>3. UNCHANGED <<requests, traces>> /\ n \in Inner /\ Place(s) = Depth[n]
      BY <1>6, <2>1
    <3> QED BY <1>3, <2>9, <3>1, <3>2, <3>3, Announcing DEF k
  <2>11. CountsFit'
    BY <1>6, <2>2 DEF KiteInv, CountsFit
  <2>12. \A t \in T : t.packet.type = "ack" /\ Number(t) = requests =>
           HasTrace(Upper(t), Lower(t), requests)' /\ TracedUp(Upper(t), requests)'
    <3> SUFFICES ASSUME NEW t \in T, k = requests
                 PROVE  HasTrace(n, Lower(t), k)' /\ TracedUp(n, k)'
      BY <1>6, <2>5
    <3>1. HasTrace(u, n, k) /\ TracedUp(u, k)
      BY <1>1 DEF KiteInv, AckTraces, u, n, k
    <3>2. HasTrace(Up[n], n, k)' /\ TracedUp(Up[n], k)'
      BY <2>1, <2>10, <3>1 DEF TracedUp
    <3>3. TracedUp(n, k)'
      BY <2>1, <3>2, AncestorsStep DEF TracedUp
    <3> QED BY <2>5, <2>10, <3>3
  <2>13. AckTraces' /\ LastTraced'
    BY <1>6, <2>2, <2>9, <2>10, <2>12, TracesKept
  <2>14. HasPassed'
    BY <1>17, <2>5, <2>9
  <2> QED BY <1>15, <1>16, <2>9, <2>10, <2>11, <2>13, <2>14 DEF KiteInv
<1> QED BY <1>18, <1>19

----------------------------------------------------------------------------
(* Interests, Data and Nacks move no request.                              *)

\* One of them goes to all of S.
LEMMA OtherTo ==
  ASSUME AirFits, NEW took, IsTaken(took), NEW n, NEW entry, NEW S, NEW m, IsOther(m),
         F!Handle(n, took, entry, F!To(S, m))
  PROVE  OnlyThins
<1>1. \A f \in DOMAIN F!To(S, m) \ {App} : IsOther(F!To(S, m)[f])
  BY DEF F!To
<1> QED BY <1>1, OthersSent

LEMMA OtherMessages ==
  /\ \A x : IsOther([type |-> "nack", nonce |-> x])
  /\ IsOther(F!Data)
  /\ \A x, h : IsOther([type |-> "interest", nonce |-> x, hint |-> h])
<1>1. ASSUME NEW x, NEW h PROVE IsInterest([type |-> "interest", nonce |-> x, hint |-> h])
  BY DEF IsInterest
<1> QED BY <1>1 DEF IsOther, F!Data

LEMMA InterestStill ==
  ASSUME AirFits, NEW took, IsTaken(took), NEW n, NEW inFace, NEW i, IsInterest(i),
         F!IncomingInterest(n, took, inFace, i)
  PROVE  OnlyThins
<1> DEFINE nack == [type |-> "nack", nonce |-> i.nonce]
           j == F!Stripped(n, i)
<1>1. IsOther(nack) /\ IsOther(F!Data)
  BY OtherMessages
<1>2. IsOther(j) /\ j.nonce = i.nonce
  <2>1. PICK x, h : i = [type |-> "interest", nonce |-> x, hint |-> h]
    BY DEF IsInterest
  <2>2. j = [type |-> "interest", nonce |-> x, hint |-> IF n = OldSat THEN FALSE ELSE h]
    BY <2>1 DEF F!Stripped
  <2> QED BY <2>1, <2>2, OtherMessages
<1>3. CASE F!InterestLoop(n, took, inFace, i)
  <2>1. F!Handle(n, took, pit[n], F!To({inFace}, nack))
    BY <1>3 DEF F!InterestLoop
  <2> HIDE DEF nack
  <2> QED BY <1>1, <2>1, OtherTo
<1>4. CASE F!ContentStoreHit(n, took, inFace, i)
  <2>1. \E entry : F!Handle(n, took, entry, F!To({inFace}, F!Data))
    BY <1>4 DEF F!ContentStoreHit
  <2> QED BY <1>1, <2>1, OtherTo
<1>5. CASE F!ContentStoreMiss(n, took, inFace, i)
  <2>1. \E e : F!AfterReceiveInterest(n, took, inFace, j, e)
    BY <1>5 DEF F!ContentStoreMiss
  <2>2. PICK e : F!AfterReceiveInterest(n, took, inFace, j, e)
    BY <2>1
  <2>3. \/ \E entry : F!Handle(n, took, entry, F!To({inFace}, nack))
        \/ \E entry, S : F!Handle(n, took, entry, F!To(S, j))
    <3> HIDE DEF j
    <3> QED BY <1>2, <2>2 DEF F!AfterReceiveInterest
  <2> HIDE DEF nack, j
  <2> QED BY <1>1, <1>2, <2>3, OtherTo
<1> QED BY <1>3, <1>4, <1>5 DEF F!IncomingInterest

LEMMA DataStill ==
  ASSUME AirFits, NEW took, IsTaken(took), NEW n, NEW inFace, F!IncomingData(n, took, inFace)
  PROVE  OnlyThins
<1>1. CASE F!Handle(n, took, pit[n], F!Nothing)
  <2>1. \A f \in DOMAIN F!Nothing \ {App} : IsOther(F!Nothing[f])
    BY DEF F!Nothing
  <2> QED BY <1>1, <2>1, OthersSent
<1>2. CASE F!Handle(n, took, F!Satisfied(pit[n], inFace), F!To(F!Pending(pit[n], inFace), F!Data))
  BY <1>2, OtherMessages, OtherTo
<1> QED BY <1>1, <1>2 DEF F!IncomingData

LEMMA NackStill ==
  ASSUME AirFits, NEW took, IsTaken(took), NEW n, NEW inFace, NEW nonce,
         F!IncomingNack(n, took, inFace, nonce)
  PROVE  OnlyThins
<1>1. CASE F!Handle(n, took, pit[n], F!Nothing)
  <2>1. \A f \in DOMAIN F!Nothing \ {App} : IsOther(F!Nothing[f])
    BY DEF F!Nothing
  <2> QED BY <1>1, <2>1, OthersSent
<1>2. CASE F!NackAccepted(n, inFace, nonce)
  <2>1. PICK entry, S : F!Handle(n, took, entry, [f \in S |-> [type |-> "nack", nonce |-> pit[n].in[f].nonce]])
    BY <1>2 DEF F!IncomingNack
  <2> DEFINE sends == [f \in S |-> [type |-> "nack", nonce |-> pit[n].in[f].nonce]]
  <2>2. \A f \in DOMAIN sends \ {App} : IsOther(sends[f])
    BY OtherMessages
  <2> HIDE DEF sends
  <2> QED BY <2>1, <2>2, OthersSent DEF sends
<1> QED BY <1>1, <1>2 DEF F!IncomingNack

LEMMA Still ==
  ASSUME KiteInv, OnlyThins, CountsFit', UNCHANGED <<requests, acked, asking, traces>>,
         announced' \subseteq announced,
         \A a \in announced : a.stage = "rib" => a \in announced'
  PROVE  KiteInv'
<1>1. TraceFits' /\ NewestTraced'
  BY DEF KiteInv, TraceFits, NewestTraced
<1>2. \A n, k : HasAnnounced(n, k)' => HasAnnounced(n, k)
  BY DEF HasAnnounced
<1>3. \A n, f, k : HasTrace(n, f, k) => HasTrace(n, f, k)'
  BY DEF HasTrace
<1> QED BY <1>1, <1>2, <1>3, StandStill

----------------------------------------------------------------------------
(* The steps.                                                              *)

\* A new request is behind all others, which come from the same satellite.
LEMMA AssociationKept ==
  ASSUME KiteInv, OnAssociation
  PROVE  KiteInv'
<1> DEFINE k == requests + 1
           m == [type |-> "request", request |-> k]
           T == SentBy(Producer, F!To({Access}, m))
           rec == [request |-> k, face |-> App]
<1>1. /\ F!Handle(Producer, None, pit[Producer], F!To({Access}, m))
      /\ associations > 0 /\ associations' = associations - 1 /\ requests' = k
      /\ asking' = [asking EXCEPT ![Producer] = @ \cup {rec}]
      /\ UNCHANGED <<acked, traces, announced, moved>>
  BY DEF OnAssociation, Pass
<1>2. /\ acked \in Nat /\ requests \in Nat /\ associations \in Nat /\ acked <= requests /\ moved \in BOOLEAN
      /\ IF moved THEN requests + associations = MaxRequest /\ acked >= MaxRequest - 1
         ELSE requests + associations <= MaxRequest - 1
  BY DEF KiteInv, CountsFit
<1>3. MaxRequest \in Nat
  BY RequestAssumption
<1>4. /\ k \in Nat /\ k > requests /\ k <= MaxRequest /\ k > acked /\ k \in 1..k
      /\ k \in Request
  BY <1>1, <1>2, <1>3 DEF Request
<1>5. AccessOf(k) = Access
  BY <1>1, <1>2, <1>3 DEF AccessOf, Access
<1>6. /\ Access \in Inner /\ Access \in Node /\ Depth[Access] \in Nat /\ Producer \in Node
      /\ Producer \notin Inner
  BY <1>5, DepthFacts, PlaceAssumption
<1>7. /\ IsAir(air) /\ \A i \in DOMAIN air : i \in Nat /\ \A t \in air[i] : IsToken(t) => TokenFits(t)
  BY OthersAreNoTokens DEF KiteInv, AirFits, IsAir, PacketFits, IsOther
<1>8. IsAir(air') /\ AirGives(None, T)
  BY <1>1, <1>7, HandleGives DEF IsTaken
<1>9. \A t \in T : t = [link |-> <<Producer, Access>>, packet |-> m]
  BY SentTo
<1>10. ASSUME NEW t \in T
       PROVE  /\ IsToken(t) /\ Number(t) = k /\ Place(t) = 0 - (Depth[Access] + 1) /\ TokenFits(t)'
              /\ t.packet.type = "request"
  <2>1. t.link = <<Producer, Access>> /\ t.packet = m /\ t = [link |-> <<Producer, Access>>, packet |-> m]
    BY <1>9
  <2>2. m \in RequestMessage /\ m.type = "request" /\ m.request = k
    BY <1>4 DEF RequestMessage
  <2>3. /\ t \in [link : Node \X Node, packet : RequestMessage]
        /\ t.packet.type = "request" /\ t.packet.request = k /\ t.link[1] = Producer /\ t.link[2] = Access
    BY <1>6, <2>1, <2>2
  <2>4. /\ IsToken(t) /\ Number(t) = k /\ Place(t) = 0 - (Depth[Access] + 1)
        /\ Upper(t) = Access /\ Lower(t) = Producer
    BY <2>3 DEF IsToken, Number, Place, Upper, Lower
  <2>5. Climbs(Access, Producer, k)
    BY <1>5, <1>6 DEF Climbs
  <2>6. k \in acked' + 1 .. requests'
    BY <1>1, <1>2, <1>4
  <2> QED BY <2>3, <2>4, <2>5, <2>6 DEF TokenFits
<1>11. \A t, u \in T : t = u
  BY <1>9
<1> HIDE DEF m, T
<1>12. PICK d \in {0, 1}, z \in Nat : \A i \in DOMAIN air' : \A t \in air'[i] :
         \/ i <= z /\ i + d \in DOMAIN air /\ t \in air[i + d]
         \/ i = z + 1 /\ t \in T
  BY <1>8 DEF AirGives
<1>13. \A i \in DOMAIN air' : i \in Nat
  BY <1>8 DEF IsAir
<1>14. ASSUME NEW i \in DOMAIN air, NEW t \in air[i], IsToken(t)
       PROVE  /\ TokenFits(t) /\ Number(t) < k /\ Number(t) # k /\ Number(t) \in Nat
              /\ Place(t) \in Int /\ Place(t) >= 0 - (Depth[Access] + 1)
  <2>1. TokenFits(t) /\ Number(t) \in acked + 1 .. requests /\ Place(t) \in Int
    BY <1>7, <1>14, TokenPlace DEF TokenFits
  <2>2. Number(t) < k /\ Number(t) # k /\ Number(t) \in Nat
    BY <1>2, <2>1
  <2>3. AccessOf(Number(t)) = Access
    BY <1>1, <1>2, <1>3, <2>1 DEF AccessOf, Access
  <2>4. Depth[Upper(t)] <= Depth[Access] /\ Depth[Upper(t)] \in Nat
    BY <2>1, <2>3, DepthFacts DEF TokenFits, Climbs
  <2>5. Place(t) >= 0 - (Depth[Access] + 1)
    BY <1>6, <2>4 DEF Place
  <2> QED BY <2>1, <2>2, <2>5
<1> HIDE DEF k
<1>15. AirFits'
  <2>1. ASSUME NEW i \in DOMAIN air', NEW t \in air'[i] PROVE PacketFits(t)'
    <3>1. CASE t \in T
      BY <1>10, <3>1 DEF PacketFits
    <3>2. CASE i + d \in DOMAIN air /\ t \in air[i + d] /\ IsToken(t)
      <4>1. TokenFits(t) /\ Number(t) \in acked + 1 .. requests /\ requests < requests'
        BY <1>1, <1>4, <1>14, <3>2 DEF TokenFits
      <4>2. Number(t) \in acked + 1 .. requests'
        BY <1>1, <1>2, <1>4, <4>1
      <4> QED BY <1>1, <3>2, <4>1, <4>2 DEF PacketFits, TokenFits
    <3>3. CASE i + d \in DOMAIN air /\ t \in air[i + d] /\ ~IsToken(t)
      BY <3>3 DEF KiteInv, AirFits, PacketFits
    <3> QED BY <1>12, <3>1, <3>2, <3>3
  <2> QED BY <1>8, <2>1 DEF AirFits
<1>16. Alone'
  <2> SUFFICES ASSUME NEW i \in DOMAIN air', NEW j \in DOMAIN air', NEW t \in air'[i], NEW u \in air'[j],
                      IsToken(t), IsToken(u), Number(t) = Number(u)
               PROVE  i = j /\ t = u
    BY DEF Alone
  <2>1. (i = z + 1 /\ t \in T) \/ (i + d \in DOMAIN air /\ t \in air[i + d] /\ Number(t) # k)
    BY <1>12, <1>14
  <2>2. (j = z + 1 /\ u \in T) \/ (j + d \in DOMAIN air /\ u \in air[j + d] /\ Number(u) # k)
    BY <1>12, <1>14
  <2>3. CASE t \in T /\ i = z + 1 /\ u \in T /\ j = z + 1
    BY <1>11, <2>3
  <2>4. CASE i + d \in DOMAIN air /\ t \in air[i + d] /\ j + d \in DOMAIN air /\ u \in air[j + d]
    <3>1. i + d = j + d /\ t = u
      BY <2>4 DEF KiteInv, Alone
    <3> QED BY <1>13, <3>1
  <2> QED BY <1>10, <2>1, <2>2, <2>3, <2>4
<1>17. InOrder'
  <2> SUFFICES ASSUME NEW i \in DOMAIN air', NEW j \in DOMAIN air', NEW t \in air'[i], NEW u \in air'[j],
                      IsToken(t), IsToken(u), Number(t) < Number(u)
               PROVE  Place(t) > Place(u) \/ (Place(t) = Place(u) /\ i < j)
    BY DEF InOrder
  <2>1. i + d \in DOMAIN air /\ t \in air[i + d] /\ i <= z
    <3>1. CASE t \in T
      <4>1. Number(t) = k /\ (Number(u) = k \/ (Number(u) < k /\ Number(u) \in Nat))
        BY <1>10, <1>12, <1>14, <3>1
      <4> QED BY <1>4, <4>1
    <3> QED BY <1>12, <3>1
  <2>2. CASE u \in T /\ j = z + 1
    BY <1>6, <1>10, <1>13, <1>14, <2>1, <2>2
  <2>3. CASE j + d \in DOMAIN air /\ u \in air[j + d]
    <3>1. Place(t) > Place(u) \/ (Place(t) = Place(u) /\ i + d < j + d)
      BY <2>1, <2>3 DEF KiteInv, InOrder
    <3> QED BY <1>13, <3>1
  <2> QED BY <1>12, <2>2, <2>3
<1>18. ASSUME NEW i \in DOMAIN air', NEW t \in air'[i], IsToken(t)
       PROVE  (Number(t) = k /\ t.packet.type = "request") \/ \E j \in DOMAIN air : t \in air[j]
  BY <1>10, <1>12
<1>19. CountsFit'
  BY <1>1, <1>2, <1>3, <1>4 DEF CountsFit, k
<1>20. /\ DOMAIN asking' = Node /\ asking'[Producer] = asking[Producer] \cup {rec}
       /\ \A v \in Node \ {Producer} : asking'[v] = asking[v]
  BY <1>1, <1>6 DEF KiteInv
<1>21. rec.request = k /\ rec.face = App
  OBVIOUS
<1> HIDE DEF rec
<1>22. \A v \in Node : \A r \in asking[v] : RecordFits(v, r) /\ RecordFits(v, r)' /\ r.request # k
  <2> SUFFICES ASSUME NEW v \in Node, NEW r \in asking[v]
               PROVE  RecordFits(v, r) /\ RecordFits(v, r)' /\ r.request # k
    OBVIOUS
  <2>1. RecordFits(v, r) /\ r.request \in 1..requests
    BY DEF KiteInv, RecordsFit, RecordFits
  <2>2. r.request \in 1..requests' /\ r.request # k
    BY <1>1, <1>2, <1>4, <2>1
  <2> QED BY <2>1, <2>2 DEF RecordFits
<1>23. RecordsFit'
  <2> SUFFICES ASSUME NEW v \in Node, NEW r \in asking'[v]
               PROVE  /\ RecordFits(v, r)' /\ \A q \in asking'[v] : q.request = r.request => q = r
    BY DEF RecordsFit
  <2>1. RecordFits(v, r)'
    <3>1. CASE r \in asking[v]
      BY <1>22, <3>1
    <3>2. CASE v = Producer /\ r = rec
      BY <1>1, <1>4, <1>21, <3>2 DEF RecordFits
    <3> QED BY <1>20, <3>1, <3>2
  <2>2. \A q \in asking'[v] : q.request = r.request => q = r
    BY <1>20, <1>21, <1>22 DEF KiteInv, RecordsFit
  <2> QED BY <2>1, <2>2
<1>24. HasPassed'
  <2> SUFFICES ASSUME NEW v \in Inner, NEW r \in asking'[v], NEW i \in DOMAIN air', NEW t \in air'[i],
                      IsToken(t), Number(t) = r.request
               PROVE  Place(t) > 0 - (Depth[v] + 1)
    BY DEF HasPassed
  <2>1. v \in Node /\ v # Producer /\ r \in asking[v]
    BY <1>6, <1>20, DepthFacts
  <2>2. PICK j \in DOMAIN air : t \in air[j]
    BY <1>18, <1>22, <2>1
  <2> QED BY <2>1, <2>2 DEF KiteInv, HasPassed
<1>25. TraceFits' /\ NewestTraced'
  <2>1. \A x \in 1..requests : x \in 1..requests'
    BY <1>1, <1>2, <1>4
  <2>2. TraceFits'
    BY <1>1, <2>1 DEF KiteInv, TraceFits
  <2>3. NewestTraced'
    BY <1>1 DEF KiteInv, NewestTraced
  <2> QED BY <2>2, <2>3
<1>26. EarlierGone'
  <2> SUFFICES ASSUME NEW v \in Inner, NEW j \in Request, HasAnnounced(v, j),
                      NEW i \in DOMAIN air', NEW t \in air'[i], IsToken(t), Number(t) < j
               PROVE  Place(t) > Depth[v]
    BY <1>1 DEF EarlierGone, HasAnnounced
  <2>1. j \in 1..requests
    BY DepthFacts DEF KiteInv, TraceFits, HasAnnounced
  <2>2. Number(t) # k
    BY <1>2, <1>4, <2>1
  <2>3. PICK l \in DOMAIN air : t \in air[l]
    BY <1>18, <2>2
  <2> QED BY <2>3 DEF KiteInv, EarlierGone
<1>27. AckTraces'
  <2> SUFFICES ASSUME NEW i \in DOMAIN air', NEW t \in air'[i], t.packet.type = "ack", Number(t) = k
               PROVE  FALSE
    BY <1>1 DEF AckTraces
  <2>1. PICK j \in DOMAIN air : t \in air[j]
    BY <1>18 DEF IsToken
  <2> QED BY <1>14, <2>1 DEF IsToken
<1>28. LastTraced'
  BY <1>1, <1>2, <1>4 DEF LastTraced
<1> QED BY <1>15, <1>16, <1>17, <1>19, <1>20, <1>23, <1>24, <1>25, <1>26, <1>27, <1>28 DEF KiteInv

LEMMA UpdateKept ==
  ASSUME KiteInv, Predict \/ Move
  PROVE  KiteInv'
<1>1. air' = air /\ UNCHANGED <<requests, acked, asking, traces, announced>>
  BY DEF Predict, Move, forwardVars
<1>2. OnlyThins
  BY <1>1, AirStays DEF KiteInv
<1>3. CountsFit'
  <2>1. CountsFit /\ MaxRequest \in Nat
    BY RequestAssumption DEF KiteInv
  <2>2. CASE Predict
    BY <2>1, <2>2 DEF CountsFit, Predict, forwardVars
  <2>3. CASE Move
    BY <2>1, <2>3 DEF CountsFit, Move, Calm
  <2> QED BY <2>2, <2>3
<1> QED BY <1>1, <1>2, <1>3, Still

\* Announcements are taken in order, so that one does not replace a later one.
LEMMA SlAnnounceKept ==
  ASSUME KiteInv, SlAnnounce
  PROVE  KiteInv'
<1>1. PICK a \in announced :
        /\ a.stage = "rib" /\ First(a)
        /\ announced' = (announced \ {a}) \cup {[a EXCEPT !.stage = "done"]}
        /\ Traced(a.node, [f \in DOMAIN traces[a.node] \cup {a.face} |->
                             IF f = a.face THEN a.request ELSE traces[a.node][f]])
  BY DEF SlAnnounce
<1> DEFINE n == a.node
           k == a.request
           done == [a EXCEPT !.stage = "done"]
           trace == [f \in DOMAIN traces[n] \cup {a.face} |-> IF f = a.face THEN k ELSE traces[n][f]]
<1>2. /\ traces' = [traces EXCEPT ![n] = trace] /\ air' = air
      /\ UNCHANGED <<associations, requests, acked, asking, moved>>
  BY <1>1 DEF Traced
<1>3. n \in Node /\ k \in 1..requests /\ DOMAIN traces = Node /\ requests \in Nat
  BY DEF KiteInv, TraceFits, CountsFit
<1>4. /\ DOMAIN traces' = Node /\ traces'[n] = trace /\ \A v \in Node \ {n} : traces'[v] = traces[v]
  BY <1>2, <1>3
<1>5. /\ DOMAIN trace = DOMAIN traces[n] \cup {a.face} /\ trace[a.face] = k
      /\ \A f \in DOMAIN traces[n] : f # a.face => trace[f] = traces[n][f]
  OBVIOUS
<1>6. done.node = n /\ done.request = k /\ done.stage = "done" /\ IsAnnouncement(done)
  BY DEF KiteInv, TraceFits, IsAnnouncement
<1> HIDE DEF trace, done
<1>7. OnlyThins
  BY <1>2, AirStays DEF KiteInv
<1>8. CountsFit'
  BY <1>2 DEF KiteInv, CountsFit
<1>9. \A b \in announced : b.node = n => b.request >= k
  BY <1>1, <1>3 DEF First, KiteInv, TraceFits
<1>10. announced' = (announced \ {a}) \cup {done}
  BY <1>1 DEF done
<1>11. \A v \in Node : \A f \in DOMAIN traces'[v] :
         \/ f \in DOMAIN traces[v] /\ traces'[v][f] = traces[v][f]
         \/ v = n /\ f = a.face /\ traces'[v][f] = k
  BY <1>3, <1>4, <1>5
<1>12. TraceFits'
  <2>1. \A b \in announced' : IsAnnouncement(b) /\ b.node \in Node /\ b.request \in 1..requests
    BY <1>3, <1>6, <1>10 DEF KiteInv, TraceFits
  <2>2. \A v \in Node : \A f \in DOMAIN traces'[v] : traces'[v][f] \in 1..requests
    BY <1>3, <1>11 DEF KiteInv, TraceFits
  <2> QED BY <1>2, <1>4, <2>1, <2>2 DEF TraceFits
<1>13. NewestTraced'
  <2> SUFFICES ASSUME NEW v \in Inner, NEW f \in DOMAIN traces'[v], NEW b \in announced', b.node = v
               PROVE  b.request >= traces'[v][f]
    BY DEF NewestTraced
  <2>1. v \in Node /\ (b \in announced \/ b = done)
    BY <1>10, DepthFacts
  <2>2. CASE f \in DOMAIN traces[v] /\ traces'[v][f] = traces[v][f]
    <3>1. CASE b \in announced
      BY <2>2, <3>1 DEF KiteInv, NewestTraced
    <3>2. CASE b = done
      BY <1>6, <2>2, <3>2 DEF KiteInv, NewestTraced
    <3> QED BY <2>1, <3>1, <3>2
  <2>3. CASE v = n /\ f = a.face /\ traces'[v][f] = k
    BY <1>3, <1>6, <1>9, <2>1, <2>3
  <2> QED BY <1>11, <2>1, <2>2, <2>3
<1>14. ASSUME NEW v \in Inner, NEW j \in Request, HasAnnounced(v, j)' PROVE HasAnnounced(v, j)
  <2>1. v \in Node
    BY DepthFacts
  <2>2. CASE \E b \in announced' : b.node = v /\ b.request = j
    BY <1>6, <1>10, <2>2 DEF HasAnnounced
  <2>3. CASE \E f \in DOMAIN traces'[v] : traces'[v][f] = j
    BY <1>11, <2>1, <2>3 DEF HasAnnounced
  <2> QED BY <1>14, <2>2, <2>3 DEF HasAnnounced
<1>15. ASSUME NEW v \in Inner, NEW f, HasTrace(v, f, requests) PROVE HasTrace(v, f, requests)'
  <2>1. v \in Node
    BY DepthFacts
  <2>2. CASE \E b \in announced : b.node = v /\ b.face = f /\ b.request = requests /\ b.stage = "rib"
    <3>1. PICK b \in announced : b.node = v /\ b.face = f /\ b.request = requests /\ b.stage = "rib"
      BY <2>2
    <3>2. CASE b = a
      <4>1. f \in DOMAIN traces'[v] /\ traces'[v][f] = requests
        BY <1>4, <1>5, <3>1, <3>2
      <4> QED BY <1>2, <4>1 DEF HasTrace
    <3>3. CASE b # a
      <4>1. b \in announced'
        BY <1>10, <3>1, <3>3
      <4> QED BY <1>2, <3>1, <4>1 DEF HasTrace
    <3> QED BY <3>2, <3>3
  <2>3. CASE f \in DOMAIN traces[v] /\ traces[v][f] = requests
    <3>1. CASE v = n /\ f = a.face
      <4>1. k >= requests
        BY <2>3, <3>1 DEF KiteInv, NewestTraced
      <4>2. k = requests
        BY <1>3, <4>1
      <4>3. f \in DOMAIN traces'[v] /\ traces'[v][f] = requests
        BY <1>4, <1>5, <3>1, <4>2
      <4> QED BY <1>2, <4>3 DEF HasTrace
    <3>2. CASE ~(v = n /\ f = a.face)
      <4>1. f \in DOMAIN traces'[v] /\ traces'[v][f] = requests
        BY <1>4, <1>5, <2>1, <2>3, <3>2
      <4> QED BY <1>2, <4>1 DEF HasTrace
    <3> QED BY <3>1, <3>2
  <2> QED BY <1>15, <2>2, <2>3 DEF HasTrace
<1> QED BY <1>2, <1>7, <1>8, <1>12, <1>13, <1>14, <1>15, StandStill

LEMMA TraceExpiresKept ==
  ASSUME KiteInv, NEW n \in Node, NEW f, TraceExpires(n, f)
  PROVE  KiteInv'
<1> DEFINE trace == Restrict(traces[n], DOMAIN traces[n] \ {f})
<1>1. /\ traces' = [traces EXCEPT ![n] = trace] /\ air' = air
      /\ UNCHANGED <<associations, requests, acked, asking, moved, announced>>
      /\ f \in DOMAIN traces[n] /\ traces[n][f] < requests
  BY DEF TraceExpires, Expires, Traced
<1>2. /\ DOMAIN trace = DOMAIN traces[n] \ {f} /\ \A g \in DOMAIN trace : trace[g] = traces[n][g]
  BY DEF Restrict
<1> HIDE DEF trace
<1>3. DOMAIN traces = Node /\ DOMAIN traces' = Node /\ traces'[n] = trace
      /\ \A v \in Node \ {n} : traces'[v] = traces[v]
  BY <1>1 DEF KiteInv, TraceFits
<1>4. \A v \in Node : \A g \in DOMAIN traces'[v] : g \in DOMAIN traces[v] /\ traces'[v][g] = traces[v][g]
  BY <1>2, <1>3
<1>5. \A v \in Node : \A g \in DOMAIN traces[v] : g \in DOMAIN traces'[v] \/ (v = n /\ g = f)
  BY <1>2, <1>3
<1>6. OnlyThins /\ CountsFit'
  BY <1>1, AirStays DEF KiteInv, CountsFit
<1>7. TraceFits'
  BY <1>1, <1>3, <1>4 DEF KiteInv, TraceFits
<1>8. NewestTraced'
  BY <1>1, <1>4, DepthFacts DEF KiteInv, NewestTraced
<1>9. \A v \in Inner, j \in Request : HasAnnounced(v, j)' => HasAnnounced(v, j)
  BY <1>1, <1>4, DepthFacts DEF HasAnnounced
<1>10. ASSUME NEW v \in Inner, NEW g, HasTrace(v, g, requests) PROVE HasTrace(v, g, requests)'
  <2>1. v \in Node /\ requests \in Nat
    BY DepthFacts DEF KiteInv, CountsFit
  <2>2. CASE g \in DOMAIN traces[v] /\ traces[v][g] = requests
    <3>1. ~(v = n /\ g = f)
      BY <1>1, <2>1, <2>2
    <3> QED BY <1>1, <1>4, <1>5, <2>1, <2>2, <3>1 DEF HasTrace
  <2>3. CASE \E b \in announced : b.node = v /\ b.face = g /\ b.request = requests /\ b.stage = "rib"
    BY <1>1, <2>3 DEF HasTrace
  <2> QED BY <1>10, <2>2, <2>3 DEF HasTrace
<1> QED BY <1>1, <1>6, <1>7, <1>8, <1>9, <1>10, StandStill

LEMMA ReceiveKept ==
  ASSUME KiteInv, Receive
  PROVE  KiteInv'
<1>1. PICK s \in Head(air) :
        CASE s.packet.type = "request" -> IncomingRequest(s.link[2], s, s.link[1], s.packet.request)
          [] s.packet.type = "ack"     -> IncomingKiteAck(s.link[2], s, s.link[1], s.packet.request)
          [] OTHER -> F!Incoming(s) /\ UNCHANGED <<appVars, kiteVars>>
  BY DEF Receive
<1>2. air # <<>> /\ AirFits
  BY DEF Receive, KiteInv
<1>3. CASE s.packet.type = "request"
  <2>1. Arriving(s)
    BY <1>2, <1>3 DEF Arriving, IsToken
  <2>2. IncomingRequest(s.link[2], s, s.link[1], s.packet.request)
    BY <1>1, <1>3
  <2> QED BY <1>3, <2>1, <2>2, RequestKept
<1>4. CASE s.packet.type = "ack"
  <2>1. Arriving(s)
    BY <1>2, <1>4 DEF Arriving, IsToken
  <2>2. IncomingKiteAck(s.link[2], s, s.link[1], s.packet.request)
    BY <1>1, <1>4
  <2> QED BY <1>4, <2>1, <2>2, AckKept
<1>5. CASE s.packet.type \notin {"request", "ack"}
  <2>1. F!Incoming(s) /\ UNCHANGED <<appVars, kiteVars>>
    BY <1>1, <1>5
  <2>2. IsTaken(s)
    BY <1>2 DEF IsTaken
  <2>3. PacketFits(s)
    <3>1. 1 \in DOMAIN air /\ s \in air[1]
      BY <1>2 DEF AirFits, IsAir
    <3> QED BY <1>2, <3>1 DEF AirFits
  <2>4. OnlyThins /\ moved' = moved
    <3>1. CASE IsInterest(s.packet)
      <4>1. s.packet.type = "interest"
        <5>1. PICK x, h : s.packet = [type |-> "interest", nonce |-> x, hint |-> h]
          BY <3>1 DEF IsInterest
        <5> QED BY <5>1
      <4>2. F!IncomingInterest(s.link[2], s, s.link[1], s.packet)
        BY <2>1, <4>1 DEF F!Incoming
      <4> QED BY <1>2, <2>2, <3>1, <4>2, InterestStill DEF F!IncomingInterest
    <3>2. CASE s.packet.type = "data"
      <4>1. F!IncomingData(s.link[2], s, s.link[1])
        BY <2>1, <3>2 DEF F!Incoming
      <4> QED BY <1>2, <2>2, <4>1, DataStill DEF F!IncomingData
    <3>3. CASE s.packet.type = "nack"
      <4>1. F!IncomingNack(s.link[2], s, s.link[1], s.packet.nonce)
        BY <2>1, <3>3 DEF F!Incoming
      <4> QED BY <1>2, <2>2, <4>1, NackStill DEF F!IncomingNack
    <3> QED BY <1>5, <2>3, <3>1, <3>2, <3>3 DEF PacketFits, IsToken
  <2>5. UNCHANGED <<associations, requests, acked, asking, traces, announced>>
    BY <2>1 DEF kiteVars
  <2>6. CountsFit'
    BY <2>4, <2>5 DEF KiteInv, CountsFit
  <2> QED BY <2>4, <2>5, <2>6, Still
<1> QED BY <1>3, <1>4, <1>5

LEMMA OthersKept ==
  ASSUME KiteInv,
         \/ AfterKiteUpdate \/ Pull \/ Express \/ Produce
         \/ \E n \in Node : FinalizeNow(n) \/ EntryExpires(n)
         \/ UNCHANGED vars
  PROVE  KiteInv'
<1>1. AirFits /\ CountsFit
  BY DEF KiteInv
<1>2. CASE AfterKiteUpdate
  <2>1. /\ air' = air /\ moved' = moved /\ UNCHANGED <<associations, requests, acked, asking, traces>>
        /\ \E a \in announced : a.stage = "done" /\ announced' = announced \ {a}
    BY <1>2 DEF AfterKiteUpdate, forwardVars
  <2>2. OnlyThins /\ CountsFit'
    BY <1>1, <2>1, AirStays DEF CountsFit
  <2> QED BY <2>1, <2>2, Still
<1>3. CASE Pull
  <2>1. PICK p \in pulls :
          Pass(p.node, None, F!To({p.face}, [type |-> "interest", nonce |-> p.nonce, hint |-> FALSE]))
    BY <1>3 DEF Pull
  <2> DEFINE m == [type |-> "interest", nonce |-> p.nonce, hint |-> FALSE]
  <2>2. F!Handle(p.node, None, pit[p.node], F!To({p.face}, m)) /\ moved' = moved
    BY <2>1 DEF Pass
  <2>3. IsOther(m) /\ IsTaken(None)
    BY OtherMessages DEF IsTaken
  <2> HIDE DEF m
  <2>4. UNCHANGED <<associations, requests, acked, asking, traces, announced>>
    BY <1>3 DEF Pull
  <2>5. OnlyThins /\ CountsFit'
    BY <1>1, <2>2, <2>3, <2>4, OtherTo DEF CountsFit
  <2> QED BY <2>4, <2>5, Still
<1>4. CASE Express
  <2>1. UNCHANGED <<associations, requests, acked, asking, traces, announced>>
    BY <1>4 DEF Express, kiteVars
  <2> DEFINE i == [type |-> "interest", nonce |-> nextNonce, hint |-> FALSE]
  <2>2. F!IncomingInterest(Consumer, None, App, i)
    BY <1>4 DEF Express, F!Express
  <2>3. IsInterest(i) /\ IsTaken(None)
    BY DEF IsInterest, IsTaken
  <2> HIDE DEF i
  <2>4. OnlyThins /\ moved' = moved
    BY <1>1, <2>2, <2>3, InterestStill DEF F!IncomingInterest
  <2>5. CountsFit'
    BY <1>1, <2>1, <2>4 DEF CountsFit
  <2> QED BY <2>1, <2>4, <2>5, Still
<1>5. CASE Produce
  <2>1. UNCHANGED <<associations, requests, acked, asking, traces, announced>>
    BY <1>5 DEF Produce, kiteVars
  <2>2. F!IncomingData(Producer, App, App)
    BY <1>5 DEF Produce, F!Produce
  <2>3. OnlyThins /\ moved' = moved
    BY <1>1, <2>2, DataStill DEF F!IncomingData, IsTaken
  <2>4. CountsFit'
    BY <1>1, <2>1, <2>3 DEF CountsFit
  <2> QED BY <2>1, <2>3, <2>4, Still
<1>6. CASE (\E n \in Node : FinalizeNow(n) \/ EntryExpires(n)) \/ UNCHANGED vars
  <2>1. UNCHANGED <<associations, requests, acked, asking, traces, announced>>
    BY <1>6 DEF FinalizeNow, EntryExpires, kiteVars, vars
  <2>2. air' = air /\ moved' = moved
    BY <1>6 DEF FinalizeNow, EntryExpires, F!FinalizeNow, F!EntryExpires, F!Finalize, vars, forwardVars
  <2>3. OnlyThins /\ CountsFit'
    BY <1>1, <2>1, <2>2, AirStays DEF CountsFit
  <2> QED BY <2>1, <2>3, Still
<1> QED BY <1>2, <1>3, <1>4, <1>5, <1>6

LEMMA KiteInvStep ==
  ASSUME KiteInv, [Next]_vars
  PROVE  KiteInv'
<1>1. CASE OnAssociation
  BY <1>1, AssociationKept
<1>2. CASE Predict \/ Move
  BY <1>2, UpdateKept
<1>3. CASE SlAnnounce
  BY <1>3, SlAnnounceKept
<1>4. CASE Receive
  BY <1>4, ReceiveKept
<1>5. CASE \E n \in Node : \E f \in Node : TraceExpires(n, f)
  BY <1>5, TraceExpiresKept
<1>6. CASE \/ AfterKiteUpdate \/ Pull \/ Express \/ Produce
           \/ \E n \in Node : FinalizeNow(n) \/ EntryExpires(n)
           \/ UNCHANGED vars
  BY <1>6, OthersKept
<1> QED BY <1>1, <1>2, <1>3, <1>4, <1>5, <1>6 DEF Next

LEMMA KiteInvInit ==
  ASSUME Init
  PROVE  KiteInv
<1>1. /\ air = <<>> /\ moved = FALSE /\ associations = 1 /\ requests = 0 /\ acked = 0
      /\ asking = [n \in Node |-> {}] /\ traces = [n \in Node |-> NoTrace] /\ announced = {}
  BY DEF Init, F!Init
<1>2. DOMAIN NoTrace = {}
  BY DEF NoTrace
<1>3. CountsFit
  <2>1. MaxRequest \in Nat /\ 0 + 1 <= MaxRequest - 1 /\ 0 \in 0..0 /\ 1 \in Nat /\ FALSE \in BOOLEAN
    BY RequestAssumption
  <2> QED BY <1>1, <2>1 DEF CountsFit
<1>4. DOMAIN air = {} /\ IsAir(air)
  <2>1. air \in Seq({})
    BY <1>1
  <2> QED BY <1>1, <2>1 DEF IsAir
<1>5. AirFits /\ Alone /\ InOrder /\ HasPassed /\ EarlierGone /\ AckTraces
  BY <1>4 DEF AirFits, Alone, InOrder, HasPassed, EarlierGone, AckTraces
<1>6. DOMAIN asking = Node /\ RecordsFit
  BY <1>1 DEF RecordsFit
<1>7. TraceFits /\ NewestTraced /\ LastTraced
  BY <1>1, <1>2, DepthFacts DEF TraceFits, NewestTraced, LastTraced
<1> QED BY <1>3, <1>5, <1>6, <1>7 DEF KiteInv

LEMMA KiteInvPathTraced ==
  ASSUME KiteInv
  PROVE  PathTraced
<1> SUFFICES ASSUME associations = 0, requests > 0, acked = requests
             PROVE  HasTrace(Access, Producer, acked) /\ TracedUp(Access, acked)
  BY DEF PathTraced, Reached
<1>1. HasTrace(AccessOf(acked), Producer, acked) /\ TracedUp(AccessOf(acked), acked)
  BY DEF KiteInv, LastTraced
<1>2. AccessOf(acked) = Access
  BY RequestAssumption DEF KiteInv, CountsFit, AccessOf, Access
<1> QED BY <1>1, <1>2

\* The trace of a moved producer: when it has the Ack of its last request, each
\* node on the path from the RV down to it (onIncomingKiteAck, slAnnounce) has
\* the route of that request, or will when the RIB has taken it, in every
\* network whose routes lead to the RV and for any number of requests.
THEOREM ProducerTraced == Spec => []PathTraced
<1>1. Init => KiteInv
  BY KiteInvInit
<1>2. KiteInv /\ [Next]_vars => KiteInv'
  BY KiteInvStep
<1>3. KiteInv => PathTraced
  BY KiteInvPathTraced
<1> QED BY <1>1, <1>2, <1>3, PTL DEF Spec
=============================================================================
