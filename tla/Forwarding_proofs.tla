-------------------------- MODULE Forwarding_proofs --------------------------
(***************************************************************************)
(* Proof of flow balance, for every network, FIB, strategy and number of   *)
(* Interests: over no link comes more Data than Interests went out.        *)
(*                                                                         *)
(* Each Interest sent over a link is good for one Data packet.  It is on   *)
(* its way, or its in-record is there, or it has been used up: by Data, by *)
(* a Nack, by one in-record that stands for several Interests, or by the   *)
(* end of the entry.                                                       *)
(***************************************************************************)
EXTENDS Forwarding, FiniteSetTheorems, SequenceTheorems, TLAPS

----------------------------------------------------------------------------
(* The inductive invariant.                                                *)

One(b) == IF b THEN 1 ELSE 0

\* The positions of q with an Interest on link e.
IsInterestOn(s, e) == s.link = e /\ s.packet.type = "interest"
Carrying(q, e) == {i \in DOMAIN q : \E s \in q[i] : IsInterestOn(s, e)}

\* An Interest from f waits in the entry.
Holds(entry, f) == entry # None /\ f \in DOMAIN entry.in

\* A handler sends at most one packet over a link.
OnePerLink(q) == \A i \in DOMAIN q : \A s, t \in q[i] : s.link = t.link => s = t

LinkBalance(e) ==
  datas[<<e[2], e[1]>>] + One(Holds(pit[e[2]], e[1])) + Cardinality(Carrying(air, e))
    <= Len(interests[e])
AppBalance == answered + One(Holds(pit[Consumer], App)) <= expressed
Balance == AppBalance /\ \A e \in Link : LinkBalance(e)

\* Records are about neighbours, and the application of a host.
EntryFits(n, e) ==
  /\ IsEntry(e) /\ DOMAIN e = {"nonce", "hint", "in", "out", "satisfied", "timer"}
  /\ \A f \in DOMAIN e.in \cup DOMAIN e.out : <<n, f>> \in Edge

FlowInv ==
  /\ TypeOK
  /\ \A n \in Node : pit[n] = None \/ EntryFits(n, pit[n])
  /\ OnePerLink(air)
  /\ strategy \in Strategies /\ hops \in {NextHops} \cup NewHops
  /\ expressed < nextNonce /\ (~moved => nextNonce <= MaxNonce)
  /\ Balance

----------------------------------------------------------------------------
(* Packets on their way.                                                   *)

\* A sequence has finitely many positions.
LEMMA CarryingFinite ==
  ASSUME NEW S, NEW q \in Seq(S), NEW e
  PROVE  IsFiniteSet(Carrying(q, e)) /\ Cardinality(Carrying(q, e)) \in Nat
<1>1. Carrying(q, e) \subseteq 1..Len(q) /\ Len(q) \in Nat
  BY DEF Carrying
<1>2. IsFiniteSet(1..Len(q))
  BY <1>1, FS_Interval
<1> QED BY <1>1, <1>2, FS_Subset, FS_CardinalityType

\* What is sent is one more position, if there is an Interest on the link.
LEMMA CarryingAppend ==
  ASSUME NEW q \in Seq(SUBSET Packets), NEW S \in SUBSET Packets, NEW e
  PROVE  Cardinality(Carrying(Append(q, S), e)) =
           Cardinality(Carrying(q, e)) + One(\E s \in S : IsInterestOn(s, e))
<1> DEFINE n == Len(q) + 1
<1>1. /\ DOMAIN Append(q, S) = DOMAIN q \cup {n} /\ n \notin DOMAIN q
      /\ Append(q, S)[n] = S /\ \A i \in DOMAIN q : Append(q, S)[i] = q[i]
  OBVIOUS
<1>2. n \notin Carrying(q, e)
  BY <1>1 DEF Carrying
<1>3. CASE \E s \in S : IsInterestOn(s, e)
  <2>1. Carrying(Append(q, S), e) = Carrying(q, e) \cup {n}
    <3> HIDE DEF n
    <3> QED BY <1>1, <1>3 DEF Carrying
  <2> HIDE DEF n
  <2> QED BY <1>2, <1>3, <2>1, CarryingFinite, FS_AddElement DEF One
<1>4. CASE ~\E s \in S : IsInterestOn(s, e)
  <2>1. Carrying(Append(q, S), e) = Carrying(q, e)
    <3> HIDE DEF n
    <3> QED BY <1>1, <1>4 DEF Carrying
  <2> QED BY <1>4, <2>1, CarryingFinite DEF One
<1> QED BY <1>3, <1>4

\* Without its first set, a sequence has the same positions but the first.
LEMMA CarryingTail ==
  ASSUME NEW q \in Seq(SUBSET Packets), q # <<>>, NEW e
  PROVE  Cardinality(Carrying(Tail(q), e)) <= Cardinality(Carrying(q, e) \ {1})
<1> DEFINE S == Carrying(Tail(q), e)
           T == Carrying(q, e) \ {1}
           g == [i \in S |-> i + 1]
<1>1. /\ Tail(q) \in Seq(SUBSET Packets)
      /\ \A i \in DOMAIN Tail(q) : /\ i \in Nat /\ i + 1 \in DOMAIN q /\ i + 1 # 1
                                   /\ Tail(q)[i] = q[i + 1]
  OBVIOUS
<1>2. \A i \in S : i \in Nat /\ i + 1 \in T
  BY <1>1 DEF Carrying
<1>3. g \in Injection(S, T)
  <2> HIDE DEF S, T
  <2>1. g \in [S -> T]
    BY <1>2
  <2>2. \A i, j \in S : g[i] = g[j] => i = j
    BY <1>2
  <2> QED BY <2>1, <2>2 DEF Injection, IsInjective
<1>4. IsFiniteSet(T)
  BY CarryingFinite, FS_RemoveElement
<1> HIDE DEF S, T, g
<1>5. Cardinality(S) <= Cardinality(T)
  BY <1>3, <1>4, FS_Injection
<1> QED BY <1>5 DEF S, T

\* The packet being handled is an Interest on link e.
Brings(took, e) == took \notin {None, App} /\ IsInterestOn(took, e)
IsTaken(took) == took \in {None, App} \/ (air # <<>> /\ took \in Head(air))

\* The packet being handled leaves the air, and its position no Interest on its
\* link.
LEMMA LeftCarries ==
  ASSUME TypeOK, OnePerLink(air), NEW took, IsTaken(took), NEW e
  PROVE  /\ Left(took) \in Seq(SUBSET Packets) /\ OnePerLink(Left(took))
         /\ Cardinality(Carrying(Left(took), e)) + One(Brings(took, e))
              <= Cardinality(Carrying(air, e))
<1>1. air \in Seq(SUBSET Packets)
  BY DEF TypeOK
<1>2. IsFiniteSet(Carrying(air, e)) /\ Cardinality(Carrying(air, e)) \in Nat
  BY <1>1, CarryingFinite
<1>3. CASE took \in {None, App}
  BY <1>1, <1>2, <1>3 DEF Left, One, Brings
<1>4. CASE took \notin {None, App}
  <2>1. air # <<>> /\ took \in Head(air) /\ Head(air) = air[1] /\ 1 \in DOMAIN air
    BY <1>1, <1>4 DEF IsTaken
  <2>2. Brings(took, e) <=> IsInterestOn(took, e)
    BY <1>4 DEF Brings
  <2> DEFINE T == Carrying(air, e) \ {1}
  <2>3. IsFiniteSet(T) /\ Cardinality(T) \in Nat
        /\ Cardinality(T) + One(1 \in Carrying(air, e)) = Cardinality(Carrying(air, e))
    <3>1. IsFiniteSet(T) /\ Cardinality(T) = Cardinality(Carrying(air, e)) - One(1 \in Carrying(air, e))
      BY <1>2, FS_RemoveElement DEF One
    <3>2. Cardinality(T) \in Nat
      BY <3>1, FS_CardinalityType
    <3> HIDE DEF T
    <3> QED BY <1>2, <3>1, <3>2 DEF One
  <2>4. Brings(took, e) => 1 \in Carrying(air, e)
    BY <2>1, <2>2 DEF Carrying
  <2>5. CASE Head(air) = {took}
    <3>1. Left(took) = Tail(air)
      BY <1>4, <2>5 DEF Left
    <3>2. Cardinality(Carrying(Left(took), e)) <= Cardinality(T)
      BY <1>1, <2>1, <3>1, CarryingTail
    <3>3. Left(took) \in Seq(SUBSET Packets)
      BY <1>1, <2>1, <3>1
    <3>3a. Cardinality(Carrying(Left(took), e)) \in Nat
      BY <3>3, CarryingFinite
    <3>4. OnePerLink(Left(took))
      <4>1. \A i \in DOMAIN Tail(air) : i + 1 \in DOMAIN air /\ Tail(air)[i] = air[i + 1]
        BY <1>1, <2>1
      <4> QED BY <3>1, <4>1 DEF OnePerLink
    <3> HIDE DEF T
    <3> QED BY <1>2, <2>3, <2>4, <3>2, <3>3, <3>3a, <3>4 DEF One
  <2>6. CASE Head(air) # {took}
    <3>1. /\ Left(took) = [air EXCEPT ![1] = @ \ {took}]
          /\ DOMAIN Left(took) = DOMAIN air /\ Left(took)[1] = air[1] \ {took}
          /\ \A i \in DOMAIN air \ {1} : Left(took)[i] = air[i]
      BY <1>1, <1>4, <2>1, <2>6 DEF Left
    <3>2. Left(took) \in Seq(SUBSET Packets)
      BY <1>1, <2>1, <3>1
    <3>3. OnePerLink(Left(took))
      BY <2>1, <3>1 DEF OnePerLink
    <3>4. Carrying(Left(took), e) \subseteq Carrying(air, e)
      BY <2>1, <3>1 DEF Carrying
    <3>5. Brings(took, e) => 1 \notin Carrying(Left(took), e)
      BY <2>1, <2>2, <3>1 DEF Carrying, OnePerLink, IsInterestOn
    <3>6. Brings(took, e) => Cardinality(Carrying(Left(took), e)) <= Cardinality(T)
      BY <2>3, <3>4, <3>5, FS_Subset
    <3>7. /\ Cardinality(Carrying(Left(took), e)) <= Cardinality(Carrying(air, e))
          /\ Cardinality(Carrying(Left(took), e)) \in Nat
      BY <1>2, <3>2, <3>4, FS_Subset, CarryingFinite
    <3> HIDE DEF T
    <3> QED BY <1>2, <2>3, <2>4, <3>2, <3>3, <3>6, <3>7 DEF One
  <2> QED BY <2>5, <2>6
<1> QED BY <1>3, <1>4

----------------------------------------------------------------------------
(* What a handler sends.                                                   *)

SentBy(n, sends) ==
  {[link |-> <<n, f>>, packet |-> sends[f]] : f \in {g \in DOMAIN sends \ {App} : ~Gone(<<n, g>>)}}
Gives(sends, f, type) == f \in DOMAIN sends /\ sends[f].type = type
IsSending(n, sends) == \A f \in DOMAIN sends : <<n, f>> \in Edge /\ sends[f] \in Message

\* The faces that are not the application's are links.
LEMMA EdgeOrApp ==
  ASSUME NEW n \in Node, NEW f, <<n, f>> \in Edge
  PROVE  /\ f \in Face /\ (f # App => <<n, f>> \in Link /\ <<f, n>> \in Link /\ f \in Node)
         /\ (f = App => n \in Hosts)
BY NodeAssumption DEF Edge, Face

LEMMA SentPackets ==
  ASSUME NEW n \in Node, NEW sends, IsSending(n, sends)
  PROVE  /\ SentBy(n, sends) \in SUBSET Packets
         /\ \A s, t \in SentBy(n, sends) : s.link = t.link => s = t
<1>1. \A f \in DOMAIN sends \ {App} : [link |-> <<n, f>>, packet |-> sends[f]] \in Packets
  BY EdgeOrApp DEF IsSending, Packets
<1>2. SentBy(n, sends) \subseteq Packets
  BY <1>1 DEF SentBy
<1>3. \A s, t \in SentBy(n, sends) : s.link = t.link => s = t
  <2> SUFFICES ASSUME NEW s \in SentBy(n, sends), NEW t \in SentBy(n, sends), s.link = t.link
               PROVE  s = t
    OBVIOUS
  <2>1. PICK f \in DOMAIN sends : s = [link |-> <<n, f>>, packet |-> sends[f]]
    BY DEF SentBy
  <2>2. PICK g \in DOMAIN sends : t = [link |-> <<n, g>>, packet |-> sends[g]]
    BY DEF SentBy
  <2> QED BY <2>1, <2>2
<1> QED BY <1>2, <1>3

\* The packets under way and the Interests sent change together, one or none
\* for each link, and Data are counted.
LEMMA HandleSends ==
  ASSUME TypeOK, OnePerLink(air), NEW n \in Node, NEW took, IsTaken(took), NEW entry,
         NEW sends, IsSending(n, sends), Handle(n, took, entry, sends)
  PROVE  /\ air' \in Seq(SUBSET Packets) /\ OnePerLink(air')
         /\ interests' \in [Link -> Seq(Nonce)]
         /\ \A e \in Link :
              Cardinality(Carrying(air', e)) + One(Brings(took, e)) + Len(interests[e])
                <= Cardinality(Carrying(air, e)) + Len(interests'[e])
<1> DEFINE S == SentBy(n, sends)
           on(l, type) == \E s \in S : s.link = l /\ s.packet.type = type
<1>1. /\ air' = IF S = {} THEN Left(took) ELSE Append(Left(took), S)
      /\ interests' = [l \in Link |-> IF on(l, "interest")
                                      THEN Append(interests[l], sends[l[2]].nonce)
                                      ELSE interests[l]]
  BY DEF Handle, SentBy
<1>2. S \in SUBSET Packets /\ \A s, t \in S : s.link = t.link => s = t
  BY SentPackets
<1>3. Left(took) \in Seq(SUBSET Packets) /\ OnePerLink(Left(took))
  BY LeftCarries
<1>4. interests \in [Link -> Seq(Nonce)]
  BY DEF TypeOK
<1>5. \A l \in Link : on(l, "interest") => sends[l[2]].nonce \in Nonce
  <2> SUFFICES ASSUME NEW l \in Link, NEW s \in S, s.link = l, s.packet.type = "interest"
               PROVE  sends[l[2]].nonce \in Nonce
    OBVIOUS
  <2>1. PICK f \in DOMAIN sends : s = [link |-> <<n, f>>, packet |-> sends[f]]
    BY DEF SentBy
  <2>2. sends[f] \in Message /\ sends[f].type = "interest" /\ l[2] = f
    BY <2>1 DEF IsSending
  <2> QED BY <2>2 DEF Message, Interest, Data, Nack
<1> HIDE DEF S
<1>6. air' \in Seq(SUBSET Packets) /\ OnePerLink(air')
  <2>1. CASE S = {}
    BY <1>1, <1>3, <2>1
  <2>2. CASE S # {}
    <3>1. Append(Left(took), S) \in Seq(SUBSET Packets)
      BY <1>2, <1>3
    <3>2. \A i \in DOMAIN Append(Left(took), S) :
            \/ i \in DOMAIN Left(took) /\ Append(Left(took), S)[i] = Left(took)[i]
            \/ Append(Left(took), S)[i] = S
      BY <1>3
    <3>3. OnePerLink(Append(Left(took), S))
      BY <1>2, <1>3, <3>2 DEF OnePerLink
    <3> QED BY <1>1, <2>2, <3>1, <3>3
  <2> QED BY <2>1, <2>2
<1>7. interests' \in [Link -> Seq(Nonce)]
  BY <1>1, <1>4, <1>5
<1>8. ASSUME NEW e \in Link
      PROVE  Cardinality(Carrying(air', e)) + One(Brings(took, e)) + Len(interests[e])
               <= Cardinality(Carrying(air, e)) + Len(interests'[e])
  <2>1. /\ Cardinality(Carrying(Left(took), e)) + One(Brings(took, e)) <= Cardinality(Carrying(air, e))
        /\ Cardinality(Carrying(Left(took), e)) \in Nat /\ Cardinality(Carrying(air, e)) \in Nat
    BY <1>3, LeftCarries, CarryingFinite DEF TypeOK
  <2>2. Len(interests'[e]) = Len(interests[e]) + One(on(e, "interest")) /\ Len(interests[e]) \in Nat
    BY <1>1, <1>4, <1>5 DEF One
  <2>3. Cardinality(Carrying(air', e))
          = Cardinality(Carrying(Left(took), e)) + One(on(e, "interest"))
    <3>1. CASE S = {}
      BY <1>1, <2>1, <3>1 DEF One
    <3>2. CASE S # {}
      <4>1. Cardinality(Carrying(Append(Left(took), S), e)) =
              Cardinality(Carrying(Left(took), e)) + One(\E s \in S : IsInterestOn(s, e))
        BY <1>2, <1>3, CarryingAppend
      <4>2. on(e, "interest") <=> \E s \in S : IsInterestOn(s, e)
        BY DEF IsInterestOn
      <4> QED BY <1>1, <3>2, <4>1, <4>2 DEF One
    <3> QED BY <3>1, <3>2
  <2>4. One(on(e, "interest")) \in Nat /\ One(Brings(took, e)) \in Nat
    BY DEF One
  <2> HIDE DEF on
  <2> QED BY <2>1, <2>2, <2>3, <2>4
<1> QED BY <1>6, <1>7, <1>8

----------------------------------------------------------------------------
(* A handler keeps the balance if it pays for each Data packet with an     *)
(* in-record it has, or with the Interest it is handling.                  *)

\* free are the faces for which an Interest is being handled.
Paid(n, entry, sends, free) ==
  \A f \in Face : One(Holds(entry, f)) + One(Gives(sends, f, "data"))
                    <= One(Holds(pit[n], f)) + One(f \in free)

PitFits == DOMAIN pit = Node /\ \A n \in Node : pit[n] = None \/ EntryFits(n, pit[n])

\* What the step of a handler keeps.
Kept(free) ==
  /\ PitFits' /\ strategy' = strategy
  /\ air' \in Seq(SUBSET Packets) /\ OnePerLink(air')
  /\ interests' \in [Link -> Seq(Nonce)] /\ datas' \in [Link -> Nat]
  /\ answered' \in Nat /\ asked' \in Nat
  /\ \A e \in Link : LinkBalance(e)'
  /\ answered' + One(Holds(pit'[Consumer], App))
       <= answered + One(Holds(pit[Consumer], App)) + One(App \in free)

LEMMA FlowInvPit ==
  ASSUME FlowInv
  PROVE  PitFits /\ TypeOK /\ OnePerLink(air) /\ (\A e \in Link : LinkBalance(e)) /\ AppBalance
BY DEF FlowInv, PitFits, TypeOK, Balance

LEMMA HandleKeeps ==
  ASSUME FlowInv, NEW n \in Node, NEW took, IsTaken(took), took = App => asked > 0,
         NEW entry, entry = None \/ EntryFits(n, entry),
         NEW sends, IsSending(n, sends), Handle(n, took, entry, sends),
         NEW free, Paid(n, entry, sends, free),
         \A f \in free \ {App} : Brings(took, <<f, n>>)
  PROVE  Kept(free)
<1>1. PitFits /\ TypeOK /\ OnePerLink(air) /\ (\A e \in Link : LinkBalance(e))
  BY FlowInvPit
<1>2. pit' = [pit EXCEPT ![n] = entry] /\ DOMAIN pit = Node
  BY <1>1 DEF Handle, PitFits
<1>3. pit'[n] = entry /\ \A x \in Node \ {n} : pit'[x] = pit[x]
  BY <1>2
<1>4. PitFits'
  BY <1>1, <1>2, <1>3 DEF PitFits
<1> DEFINE on(e, type) == \E s \in SentBy(n, sends) : s.link = e /\ s.packet.type = type
<1>5. datas' = [e \in Link |-> IF on(e, "data") THEN datas[e] + 1 ELSE datas[e]]
  BY DEF Handle, SentBy
<1>6. \A e \in Link : on(e, "data") => e[1] = n /\ Gives(sends, e[2], "data")
  <2> SUFFICES ASSUME NEW e \in Link, NEW s \in SentBy(n, sends),
                      s.link = e, s.packet.type = "data"
               PROVE  e[1] = n /\ Gives(sends, e[2], "data")
    OBVIOUS
  <2>1. PICK f \in DOMAIN sends : s = [link |-> <<n, f>>, packet |-> sends[f]]
    BY DEF SentBy
  <2> QED BY <2>1 DEF Gives
<1>7. datas \in [Link -> Nat] /\ answered \in Nat /\ asked \in Nat
  BY <1>1 DEF TypeOK
<1>8. datas' \in [Link -> Nat]
  <2> HIDE DEF on
  <2> QED BY <1>5, <1>7
<1>9. ASSUME NEW e \in Link PROVE LinkBalance(e)'
  <2> DEFINE b == <<e[2], e[1]>>
  <2>1. b \in Link /\ e = <<e[1], e[2]>> /\ e[1] \in Node /\ e[2] \in Node /\ e[1] \in Face
    BY NodeAssumption DEF Face
  <2>2. Cardinality(Carrying(air', e)) + One(Brings(took, e)) + Len(interests[e])
          <= Cardinality(Carrying(air, e)) + Len(interests'[e])
    BY <1>1, HandleSends
  <2>3. air' \in Seq(SUBSET Packets) /\ interests' \in [Link -> Seq(Nonce)]
        /\ air \in Seq(SUBSET Packets) /\ interests \in [Link -> Seq(Nonce)]
    BY <1>1, HandleSends DEF TypeOK
  <2>4. /\ Cardinality(Carrying(air', e)) \in Nat /\ Cardinality(Carrying(air, e)) \in Nat
        /\ Len(interests'[e]) \in Nat /\ Len(interests[e]) \in Nat
        /\ datas'[b] \in Nat /\ datas[b] \in Nat
    BY <1>7, <1>8, <2>1, <2>3, CarryingFinite
  <2>5. datas[b] + One(Holds(pit[e[2]], e[1])) + Cardinality(Carrying(air, e)) <= Len(interests[e])
    BY <1>1 DEF LinkBalance
  <2>6. datas'[b] + One(Holds(pit'[e[2]], e[1]))
          <= datas[b] + One(Holds(pit[e[2]], e[1])) + One(Brings(took, e))
    <3>1. CASE e[2] = n
      <4>1. One(Holds(pit'[n], e[1])) + One(Gives(sends, e[1], "data"))
              <= One(Holds(pit[n], e[1])) + One(e[1] \in free)
        BY <1>3, <2>1 DEF Paid
      <4>2. e[1] \in free => Brings(took, e)
        BY <2>1, <3>1, NodeAssumption
      <4>3. datas'[b] = datas[b] \/ (Gives(sends, e[1], "data") /\ datas'[b] = datas[b] + 1)
        <5> HIDE DEF on
        <5> QED BY <1>5, <1>6, <2>1
      <4> HIDE DEF b
      <4> QED BY <2>4, <3>1, <4>1, <4>2, <4>3 DEF One
    <3>2. CASE e[2] # n
      <4>1. datas'[b] = datas[b]
        <5> HIDE DEF on
        <5> QED BY <1>5, <1>6, <2>1, <3>2
      <4>2. pit'[e[2]] = pit[e[2]]
        BY <1>3, <2>1, <3>2
      <4> HIDE DEF b
      <4> QED BY <2>4, <4>1, <4>2 DEF One
    <3> QED BY <3>1, <3>2
  <2>7. One(Holds(pit'[e[2]], e[1])) \in Nat /\ One(Holds(pit[e[2]], e[1])) \in Nat
        /\ One(Brings(took, e)) \in Nat
    BY DEF One
  <2>8. datas'[b] + One(Holds(pit'[e[2]], e[1])) + Cardinality(Carrying(air', e)) <= Len(interests'[e])
    <3> DEFINE h == One(Holds(pit[e[2]], e[1]))
               hh == One(Holds(pit'[e[2]], e[1]))
               t == One(Brings(took, e))
    <3>1. h \in Nat /\ hh \in Nat /\ t \in Nat /\ datas'[b] + hh <= datas[b] + h + t
          /\ datas[b] + h + Cardinality(Carrying(air, e)) <= Len(interests[e])
          /\ Cardinality(Carrying(air', e)) + t + Len(interests[e])
               <= Cardinality(Carrying(air, e)) + Len(interests'[e])
      BY <2>2, <2>5, <2>6, <2>7
    <3>2. datas'[b] + hh + Cardinality(Carrying(air', e)) <= Len(interests'[e])
      <4> DEFINE k == Cardinality(Carrying(air, e))
                 kk == Cardinality(Carrying(air', e))
                 i == Len(interests[e])
                 ii == Len(interests'[e])
                 d == datas[b]
                 dd == datas'[b]
      <4>1. d \in Nat /\ dd \in Nat /\ k \in Nat /\ kk \in Nat /\ i \in Nat /\ ii \in Nat
        BY <2>4
      <4>2. /\ h \in Nat /\ hh \in Nat /\ t \in Nat
            /\ dd + hh <= d + h + t /\ d + h + k <= i /\ kk + t + i <= k + ii
        BY <3>1
      <4> HIDE DEF h, hh, t, k, kk, i, ii, d, dd
      <4>3. dd + hh + kk <= ii
        BY <4>1, <4>2, SMTT(30)
      <4> QED BY <4>3 DEF k, kk, i, ii, d, dd
    <3> QED BY <3>2
  <2> QED BY <2>8 DEF LinkBalance
<1>10. answered' = (IF n = Consumer /\ Gives(sends, App, "data") THEN answered + 1 ELSE answered)
       /\ asked' = (IF n = Producer /\ Gives(sends, App, "interest") THEN asked + 1
                    ELSE IF took = App THEN asked - 1 ELSE asked)
  BY DEF Handle, Gives
<1>11. answered' \in Nat /\ asked' \in Nat
  BY <1>7, <1>10
<1>12. answered' + One(Holds(pit'[Consumer], App))
         <= answered + One(Holds(pit[Consumer], App)) + One(App \in free)
  <2>1. CASE n = Consumer
    <3>1. One(Holds(pit'[n], App)) + One(Gives(sends, App, "data"))
            <= One(Holds(pit[n], App)) + One(App \in free)
      BY <1>3 DEF Paid, Face
    <3> QED BY <1>7, <1>10, <2>1, <3>1 DEF One
  <2>2. CASE n # Consumer
    <3>1. pit'[Consumer] = pit[Consumer]
      BY <1>3, <2>2, NodeAssumption
    <3> QED BY <1>7, <1>10, <2>2, <3>1 DEF One
  <2> QED BY <2>1, <2>2
<1>13. air' \in Seq(SUBSET Packets) /\ OnePerLink(air') /\ interests' \in [Link -> Seq(Nonce)]
  BY <1>1, HandleSends
<1> QED BY <1>4, <1>8, <1>9, <1>11, <1>12, <1>13 DEF Kept, Handle

----------------------------------------------------------------------------
(* The pipelines.                                                          *)

\* What is kept when in-records go, out-records come, or the timer is set.
LEMMA NewEntryFits ==
  ASSUME FlowInv, NEW n \in Node, NEW i \in Interest
  PROVE  /\ EntryFits(n, Inserted(n, Stripped(n, i))) /\ Stripped(n, i) \in Interest
         /\ Stripped(n, i).nonce = i.nonce
         /\ \A f : f \in DOMAIN Inserted(n, Stripped(n, i)).in => Holds(pit[n], f)
<1>1. Stripped(n, i) \in Interest /\ Stripped(n, i).nonce = i.nonce
  BY DEF Stripped, Interest
<1>2. CASE pit[n] = None
  <2>1. Inserted(n, Stripped(n, i)) = NewEntry(Stripped(n, i))
    BY <1>2 DEF Inserted
  <2>2. EntryFits(n, NewEntry(Stripped(n, i))) /\ DOMAIN NewEntry(Stripped(n, i)).in = {}
    BY <1>1 DEF NewEntry, EntryFits, IsEntry, Interest
  <2> QED BY <1>1, <2>1, <2>2
<1>3. CASE pit[n] # None
  <2>1. Inserted(n, Stripped(n, i)) = pit[n]
    BY <1>3 DEF Inserted
  <2> QED BY <1>1, <1>3, <2>1, FlowInvPit DEF PitFits, Holds
<1> QED BY <1>2, <1>3

\* To send the same to some neighbours.
LEMMA ToNeighbours ==
  ASSUME NEW n \in Node, NEW S, \A f \in S : <<n, f>> \in Edge, NEW m \in Message
  PROVE  /\ IsSending(n, To(S, m)) /\ DOMAIN To(S, m) = S
         /\ \A f : Gives(To(S, m), f, "data") => f \in S /\ m.type = "data"
BY DEF To, IsSending, Gives

LEMMA NackMessage ==
  ASSUME NEW k \in Nonce
  PROVE  [type |-> "nack", nonce |-> k] \in Message /\ [type |-> "nack", nonce |-> k].type # "data"
BY DEF Message, Nack

LEMMA NextHopsFit ==
  ASSUME FlowInv, NEW n \in Node, NEW e
  PROVE  \A f \in LookupFib(n, e) : <<n, f>> \in Edge
<1>1. NextHops[n] \subseteq Face /\ {n} \X NextHops[n] \subseteq Edge
  BY FibAssumption
<1>2. HintHops[n] \subseteq Face /\ {n} \X HintHops[n] \subseteq Edge
  BY FibAssumption
<1>3. hops[n] \subseteq Face /\ {n} \X hops[n] \subseteq Edge
  BY FibAssumption DEF FlowInv
<1> QED BY <1>1, <1>2, <1>3 DEF LookupFib

LEMMA InterestKept ==
  ASSUME FlowInv, NEW n \in Node, NEW inFace, <<n, inFace>> \in Edge,
         NEW took, IsTaken(took), took # App,
         inFace # App => Brings(took, <<inFace, n>>),
         NEW i \in Interest, IncomingInterest(n, took, inFace, i)
  PROVE  Kept({inFace})
<1> DEFINE j == Stripped(n, i)
           e == Inserted(n, j)
           nack == [type |-> "nack", nonce |-> i.nonce]
<1>1. EntryFits(n, e) /\ j \in Interest /\ j.nonce = i.nonce
      /\ \A f : f \in DOMAIN e.in => Holds(pit[n], f)
  BY NewEntryFits
<1>2. i.nonce \in Nonce /\ nack \in Message /\ nack.type # "data"
  BY NackMessage DEF Interest
<1>3. pit[n] = None \/ EntryFits(n, pit[n])
  BY FlowInvPit DEF PitFits
<1>4. CASE InterestLoop(n, took, inFace, i)
  <2>1. IsSending(n, To({inFace}, nack)) /\ \A f : ~Gives(To({inFace}, nack), f, "data")
    BY <1>2, ToNeighbours
  <2>2. Paid(n, pit[n], To({inFace}, nack), {inFace})
    BY <2>1 DEF Paid, One
  <2>3. Handle(n, took, pit[n], To({inFace}, nack))
    BY <1>4 DEF InterestLoop
  <2> HIDE DEF nack
  <2> QED BY <1>3, <2>1, <2>2, <2>3, HandleKeeps
<1>5. CASE ContentStoreHit(n, took, inFace, i)
  <2> DEFINE entry == [e EXCEPT !.satisfied = TRUE, !.timer = "now"]
  <2>1. DOMAIN e.in = {} /\ Handle(n, took, entry, To({inFace}, Data))
    BY <1>5 DEF ContentStoreHit
  <2>2. EntryFits(n, entry) /\ entry.in = e.in
    <3> HIDE DEF e
    <3> QED BY <1>1 DEF EntryFits, IsEntry
  <2>3. Data \in Message
    BY DEF Message
  <2>4. IsSending(n, To({inFace}, Data))
        /\ \A f : Gives(To({inFace}, Data), f, "data") => f \in {inFace}
    BY <2>3, ToNeighbours
  <2>5. \A f : ~Holds(entry, f)
    <3> HIDE DEF entry
    <3> QED BY <2>1, <2>2 DEF Holds
  <2> HIDE DEF entry
  <2>6. Paid(n, entry, To({inFace}, Data), {inFace})
    BY <2>4, <2>5 DEF Paid, One
  <2> QED BY <2>1, <2>2, <2>4, <2>6, HandleKeeps
<1>6. CASE ContentStoreMiss(n, took, inFace, i)
  <2> DEFINE d == [e EXCEPT !.in = With(@, {inFace}, [nonce |-> i.nonce]), !.timer = "running"]
  <2>1. AfterReceiveInterest(n, took, inFace, j, d)
    BY <1>6 DEF ContentStoreMiss
  <2>2. /\ EntryFits(n, d) /\ DOMAIN d.in = DOMAIN e.in \cup {inFace}
    <3>1. inFace \in Face
      BY EdgeOrApp
    <3> HIDE DEF e
    <3> QED BY <1>1, <1>2, <3>1 DEF EntryFits, IsEntry, With
  <2> HIDE DEF d, e
  <2>3. PICK suppressed :
          LET chosen == LookupFib(n, d) \ (suppressed \cup {inFace})
          IN  IF chosen = {} /\ suppressed = {}
              THEN Handle(n, took, [d EXCEPT !.in = Without(@, {inFace}), !.timer = "now"],
                          To({inFace}, [type |-> "nack", nonce |-> j.nonce]))
              ELSE Handle(n, took,
                          [d EXCEPT !.out = With(@, chosen, [nonce |-> j.nonce, nacked |-> FALSE])],
                          To(chosen, j))
    BY <2>1 DEF AfterReceiveInterest
  <2> DEFINE chosen == LookupFib(n, d) \ (suppressed \cup {inFace})
             rejected == [d EXCEPT !.in = Without(@, {inFace}), !.timer = "now"]
             forwarded == [d EXCEPT !.out = With(@, chosen, [nonce |-> j.nonce, nacked |-> FALSE])]
  <2>4. CASE Handle(n, took, rejected, To({inFace}, nack))
    <3>1. EntryFits(n, rejected) /\ DOMAIN rejected.in = DOMAIN d.in \ {inFace}
      BY <2>2 DEF EntryFits, IsEntry, Without, Restrict
    <3>2. IsSending(n, To({inFace}, nack)) /\ \A f : ~Gives(To({inFace}, nack), f, "data")
      BY <1>2, ToNeighbours
    <3> HIDE DEF rejected, nack
    <3>3. Paid(n, rejected, To({inFace}, nack), {inFace})
      BY <1>1, <2>2, <3>1, <3>2 DEF Paid, One, Holds
    <3> QED BY <2>4, <3>1, <3>2, <3>3, HandleKeeps
  <2>5. CASE Handle(n, took, forwarded, To(chosen, j))
    <3>1. \A f \in chosen : <<n, f>> \in Edge /\ f \in Face
      BY NextHopsFit, EdgeOrApp
    <3>2. EntryFits(n, forwarded) /\ DOMAIN forwarded.in = DOMAIN d.in
      <4> HIDE DEF chosen, j
      <4> QED BY <1>1, <1>2, <2>2, <3>1 DEF EntryFits, IsEntry, With
    <3>3. j \in Message /\ j.type # "data"
      BY <1>1 DEF Message, Interest
    <3>4. IsSending(n, To(chosen, j)) /\ \A f : ~Gives(To(chosen, j), f, "data")
      BY <3>1, <3>3, ToNeighbours
    <3> HIDE DEF forwarded, chosen, j
    <3>5. Paid(n, forwarded, To(chosen, j), {inFace})
      BY <1>1, <2>2, <3>2, <3>4 DEF Paid, One, Holds
    <3> QED BY <2>5, <3>2, <3>4, <3>5, HandleKeeps
  <2> QED BY <1>1, <2>3, <2>4, <2>5
<1> QED BY <1>4, <1>5, <1>6 DEF IncomingInterest

LEMMA DataKept ==
  ASSUME FlowInv, NEW n \in Node, NEW inFace, NEW took, IsTaken(took), took = App => asked > 0,
         IncomingData(n, took, inFace)
  PROVE  Kept({})
<1> DEFINE e == pit[n]
           S == Pending(e, inFace)
<1>1. CASE ~Matches(n, inFace)
  <2>1. Handle(n, took, pit[n], Nothing)
    BY <1>1 DEF IncomingData
  <2>2. IsSending(n, Nothing) /\ \A f : ~Gives(Nothing, f, "data")
    BY DEF Nothing, IsSending, Gives
  <2>3. Paid(n, pit[n], Nothing, {})
    BY <2>2 DEF Paid, One
  <2>4. pit[n] = None \/ EntryFits(n, pit[n])
    BY FlowInvPit DEF PitFits
  <2> QED BY <2>1, <2>2, <2>3, <2>4, HandleKeeps
<1>2. CASE Matches(n, inFace)
  <2>1. Handle(n, took, Satisfied(e, inFace), To(S, Data))
    BY <1>2 DEF IncomingData
  <2>2. EntryFits(n, e) /\ e # None
    BY <1>2, FlowInvPit DEF PitFits, Matches
  <2>3. S \subseteq DOMAIN e.in /\ \A f \in S : <<n, f>> \in Edge
    BY <2>2 DEF Pending, EntryFits
  <2> HIDE DEF e
  <2>4. EntryFits(n, Satisfied(e, inFace)) /\ DOMAIN Satisfied(e, inFace).in = DOMAIN e.in \ S
    BY <2>2 DEF EntryFits, IsEntry, Satisfied, Without, Restrict
  <2>5. Data \in Message
    BY DEF Message
  <2>6. IsSending(n, To(S, Data)) /\ \A f : Gives(To(S, Data), f, "data") => f \in S
    BY <2>3, <2>5, ToNeighbours
  <2>7. \A f \in S : ~Holds(Satisfied(e, inFace), f) /\ Holds(e, f)
    BY <2>2, <2>3, <2>4 DEF Holds
  <2>8. \A f : Holds(Satisfied(e, inFace), f) => Holds(e, f)
    BY <2>2, <2>4 DEF Holds
  <2> HIDE DEF S
  <2>9. Paid(n, Satisfied(e, inFace), To(S, Data), {})
    BY <2>6, <2>7, <2>8 DEF Paid, One, e
  <2> QED BY <2>1, <2>4, <2>6, <2>9, HandleKeeps
<1> QED BY <1>1, <1>2

LEMMA NackKept ==
  ASSUME FlowInv, NEW n \in Node, NEW inFace, NEW took, IsTaken(took), took # App,
         NEW nonce, IncomingNack(n, took, inFace, nonce)
  PROVE  Kept({})
<1> DEFINE e == pit[n]
           recorded == [e EXCEPT !.out[inFace].nacked = TRUE]
           waiting == {f \in DOMAIN e.out \ {inFace} : ~e.out[f].nacked}
           S == NackedDownstreams(n, e, waiting)
           sends == [f \in S |-> [type |-> "nack", nonce |-> e.in[f].nonce]]
           answer(late) == [recorded EXCEPT !.in = Without(@, S),
                                            !.timer = IF waiting = late THEN "now" ELSE @]
<1>1. CASE ~NackAccepted(n, inFace, nonce)
  <2>1. Handle(n, took, pit[n], Nothing)
    BY <1>1 DEF IncomingNack
  <2>2. IsSending(n, Nothing) /\ \A f : ~Gives(Nothing, f, "data")
    BY DEF Nothing, IsSending, Gives
  <2>3. Paid(n, pit[n], Nothing, {})
    BY <2>2 DEF Paid, One
  <2>4. pit[n] = None \/ EntryFits(n, pit[n])
    BY FlowInvPit DEF PitFits
  <2> QED BY <2>1, <2>2, <2>3, <2>4, HandleKeeps
<1>2. CASE NackAccepted(n, inFace, nonce)
  <2>1. PICK late : Handle(n, took, answer(late), sends)
    BY <1>2 DEF IncomingNack
  <2>2. EntryFits(n, e) /\ e # None /\ inFace \in DOMAIN e.out
    BY <1>2, FlowInvPit DEF PitFits, NackAccepted
  <2>3. S \subseteq DOMAIN e.in
    BY DEF NackedDownstreams
  <2> HIDE DEF S, e
  <2>4. EntryFits(n, recorded) /\ recorded.in = e.in
    BY <2>2 DEF EntryFits, IsEntry
  <2> HIDE DEF recorded, waiting
  <2>5. EntryFits(n, answer(late)) /\ DOMAIN answer(late).in = DOMAIN e.in \ S
    BY <2>4 DEF EntryFits, IsEntry, Without, Restrict
  <2>6. IsSending(n, sends) /\ \A f : ~Gives(sends, f, "data")
    BY <2>2, <2>3 DEF EntryFits, IsEntry, IsSending, Gives, Message, Nack
  <2> HIDE DEF answer, sends
  <2>7. \A f : Holds(answer(late), f) => Holds(e, f)
    BY <2>2, <2>5 DEF Holds
  <2>8. Paid(n, answer(late), sends, {})
    BY <2>6, <2>7 DEF Paid, One, e
  <2> QED BY <2>1, <2>5, <2>6, <2>8, HandleKeeps
<1> QED BY <1>1, <1>2

----------------------------------------------------------------------------
(* The steps.                                                              *)

\* A packet from the air is none of the markers.
LEMMA PacketTaken ==
  ASSUME FlowInv, air # <<>>, NEW s \in Head(air)
  PROVE  /\ s \in Packets /\ s \notin {None, App} /\ IsTaken(s)
         /\ s.link \in Link /\ s.packet \in Message
         /\ s.link[1] \in Node /\ s.link[2] \in Node
         /\ s.link = <<s.link[1], s.link[2]>> /\ <<s.link[2], s.link[1]>> \in Edge
<1>1. Head(air) \subseteq Packets
  BY FlowInvPit DEF TypeOK
<1>2. s \in Packets /\ s.link \in Link /\ s.packet \in Message
  BY <1>1 DEF Packets
<1> QED BY <1>2, MarkerAssumption, NodeAssumption DEF IsTaken, Edge

\* With the applications' variables, what a step keeps is the invariant.
LEMMA KeptIsInv ==
  ASSUME FlowInv, NEW free, Kept(free),
         cs' \subseteq Node, deadNonceList' = deadNonceList, moved' \in BOOLEAN, moved => moved',
         hops' \in {NextHops} \cup NewHops,
         nextNonce' \in 1..MaxNonce + 1, recent' \in 1..nextNonce',
         expressed' < nextNonce', expressed' = expressed + One(App \in free),
         ~moved' => nextNonce' <= MaxNonce
  PROVE  FlowInv'
<1>1. TypeOK /\ answered + One(Holds(pit[Consumer], App)) <= expressed
  BY FlowInvPit DEF AppBalance
<1>2. expressed \in Nat /\ MaxNonce \in Nat /\ answered \in Nat /\ answered' \in Nat /\ expressed' \in Nat
  BY <1>1, ModeAssumption DEF TypeOK, Kept, One
<1>3. expressed' \in 0..MaxNonce
  BY <1>2, ModeAssumption
<1>4. TypeOK'
  <2>1. DOMAIN pit' = Node /\ \A n \in Node : pit'[n] = None \/ IsEntry(pit'[n])
    BY DEF Kept, PitFits, EntryFits
  <2> QED BY <1>1, <1>3, <2>1 DEF TypeOK, Kept
<1>5. AppBalance'
  <2> DEFINE h == One(Holds(pit[Consumer], App))
             hh == One(Holds(pit'[Consumer], App))
             x == One(App \in free)
  <2>1. answered' + hh <= answered + h + x /\ h \in Nat /\ hh \in Nat /\ x \in Nat
    BY DEF Kept, One
  <2>2. answered + h <= expressed /\ expressed' = expressed + x
    BY <1>1
  <2> HIDE DEF h, hh, x
  <2> DEFINE a == answered
             aa == answered'
             s == expressed
             ss == expressed'
  <2>3. /\ a \in Nat /\ aa \in Nat /\ s \in Nat /\ h \in Nat /\ hh \in Nat /\ x \in Nat
        /\ aa + hh <= a + h + x /\ a + h <= s /\ ss = s + x
    BY <1>2, <2>1, <2>2
  <2> HIDE DEF a, aa, s, ss
  <2>4. aa + hh <= ss
    BY <2>3
  <2> QED BY <2>4 DEF hh, aa, ss, AppBalance
<1>6. Balance'
  BY <1>5 DEF Balance, Kept
<1> QED BY <1>4, <1>6 DEF FlowInv, Kept, PitFits

LEMMA FinalizeKeeps ==
  ASSUME FlowInv, NEW n \in Node, pit[n] # None, Finalize(n)
  PROVE  FlowInv'
<1>1. TypeOK /\ PitFits /\ (\A e \in Link : LinkBalance(e)) /\ AppBalance
  BY FlowInvPit
<1>2. /\ pit' = [pit EXCEPT ![n] = None]
      /\ deadNonceList' = [deadNonceList EXCEPT ![n] = @ \cup
           IF pit[n].satisfied THEN {} ELSE {pit[n].out[f].nonce : f \in DOMAIN pit[n].out}]
      /\ UNCHANGED <<strategy, cs, air, moved, hops, nextNonce, recent, expressed,
                     answered, asked, interests, datas>>
  BY DEF Finalize, appVars
<1>3. \A x \in Node : pit'[x] = None \/ pit'[x] = pit[x]
  BY <1>1, <1>2 DEF PitFits
<1>4. DOMAIN pit' = Node
  BY <1>1, <1>2 DEF PitFits
<1>5. deadNonceList' \in [Node -> SUBSET Nonce]
  <2>1. {pit[n].out[f].nonce : f \in DOMAIN pit[n].out} \subseteq Nonce
    BY <1>1 DEF PitFits, EntryFits, IsEntry
  <2> QED BY <1>1, <1>2, <2>1 DEF TypeOK
<1>6. TypeOK'
  BY <1>1, <1>2, <1>3, <1>4, <1>5 DEF TypeOK
<1>7. PitFits'
  BY <1>1, <1>3, <1>4 DEF PitFits
<1>8. \A x \in Node : \A f : One(Holds(pit'[x], f)) <= One(Holds(pit[x], f))
                         /\ One(Holds(pit'[x], f)) \in Nat /\ One(Holds(pit[x], f)) \in Nat
  BY <1>3 DEF One, Holds
<1>9. ASSUME NEW e \in Link PROVE LinkBalance(e)'
  <2>1. /\ datas' = datas /\ air' = air /\ interests' = interests
        /\ datas[<<e[2], e[1]>>] \in Nat /\ Len(interests[e]) \in Nat
        /\ Cardinality(Carrying(air, e)) \in Nat /\ e[2] \in Node
    BY <1>1, <1>2, CarryingFinite, NodeAssumption DEF TypeOK
  <2>2. LinkBalance(e)
    BY <1>1
  <2> DEFINE h == One(Holds(pit[e[2]], e[1]))
             hh == One(Holds(pit'[e[2]], e[1]))
             d == datas[<<e[2], e[1]>>]
             k == Cardinality(Carrying(air, e))
             i == Len(interests[e])
  <2>3. h \in Nat /\ hh \in Nat /\ hh <= h /\ d \in Nat /\ k \in Nat /\ i \in Nat /\ d + h + k <= i
    BY <1>8, <2>1, <2>2 DEF LinkBalance
  <2>4. LinkBalance(e)' <=> d + hh + k <= i
    BY <2>1 DEF LinkBalance
  <2> HIDE DEF h, hh, d, k, i
  <2> QED BY <2>3, <2>4
<1>10. AppBalance'
  <2>1. answered' = answered /\ expressed' = expressed /\ answered \in Nat /\ expressed \in Nat
    BY <1>1, <1>2 DEF TypeOK
  <2>2. One(Holds(pit'[Consumer], App)) <= One(Holds(pit[Consumer], App))
        /\ One(Holds(pit'[Consumer], App)) \in Nat /\ One(Holds(pit[Consumer], App)) \in Nat
    BY <1>8, NodeAssumption
  <2> QED BY <1>1, <2>1, <2>2 DEF AppBalance
<1> QED BY <1>2, <1>6, <1>7, <1>9, <1>10 DEF FlowInv, Balance, PitFits

LEMMA ReceiveKeeps ==
  ASSUME FlowInv, Receive
  PROVE  FlowInv'
<1>1. PICK s \in Head(air) : Incoming(s)
  BY DEF Receive
<1>2. air # <<>> /\ UNCHANGED <<nextNonce, recent, expressed>>
  BY DEF Receive, appVars
<1> DEFINE n == s.link[2]
           from == s.link[1]
<1>3. /\ IsTaken(s) /\ s # App /\ n \in Node /\ <<n, from>> \in Edge /\ s.packet \in Message
      /\ s \notin {None, App} /\ s.link = <<from, n>>
  BY <1>2, PacketTaken
<1>4. s.packet.type \in {"interest", "data", "nack"}
  BY <1>3 DEF Message, Interest, Data, Nack
<1>5. \E free : Kept(free) /\ App \notin free /\ cs' \subseteq Node
                /\ UNCHANGED <<deadNonceList, moved, hops>>
  <2>1. CASE s.packet.type = "interest"
    <3>1. IncomingInterest(n, s, from, s.packet)
      BY <1>1, <2>1 DEF Incoming
    <3>2. s.packet \in Interest
      BY <1>3, <2>1 DEF Message, Data, Nack
    <3>3. Brings(s, <<from, n>>)
      BY <1>3, <2>1 DEF Brings, IsInterestOn
    <3>4. from # App
      <4>1. from \in Node
        BY <1>2, PacketTaken
      <4> QED BY <4>1, NodeAssumption
    <3> HIDE DEF n, from
    <3>5. Kept({from})
      BY <1>3, <3>1, <3>2, <3>3, InterestKept
    <3>6. UNCHANGED <<cs, deadNonceList, moved, hops>>
      BY <3>1 DEF IncomingInterest
    <3> QED BY <3>4, <3>5, <3>6, FlowInvPit DEF TypeOK
  <2>2. CASE s.packet.type = "data"
    <3>1. IncomingData(n, s, from)
      BY <1>1, <2>2 DEF Incoming
    <3> HIDE DEF n, from
    <3>2. Kept({})
      BY <1>3, <3>1, DataKept
    <3>3. cs' \subseteq Node /\ UNCHANGED <<deadNonceList, moved, hops>>
      BY <1>3, <3>1, FlowInvPit DEF IncomingData, TypeOK
    <3> QED BY <3>2, <3>3
  <2>3. CASE s.packet.type = "nack"
    <3>1. IncomingNack(n, s, from, s.packet.nonce)
      BY <1>1, <2>3 DEF Incoming
    <3> HIDE DEF n, from
    <3>2. Kept({})
      BY <1>3, <3>1, NackKept
    <3>3. UNCHANGED <<cs, deadNonceList, moved, hops>>
      BY <3>1 DEF IncomingNack
    <3> QED BY <3>2, <3>3, FlowInvPit DEF TypeOK
  <2> QED BY <1>4, <2>1, <2>2, <2>3
<1>6. PICK free : Kept(free) /\ App \notin free /\ cs' \subseteq Node
                  /\ UNCHANGED <<deadNonceList, moved, hops>>
  BY <1>5
<1>7. /\ moved \in BOOLEAN /\ hops \in {NextHops} \cup NewHops /\ nextNonce \in 1..MaxNonce + 1
      /\ recent \in 1..nextNonce /\ expressed < nextNonce /\ (~moved => nextNonce <= MaxNonce)
      /\ expressed \in Nat
  BY ModeAssumption DEF FlowInv, TypeOK
<1>8. expressed' = expressed + One(App \in free)
  BY <1>2, <1>6, <1>7 DEF One
<1> QED BY <1>2, <1>6, <1>7, <1>8, KeptIsInv

LEMMA ExpressKeeps ==
  ASSUME FlowInv, Express
  PROVE  FlowInv'
<1> DEFINE i == [type |-> "interest", nonce |-> nextNonce, hint |-> FALSE]
<1>1. /\ nextNonce \in 1..MaxNonce + 1 /\ recent \in 1..nextNonce /\ MaxNonce \in Nat
      /\ moved \in BOOLEAN /\ hops \in {NextHops} \cup NewHops /\ cs \subseteq Node
      /\ expressed < nextNonce /\ expressed \in Nat
  BY ModeAssumption DEF FlowInv, TypeOK
<1>2. /\ IncomingInterest(Consumer, None, App, i)
      /\ nextNonce <= (IF moved THEN MaxNonce ELSE MaxNonce - 2)
      /\ nextNonce' = nextNonce + 1 /\ expressed' = expressed + 1
      /\ recent' = nextNonce \/ recent' = recent
  BY DEF Express
<1>3. nextNonce <= MaxNonce /\ (~moved => nextNonce + 1 <= MaxNonce)
  BY <1>1, <1>2
<1>4. i \in Interest
  BY <1>1, <1>3 DEF Interest, Nonce
<1>5. <<Consumer, App>> \in Edge /\ Consumer \in Node /\ None # App /\ IsTaken(None)
  BY NodeAssumption, MarkerAssumption DEF Edge, IsTaken
<1> HIDE DEF i
<1>6. Kept({App})
  BY <1>2, <1>4, <1>5, InterestKept
<1>7. UNCHANGED <<cs, deadNonceList, moved, hops>>
  BY <1>2 DEF IncomingInterest
<1>8. /\ nextNonce' \in 1..MaxNonce + 1 /\ recent' \in 1..nextNonce'
      /\ expressed' < nextNonce' /\ (~moved' => nextNonce' <= MaxNonce)
      /\ expressed' = expressed + One(App \in {App})
  BY <1>1, <1>2, <1>3, <1>7 DEF One
<1> QED BY <1>1, <1>6, <1>7, <1>8, KeptIsInv

LEMMA ProduceKeeps ==
  ASSUME FlowInv, Produce
  PROVE  FlowInv'
<1>1. /\ nextNonce \in 1..MaxNonce + 1 /\ recent \in 1..nextNonce /\ MaxNonce \in Nat
      /\ moved \in BOOLEAN /\ hops \in {NextHops} \cup NewHops /\ cs \subseteq Node
      /\ expressed < nextNonce /\ expressed \in Nat /\ (~moved => nextNonce <= MaxNonce)
  BY ModeAssumption DEF FlowInv, TypeOK
<1>2. IncomingData(Producer, App, App) /\ asked > 0 /\ UNCHANGED <<nextNonce, recent, expressed>>
  BY DEF Produce, appVars
<1>3. Producer \in Node /\ IsTaken(App)
  BY NodeAssumption DEF IsTaken
<1>4. Kept({})
  BY <1>2, <1>3, DataKept
<1>5. cs' \subseteq Node /\ UNCHANGED <<deadNonceList, moved, hops>>
  BY <1>1, <1>2, <1>3 DEF IncomingData
<1>6. expressed' = expressed + One(App \in {})
  BY <1>1, <1>2 DEF One
<1> QED BY <1>1, <1>2, <1>4, <1>5, <1>6, KeptIsInv

\* What afterNewNextHop sends goes to the new satellite, a neighbour.
LEMMA MoveKeeps ==
  ASSUME FlowInv, <<Consumer, NewSat>> \in Link, Move
  PROVE  FlowInv'
<1> DEFINE e == pit[Consumer]
           entry == [e EXCEPT !.out = With(@, {NewSat}, [nonce |-> FreshNonce(e), nacked |-> FALSE])]
           resends == strategy # "multicast" /\ e # None /\ DOMAIN e.in \ {NewSat} # {}
<1>1. /\ nextNonce \in 1..MaxNonce + 1 /\ recent \in 1..nextNonce /\ MaxNonce \in Nat
      /\ cs \subseteq Node /\ expressed < nextNonce /\ expressed \in Nat
      /\ (~moved => nextNonce <= MaxNonce)
  BY ModeAssumption DEF FlowInv, TypeOK
<1>2. ~moved /\ moved' /\ moved' = TRUE /\ hops' \in NewHops
      /\ UNCHANGED <<cs, deadNonceList, expressed>>
  BY DEF Move
<1>3. IsTaken(None) /\ Consumer \in Node /\ None # App
  BY NodeAssumption, MarkerAssumption DEF IsTaken
<1>4. e = None \/ EntryFits(Consumer, e)
  BY <1>3, FlowInvPit DEF PitFits
<1>5. expressed' = expressed + One(App \in {})
  BY <1>1, <1>2 DEF One
<1>6. CASE resends
  <2>1. /\ Handle(Consumer, None, entry, To({NewSat}, Resent(e)))
        /\ nextNonce' = nextNonce + 1 /\ (recent' = nextNonce \/ recent' = recent)
    BY <1>6 DEF Move
  <2>2. FreshNonce(e) \in Nonce /\ FreshNonce(e) = nextNonce
    BY <1>1, <1>2 DEF FreshNonce, Nonce
  <2>3. EntryFits(Consumer, e)
    BY <1>4, <1>6
  <2>4. <<Consumer, NewSat>> \in Edge /\ NewSat \in Face
    BY NodeAssumption DEF Edge, Face
  <2>5. Resent(e) \in Message /\ Resent(e).type = "interest"
    BY <2>2, <2>3 DEF Resent, Message, Interest, EntryFits, IsEntry
  <2> HIDE DEF e
  <2>6. EntryFits(Consumer, entry) /\ entry.in = e.in
    BY <2>2, <2>3, <2>4 DEF EntryFits, IsEntry, With
  <2>7. IsSending(Consumer, To({NewSat}, Resent(e)))
        /\ \A f : ~Gives(To({NewSat}, Resent(e)), f, "data")
    BY <1>3, <2>4, <2>5, ToNeighbours
  <2> HIDE DEF entry
  <2>8. \A f : Holds(entry, f) => Holds(e, f)
    BY <1>6, <2>6 DEF Holds
  <2>9. Paid(Consumer, entry, To({NewSat}, Resent(e)), {})
    BY <2>7, <2>8 DEF Paid, One, e
  <2>10. Kept({})
    BY <1>3, <2>1, <2>6, <2>7, <2>9, HandleKeeps
  <2>11. /\ nextNonce' \in 1..MaxNonce + 1 /\ recent' \in 1..nextNonce' /\ expressed' < nextNonce'
    BY <1>1, <1>2, <2>1
  <2> QED BY <1>1, <1>2, <1>5, <2>10, <2>11, KeptIsInv
<1>7. CASE ~resends
  <2>1. Handle(Consumer, None, e, Nothing) /\ UNCHANGED <<nextNonce, recent>>
    BY <1>7 DEF Move
  <2>2. IsSending(Consumer, Nothing) /\ \A f : ~Gives(Nothing, f, "data")
    BY DEF Nothing, IsSending, Gives
  <2>3. Paid(Consumer, e, Nothing, {})
    BY <2>2 DEF Paid, One
  <2>4. Kept({})
    BY <1>3, <1>4, <2>1, <2>2, <2>3, HandleKeeps
  <2> QED BY <1>1, <1>2, <1>5, <2>1, <2>4, KeptIsInv
<1> QED BY <1>6, <1>7

LEMMA FlowInvStep ==
  ASSUME FlowInv, <<Consumer, NewSat>> \in Link, [Next]_vars
  PROVE  FlowInv'
<1>1. CASE Express
  BY <1>1, ExpressKeeps
<1>2. CASE Receive
  BY <1>2, ReceiveKeeps
<1>3. CASE Produce
  BY <1>3, ProduceKeeps
<1>4. CASE Move
  BY <1>4, MoveKeeps
<1>5. ASSUME NEW n \in Node, FinalizeNow(n) \/ EntryExpires(n)
      PROVE  FlowInv'
  BY <1>5, FinalizeKeeps DEF FinalizeNow, EntryExpires
<1>6. CASE UNCHANGED vars
  BY <1>6 DEF vars, appVars, FlowInv, TypeOK, Balance, AppBalance, LinkBalance, OnePerLink,
              Carrying, Holds
<1> QED BY <1>1, <1>2, <1>3, <1>4, <1>5, <1>6 DEF Next

LEMMA FlowInvInit ==
  ASSUME Init
  PROVE  FlowInv
<1>1. 1 \in 1..MaxNonce + 1 /\ 1 <= MaxNonce /\ 0 \in 0..MaxNonce
  BY ModeAssumption
<1>2. TypeOK
  <2>1. DOMAIN pit = Node /\ \A n \in Node : pit[n] = None
    BY DEF Init
  <2>2. <<>> \in Seq(SUBSET Packets) /\ <<>> \in Seq(Nonce)
    OBVIOUS
  <2>3. interests \in [Link -> Seq(Nonce)] /\ datas \in [Link -> Nat] /\ air \in Seq(SUBSET Packets)
    BY <2>2 DEF Init
  <2>4. nextNonce \in 1..MaxNonce + 1 /\ recent \in 1..nextNonce
    BY ModeAssumption DEF Init
  <2> QED BY <1>1, <2>1, <2>3, <2>4 DEF Init, TypeOK
<1>3. OnePerLink(air)
  BY DEF Init, OnePerLink
<1>4. \A e \in Link : LinkBalance(e)
  <2> SUFFICES ASSUME NEW e \in Link PROVE LinkBalance(e)
    OBVIOUS
  <2>1. Carrying(air, e) = {}
    BY DEF Init, Carrying
  <2>2. Cardinality(Carrying(air, e)) = 0
    BY <2>1, FS_EmptySet
  <2>3. e[2] \in Node /\ <<e[2], e[1]>> \in Link
    BY NodeAssumption
  <2> QED BY <2>2, <2>3 DEF Init, LinkBalance, Holds, One
<1>5. AppBalance
  BY NodeAssumption DEF Init, AppBalance, Holds, One
<1> QED BY <1>1, <1>2, <1>3, <1>4, <1>5 DEF FlowInv, Balance, Init

\* In every reachable state the entries, records and packets of the pipelines
\* are well formed, whatever the network.  The new satellite has to be a
\* neighbour of the consumer, which sends pending Interests there.
THEOREM TypeCorrect == <<Consumer, NewSat>> \in Link => (Spec => []TypeOK)
<1> SUFFICES ASSUME <<Consumer, NewSat>> \in Link PROVE Spec => []TypeOK
  OBVIOUS
<1>1. Init => FlowInv
  BY FlowInvInit
<1>2. FlowInv /\ [Next]_vars => FlowInv'
  BY FlowInvStep
<1>3. FlowInv => TypeOK
  BY DEF FlowInv
<1> QED BY <1>1, <1>2, <1>3, PTL DEF Spec

\* Over no link comes more Data than Interests went out, and the consumer gets
\* no more than it asked for (onIncomingData, onContentStoreHit), whatever the
\* network, the routes before and after, the strategy, and the order of copies,
\* retransmissions, Nacks and the handover.
THEOREM DataBalanced == <<Consumer, NewSat>> \in Link => (Spec => []FlowBalance)
<1> SUFFICES ASSUME <<Consumer, NewSat>> \in Link PROVE Spec => []FlowBalance
  OBVIOUS
<1>1. Init => FlowInv
  BY FlowInvInit
<1>2. FlowInv /\ [Next]_vars => FlowInv'
  BY FlowInvStep
<1>3. FlowInv => FlowBalance
  <2> SUFFICES ASSUME FlowInv PROVE FlowBalance
    OBVIOUS
  <2>1. TypeOK /\ (\A e \in Link : LinkBalance(e)) /\ AppBalance
    BY FlowInvPit
  <2>2. answered <= expressed
    BY <2>1, ModeAssumption DEF TypeOK, AppBalance, One
  <2>3. ASSUME NEW e \in Link PROVE datas[e] <= Len(interests[<<e[2], e[1]>>])
    <3> DEFINE b == <<e[2], e[1]>>
    <3>1. b \in Link /\ <<b[2], b[1]>> = e
      BY NodeAssumption
    <3>2. LinkBalance(b)
      BY <2>1, <3>1
    <3>3. datas[e] + One(Holds(pit[b[2]], b[1])) + Cardinality(Carrying(air, b)) <= Len(interests[b])
      BY <3>1, <3>2 DEF LinkBalance
    <3>4. Cardinality(Carrying(air, b)) \in Nat /\ datas[e] \in Nat /\ Len(interests[b]) \in Nat
          /\ One(Holds(pit[b[2]], b[1])) \in Nat
      BY <2>1, <3>1, CarryingFinite DEF TypeOK, One
    <3> DEFINE h == One(Holds(pit[b[2]], b[1]))
               k == Cardinality(Carrying(air, b))
               i == Len(interests[b])
               d == datas[e]
    <3>5. d \in Nat /\ h \in Nat /\ k \in Nat /\ i \in Nat /\ d + h + k <= i
      BY <3>3, <3>4
    <3> HIDE DEF d, h, k, i
    <3>6. d <= i
      BY <3>5
    <3> QED BY <3>6 DEF d, i
  <2> QED BY <2>2, <2>3 DEF FlowBalance
<1> QED BY <1>1, <1>2, <1>3, PTL DEF Spec
=============================================================================
