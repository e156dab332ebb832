---------------------------- MODULE LpReliability ----------------------------
(***************************************************************************)
(* NDNLPv2 reliability between the two ends of a link: fragments are       *)
(* numbered, kept until the peer's Ack, and sent again, under a new        *)
(* number, when an RTO timer fires or when Acks for enough later numbers   *)
(* have come; a packet one of whose fragments was sent too often is given  *)
(* up.  With fragmentation, reassembly and the calls of GenericLinkService *)
(* that join them.                                                         *)
(*                                                                         *)
(* The link is FIFO, and loses packets.  The timer of any fragment that is *)
(* kept may fire at any time: RTT estimates change between one fragment    *)
(* and the next, and do not bound the delay of an Ack.                     *)
(***************************************************************************)
EXTENDS Naturals, Sequences, FiniteSets, SequencesExt

CONSTANTS
  End,                  \* the two ends
  Traffic,              \* what may be sent: per end, the fragments of each packet
  MaxPacket,            \* bound, per end: packets sent
  MaxRetx, SeqNumLossThreshold,
  AckRoom,              \* Acks for which a fragment leaves room; an IDLE packet takes all
  SeqRange,             \* size of the range of TxSequence, more than is used in a run
  LastTxSeqNo,          \* last numbers used before, when everything was acknowledged
  MaxSwitch,            \* bound: changes of the options, for each traffic
  None

TxSeqNo == 0..SeqRange - 1
ASSUME LpAssumption ==
  /\ MaxRetx \in Nat /\ SeqNumLossThreshold \in Nat \ {0} /\ AckRoom \in Nat
  /\ SeqRange \in Nat \ {0} /\ LastTxSeqNo \subseteq TxSeqNo /\ None \notin TxSeqNo
  /\ Traffic \subseteq [End -> Seq(Nat \ {0})]
  /\ \A t \in Traffic : \A e \in End : Len(t[e]) <= MaxPacket
  /\ MaxSwitch \in [Traffic -> Nat]

VARIABLES
  fragments,            \* the traffic of this run
  lp,                   \* the link service of each end
  link,                 \* per end, the packets on their way to it
  received,             \* history: fragments an end has got
  handedUp,             \* history: per end, how often each packet was handed up
  switches              \* changes of the options so far

vars == <<fragments, lp, link, received, handedUp, switches>>

Peer(e) == CHOOSE f \in End : f # e
Distance(from, to) == (to + SeqRange - from) % SeqRange

\* unacked maps the TxSequence numbers in use to their fragments, first is the
\* start of the window; partial has the fragments of incomplete packets.
Init ==
  /\ fragments \in Traffic
  /\ lp \in [End ->
       [enabled : {TRUE}, unacked : {<<>>}, first : {None}, last : LastTxSeqNo, netPkts : {<<>>},
        ackQueue : {<<>>}, idleTimer : {FALSE}, partial : {{}}, out : {<<>>},
        nAcknowledged : {0}, nRetransmitted : {0}, nRetxExhausted : {0}, aborted : {FALSE}]]
  /\ link = [e \in End |-> <<>>]
  /\ received = [e \in End |-> {}]
  /\ handedUp = [e \in End |-> [i \in DOMAIN fragments[Peer(e)] |-> 0]]
  /\ switches = 0

(***************************************************************************)
(* Steps within a handler, on the state s of one end.                      *)
(***************************************************************************)

\* sendLpPacket, with piggyback.
SendLpPacket(s, txSeq, frag, room) ==
  LET n == IF ~s.enabled THEN 0 ELSE IF room < Len(s.ackQueue) THEN room ELSE Len(s.ackQueue)
  IN  [s EXCEPT !.out = Append(@, [txSeq |-> txSeq, frag |-> frag, acks |-> SubSeq(s.ackQueue, 1, n)]),
                !.ackQueue = SubSeq(@, n + 1, Len(@))]

\* assignTxSequence and the insertion into m_unackedFrags.
NextTxSeq(s) == (s.last + 1) % SeqRange
Insert(s, frag) ==
  [s EXCEPT !.last = NextTxSeq(s),
            !.aborted = @ \/ (DOMAIN s.unacked # {} /\ NextTxSeq(s) = s.first),
            !.unacked = (NextTxSeq(s) :> frag) @@ @,
            !.first = IF DOMAIN s.unacked = {} THEN NextTxSeq(s) ELSE @,
            !.netPkts[frag.packet].unacked = @ \cup {NextTxSeq(s)}]

\* deleteUnackedFrag: the window moves on to the next in the map, and at the end
\* of the map to its beginning.
DeleteStuck(s, q) ==
  LET rest == DOMAIN s.unacked \ {q}
  IN  [s EXCEPT !.unacked = [p \in rest |-> @[p]],
                !.first = IF rest = {} THEN None
                          ELSE IF @ = q /\ \E p \in rest : p > q
                          THEN CHOOSE p \in rest : p > q /\ \A r \in rest : r > q => p <= r
                          ELSE @]
DeleteUnackedFrag(s, q) ==
  LET rest == DOMAIN s.unacked \ {q}
      next == CHOOSE p \in rest : \A r \in rest : Distance(q, p) <= Distance(q, r)
  IN  [s EXCEPT !.unacked = [p \in rest |-> @[p]],
                !.first = IF rest = {} THEN None ELSE IF @ = q THEN next ELSE @]

GiveUpAlone(s, q) == [DeleteUnackedFrag(s, q) EXCEPT !.nRetxExhausted = @ + 1]
GiveUp(s, q) ==
  LET i == s.unacked[q].packet
      others == SetToSeq(s.netPkts[i].unacked \ {q})
  IN  [DeleteUnackedFrag(FoldLeft(DeleteUnackedFrag, s, others), q) EXCEPT
         !.nRetxExhausted = @ + 1, !.netPkts[i].unacked = {}]

RetxAfresh(frag) == [frag EXCEPT !.nGreaterSeqAcks = 0]
Retx(frag) == [frag EXCEPT !.retxCount = @ + 1, !.nGreaterSeqAcks = 0]
Retransmit(s, q) ==
  LET frag == s.unacked[q]
      moved == DeleteUnackedFrag(Insert(s, Retx(frag)), q)
      updated == [moved EXCEPT !.netPkts[frag.packet].unacked = @ \ {q},
                               !.netPkts[frag.packet].didRetx = TRUE]
  IN  SendLpPacket(updated, NextTxSeq(s), <<frag.packet, frag.index>>, AckRoom)

ExhaustedLate(frag) == frag.retxCount > MaxRetx
Exhausted(frag) == frag.retxCount >= MaxRetx

OnLpPacketLost(s, q) ==
  IF q \notin DOMAIN s.unacked THEN [s EXCEPT !.aborted = TRUE]
  ELSE IF Exhausted(s.unacked[q]) THEN GiveUp(s, q)
  ELSE Retransmit(s, q)

\* The numbers that onLpPacketLost removes.
RemovedAlone(s, q) == {q}
Removed(s, q) ==
  IF q \in DOMAIN s.unacked /\ Exhausted(s.unacked[q])
  THEN s.netPkts[s.unacked[q].packet].unacked ELSE {q}

\* findLostLpPackets, from the start of the window up to the acknowledged one.
Before(s, q) == {p \in DOMAIN s.unacked : Distance(s.first, p) < Distance(s.first, q)}
CountAck(s, q) ==
  [s EXCEPT !.unacked = [p \in DOMAIN @ |->
     IF p \in Before(s, q) THEN [@[p] EXCEPT !.nGreaterSeqAcks = @ + 1] ELSE @[p]]]
FindLost(s, q) ==
  SetToSortSeq({p \in Before(s, q) : s.unacked[p].nGreaterSeqAcks >= SeqNumLossThreshold},
               LAMBDA p, r : Distance(s.first, p) < Distance(s.first, r))

\* onLpPacketAcknowledged.
AcknowledgedEach(s, q) ==
  LET i == s.unacked[q].packet
  IN  [DeleteUnackedFrag(s, q) EXCEPT !.netPkts[i].unacked = @ \ {q}, !.nAcknowledged = @ + 1]
Acknowledged(s, q) ==
  LET i == s.unacked[q].packet
      last == s.netPkts[i].unacked = {q}
  IN  [DeleteUnackedFrag(s, q) EXCEPT
         !.netPkts[i].unacked = @ \ {q},
         !.nRetransmitted = IF last /\ s.netPkts[i].didRetx THEN @ + 1 ELSE @,
         !.nAcknowledged = IF last /\ ~s.netPkts[i].didRetx THEN @ + 1 ELSE @]

\* One Ack in processIncomingPacket.
ProcessAck(s, q) ==
  LET counted == CountAck(s, q)
      Lost(acc, p) == IF p \in acc.removed THEN acc
                      ELSE [s |-> OnLpPacketLost(acc.s, p), removed |-> acc.removed \cup Removed(acc.s, p)]
  IN  IF q \notin DOMAIN s.unacked THEN s
      ELSE FoldLeft(Lost, [s |-> Acknowledged(counted, q), removed |-> {}], FindLost(counted, q)).s

QueueAck(s, q) == [s EXCEPT !.ackQueue = Append(@, q), !.idleTimer = TRUE]

ProcessIncomingPacket(s, m) ==
  LET processed == FoldLeft(ProcessAck, s, m.acks)
  IN  IF ~s.enabled THEN s
      ELSE IF m.txSeq = None THEN processed ELSE QueueAck(processed, m.txSeq)

\* receiveFragment: a packet of one fragment is handed up, another when it is
\* complete.  The identifier of the message is that of the packet.
Parts(i, n) == {i} \X (1..n)
Complete(s, frag, n) == Parts(frag[1], n) \subseteq s.partial \cup {frag}
ReceiveFragment(s, frag, n) ==
  [s EXCEPT !.partial = IF Complete(s, frag, n) THEN @ \ Parts(frag[1], n) ELSE @ \cup {frag}]

(***************************************************************************)
(* Actions.                                                                *)
(***************************************************************************)
\* The handler of e ends in state s; what it has sent is on the link.
Ends(e, s) ==
  /\ lp' = [lp EXCEPT ![e] = [s EXCEPT !.out = <<>>]]
  /\ link' = [link EXCEPT ![Peer(e)] = @ \o s.out]

\* Packets sent while reliability is off are not kept, and left out here.
\* sendNetPacket: handleOutgoing numbers and keeps all fragments, then they are sent.
SendNetPacket(e) ==
  LET i == Len(lp[e].netPkts) + 1
      n == fragments[e][i]
      first == NextTxSeq(lp[e])
      kept(s, j) == Insert(s, [packet |-> i, index |-> j, retxCount |-> 0, nGreaterSeqAcks |-> 0])
      sent(s, j) == SendLpPacket(s, (first + j - 1) % SeqRange, <<i, j>>, AckRoom)
      numbers == [j \in 1..n |-> j]
      s0 == [lp[e] EXCEPT !.netPkts = Append(@, [unacked |-> {}, didRetx |-> FALSE])]
  IN  /\ lp[e].enabled
      /\ i <= Len(fragments[e])
      /\ Ends(e, FoldLeft(sent, FoldLeft(kept, s0, numbers), numbers))
      /\ UNCHANGED <<fragments, received, handedUp, switches>>

DoReceivePacket(e) ==
  /\ link[e] # <<>>
  /\ LET m == Head(link[e])
         s == ProcessIncomingPacket(lp[e], m)
         n == fragments[Peer(e)][m.frag[1]]
     IN  /\ lp' = [lp EXCEPT ![e] = [(IF m.frag = None THEN s ELSE ReceiveFragment(s, m.frag, n))
                                       EXCEPT !.out = <<>>]]
         /\ link' = [link EXCEPT ![e] = Tail(@), ![Peer(e)] = @ \o s.out]
         /\ received' = [received EXCEPT ![e] = @ \cup ({m.frag} \ {None})]
         /\ handedUp' = IF m.frag # None /\ Complete(lp[e], m.frag, n)
                        THEN [handedUp EXCEPT ![e][m.frag[1]] = @ + 1] ELSE handedUp
  /\ UNCHANGED <<fragments, switches>>

Lose(e) ==
  /\ link[e] # <<>>
  /\ link' = [link EXCEPT ![e] = Tail(@)]
  /\ UNCHANGED <<fragments, lp, received, handedUp, switches>>

\* The RTO timer of a fragment, set when it is sent.  The RTO is one second before
\* the first Ack and a small multiple of the round trip after it, so that the
\* timer of a later number may be the first to fire.
TimerOfEnabled(e, q) == lp[e].enabled /\ q \in DOMAIN lp[e].unacked
Timer(e, q) == q \in DOMAIN lp[e].unacked
Rto(e, q) ==
  /\ Timer(e, q)
  /\ Ends(e, OnLpPacketLost(lp[e], q))
  /\ UNCHANGED <<fragments, received, handedUp, switches>>

\* The idle Ack timer: requestIdlePacket until no Ack is left.
IdleAck(e) ==
  /\ lp[e].idleTimer
  /\ LET s == lp[e]
         sent == IF s.ackQueue = <<>> THEN s ELSE SendLpPacket(s, None, None, Len(s.ackQueue))
     IN  Ends(e, [sent EXCEPT !.idleTimer = FALSE])
  /\ UNCHANGED <<fragments, received, handedUp, switches>>

\* An incomplete packet is dropped, when no more of it is on the link.
TimeoutPartialPacket(e, i) ==
  /\ i \in {p[1] : p \in lp[e].partial}
  /\ link[e] = <<>>
  /\ lp' = [lp EXCEPT ![e].partial = {p \in @ : p[1] # i}]
  /\ UNCHANGED <<fragments, link, received, handedUp, switches>>

SetOptions(e) ==
  /\ switches < MaxSwitch[fragments]
  /\ switches' = switches + 1
  /\ lp' = [lp EXCEPT ![e].enabled = ~@, ![e].idleTimer = @ /\ ~lp[e].enabled]
  /\ UNCHANGED <<fragments, link, received, handedUp>>

Next ==
  \E e \in End :
    \/ SendNetPacket(e)
    \/ DoReceivePacket(e) \/ Lose(e)
    \/ IdleAck(e)
    \/ SetOptions(e)
    \/ \E q \in TxSeqNo : Rto(e, q)
    \/ \E i \in DOMAIN fragments[Peer(e)] : TimeoutPartialPacket(e, i)

Spec == Init /\ [][Next]_vars

\* While timers are set, one of them fires in time.  Nothing is assumed of the link.
FairSpec ==
  /\ Spec
  /\ \A e \in End : WF_vars(IdleAck(e)) /\ WF_vars(\E q \in TxSeqNo : Rto(e, q))

----------------------------------------------------------------------------
(* Properties.                                                             *)

UnackedFrag == [packet : Nat, index : Nat, retxCount : 0..MaxRetx, nGreaterSeqAcks : Nat]
LpPacket ==
  {m \in [txSeq : TxSeqNo \cup {None}, frag : (Nat \X Nat) \cup {None}, acks : Seq(TxSeqNo)] :
     (m.txSeq = None) = (m.frag = None)}

TypeOK ==
  /\ switches \in 0..MaxSwitch[fragments]
  /\ \A e \in End :
       /\ DOMAIN lp[e].unacked \subseteq TxSeqNo
       /\ \A q \in DOMAIN lp[e].unacked : lp[e].unacked[q] \in UnackedFrag
       /\ lp[e].first \in TxSeqNo \cup {None} /\ lp[e].last \in TxSeqNo
       /\ lp[e].ackQueue \in Seq(TxSeqNo)
       /\ Len(lp[e].netPkts) <= Len(fragments[e])
       /\ link[e] \in Seq(LpPacket)

\* The assertions of the code hold: a fragment that is declared lost is still
\* kept, although in the same pass the packet of another may have been given up
\* and Acks, timers and retransmissions change the map; and no number is given
\* twice in one window.
NeverAborts == \A e \in End : ~lp[e].aborted

\* The window starts at the oldest fragment kept, also when the numbers have
\* come round, and whatever Acks and losses have left in it: else Acks would be
\* counted for the wrong fragments.
WindowStart ==
  \A e \in End :
    /\ (lp[e].first = None) = (DOMAIN lp[e].unacked = {})
    /\ \A q \in DOMAIN lp[e].unacked :
         /\ lp[e].first \in DOMAIN lp[e].unacked
         /\ Distance(q, lp[e].last) <= Distance(lp[e].first, lp[e].last)

Keeps(e, i) == \E q \in DOMAIN lp[e].unacked : lp[e].unacked[q].packet = i

\* Every packet of which no fragment is kept any more has ended in one way, once.
CountedOnce ==
  \A e \in End :
    lp[e].nAcknowledged + lp[e].nRetransmitted + lp[e].nRetxExhausted =
      Cardinality({i \in DOMAIN lp[e].netPkts : ~Keeps(e, i)})

\* What counts as acknowledged has arrived, all of it: no Ack, however late, is
\* taken for one of another fragment.
AckedReceived ==
  \A e \in End :
    lp[e].nAcknowledged + lp[e].nRetransmitted <=
      Cardinality({i \in DOMAIN lp[e].netPkts : Parts(i, fragments[e][i]) \subseteq received[Peer(e)]})

\* A packet may be handed up again when its Ack is late, but no more often than
\* its fragments may be sent.
HandedUpBounded ==
  \A e \in End : \A i \in DOMAIN handedUp[e] : handedUp[e][i] <= MaxRetx + 1

\* Every packet ends, acknowledged or given up, even when the link takes
\* everything, and when reliability is switched off while it is under way: again
\* and again no fragment is kept.
PacketsEnd == []<>(\A e \in End : \A i \in 1..MaxPacket : ~Keeps(e, i))
=============================================================================
