----------------------------- MODULE Forwarding -----------------------------
(***************************************************************************)
(* The forwarding of one name while a station changes its access           *)
(* satellite, here the consumer's, without the shim layer: the pipelines   *)
(* of NFD's Forwarder on every node, the multicast, retx and hint          *)
(* strategies, and the applications.  Interests differ in their nonces and *)
(* in whether they carry a forwarding hint; there is one Data packet.      *)
(*                                                                         *)
(* All links have the same delay, of 10 ms, so packets arrive in the order *)
(* in which they were sent, whatever links they are on; those that one     *)
(* handler sends arrive in any order.  What is due at once happens before  *)
(* the next packet arrives.  Whether a retransmission comes within the     *)
(* suppression interval is a choice.  Lifetimes (2 s) and retransmission   *)
(* timeouts (at least 200 ms) are longer than an exchange over a few       *)
(* links, so they end when nothing is under way any more; the records of   *)
(* an entry end with it.                                                   *)
(***************************************************************************)
EXTENDS Naturals, Sequences, FiniteSets, Functions

CONSTANTS
  Node, App,            \* nodes; the application face of the hosts
  Hosts,                \* nodes with an application
  Link,                 \* pairs of neighbours, in both directions
  Consumer, Producer,
  Mobile,               \* the host that moves, from OldSat to NewSat
  OldSat, NewSat,
  NextHops,             \* FIB of each node for the name
  NewHops,              \* what Update may make of it
  HintHops,             \* FIB of each node for the prefix of OldSat
  Strategies,           \* of which the stations have one: multicast, retx or hint
  MaxNonce,             \* bound: nonces used in a run
  None

Face == Node \cup {App}
Nonce == 1..MaxNonce
Edge == Link \cup (Hosts \X {App})

ASSUME NodeAssumption ==
  /\ {Consumer, Producer, OldSat, NewSat} \subseteq Node /\ App \notin Node
  /\ Consumer # Producer /\ None \notin Node
  /\ {Consumer, Producer} \subseteq Hosts /\ Hosts \subseteq Node /\ Mobile \in Hosts
  /\ Link \subseteq Node \X Node /\ \A e \in Link : <<e[2], e[1]>> \in Link
ASSUME FibAssumption ==
  \A fib \in {NextHops, HintHops} \cup NewHops :
    fib \in [Node -> SUBSET Face] /\ \A n \in Node : {n} \X fib[n] \subseteq Edge
ASSUME ModeAssumption ==
  /\ Strategies \subseteq {"multicast", "retx", "hint"}
  /\ MaxNonce \in Nat \ {0}

Interest == [type : {"interest"}, nonce : Nonce, hint : BOOLEAN]
Data == [type |-> "data"]
Nack == [type : {"nack"}, nonce : Nonce]
Message == Interest \cup {Data} \cup Nack

VARIABLES
  strategy,             \* the strategy of this simulation
  pit,                  \* the PIT entry of each node, or None
  cs,                   \* nodes with the Data in their Content Store
  deadNonceList,        \* per node
  air,                  \* packets under way, oldest first, in the sets sent at once
  moved,                \* Update has moved the consumer
  hops,                 \* next hops for the name, NextHops until then
  nextNonce,            \* nonces used so far, plus one
  recent,               \* first nonce of the exchange under way
  expressed, answered,  \* Interests the consumer has sent, and Data it has got
  asked,                \* Interests the producer has yet to answer
  interests,            \* history: nonces of the Interests sent on each link
  datas                 \* history: number of Data packets sent on each link

appVars == <<nextNonce, recent, expressed>>
vars == <<strategy, pit, cs, deadNonceList, air, moved, hops, appVars, answered, asked,
          interests, datas>>

Packets == [link : Link, packet : Message]
ASSUME MarkerAssumption == None # App /\ {None, App} \cap Packets = {}

\* nonce and hint are those of the Interest that made the entry.
NewEntry(i) == [nonce |-> i.nonce, hint |-> i.hint, in |-> <<>>, out |-> <<>>,
                satisfied |-> FALSE, timer |-> "running"]

Init ==
  /\ strategy \in Strategies
  /\ pit = [n \in Node |-> None]
  /\ cs = {}
  /\ deadNonceList = [n \in Node |-> {}]
  /\ air = <<>>
  /\ moved = FALSE /\ hops = NextHops
  /\ nextNonce = 1 /\ recent = 1
  /\ expressed = 0 /\ answered = 0 /\ asked = 0
  /\ interests = [e \in Link |-> <<>>]
  /\ datas = [e \in Link |-> 0]

(***************************************************************************)
(* Sending.  sends maps faces of n to what is sent there; took is the      *)
(* packet being handled, App for the producer's answer, or None.  What is  *)
(* sent over the user link that was left is discarded (doSend); what is on *)
(* its way there arrives.                                                  *)
(***************************************************************************)
Gone(e) == moved /\ e \in {<<Mobile, OldSat>>, <<OldSat, Mobile>>}

Left(took) ==
  IF took \in {None, App} THEN air
  ELSE IF Head(air) = {took} THEN Tail(air)
  ELSE [air EXCEPT ![1] = @ \ {took}]

\* The handler of a packet: the new PIT entry of n, and what n sends.
Handle(n, took, entry, sends) ==
  LET sent == {[link |-> <<n, f>>, packet |-> sends[f]] :
                 f \in {g \in DOMAIN sends \ {App} : ~Gone(<<n, g>>)}}
      on(e, type) == \E s \in sent : s.link = e /\ s.packet.type = type
      toApp(st, type) == n = st /\ App \in DOMAIN sends /\ sends[App].type = type
  IN  /\ pit' = [pit EXCEPT ![n] = entry]
      /\ air' = IF sent = {} THEN Left(took) ELSE Append(Left(took), sent)
      /\ answered' = IF toApp(Consumer, "data") THEN answered + 1 ELSE answered
      /\ asked' = IF toApp(Producer, "interest") THEN asked + 1
                  ELSE IF took = App THEN asked - 1 ELSE asked
      /\ interests' = [e \in Link |-> IF on(e, "interest") THEN Append(interests[e], sends[e[2]].nonce)
                                                           ELSE interests[e]]
      /\ datas' = [e \in Link |-> IF on(e, "data") THEN datas[e] + 1 ELSE datas[e]]
      /\ UNCHANGED strategy

Nothing == [f \in {} |-> Data]
To(S, message) == [f \in S |-> message]
Without(records, S) == Restrict(records, DOMAIN records \ S)
With(records, S, record) ==
  [f \in DOMAIN records \cup S |-> IF f \in S THEN record ELSE records[f]]

(***************************************************************************)
(* onIncomingInterest and what follows.                                    *)
(***************************************************************************)

\* findDuplicateNonce; on a point-to-point face the nonce of a retransmission
\* over the same face is not a duplicate.
DuplicateNonce(e, nonce, inFace) ==
  /\ \/ \E f \in DOMAIN e.in \ {inFace} : e.in[f].nonce = nonce
     \/ \E f \in DOMAIN e.out : e.out[f].nonce = nonce
  /\ ~(inFace \in DOMAIN e.in /\ e.in[inFace].nonce = nonce)

IsLoopDead(n, inFace, i) == i.nonce \in deadNonceList[n]
IsLoop(n, inFace, i) ==
  \/ i.nonce \in deadNonceList[n]
  \/ pit[n] # None /\ DuplicateNonce(pit[n], i.nonce, inFace)

InterestLoop(n, took, inFace, i) ==
  /\ IsLoop(n, inFace, i)
  /\ Handle(n, took, pit[n], To({inFace}, [type |-> "nack", nonce |-> i.nonce]))

\* The forwarding hint is stripped in the producer region; then the PIT insert.
Stripped(n, i) == IF n = OldSat THEN [i EXCEPT !.hint = FALSE] ELSE i
Inserted(n, i) == IF pit[n] = None THEN NewEntry(i) ELSE pit[n]

ContentStoreHit(n, took, inFace, i) ==
  LET e == Inserted(n, Stripped(n, i))
  IN  /\ ~IsLoop(n, inFace, i)
      /\ n \in cs /\ DOMAIN e.in = {}
      /\ Handle(n, took, [e EXCEPT !.satisfied = TRUE, !.timer = "now"], To({inFace}, Data))

LookupFibBefore(n, e) == IF e.hint THEN HintHops[n] ELSE NextHops[n]
LookupFib(n, e) == IF e.hint THEN HintHops[n] ELSE hops[n]

\* afterReceiveInterest, the same in all three strategies: all next hops but
\* the one the Interest came from, and but those suppressed, which may be any
\* it was forwarded to in the same exchange.
AfterReceiveInterest(n, took, inFace, i, e) ==
  LET nexthops == LookupFib(n, e)
  IN  \E suppressed \in SUBSET {f \in nexthops \cap DOMAIN e.out : e.out[f].nonce >= recent} :
        LET chosen == nexthops \ (suppressed \cup {inFace})
        IN  IF chosen = {} /\ suppressed = {}
            THEN Handle(n, took, [e EXCEPT !.in = Without(@, {inFace}), !.timer = "now"],
                        To({inFace}, [type |-> "nack", nonce |-> i.nonce]))
            ELSE Handle(n, took,
                        [e EXCEPT !.out = With(@, chosen, [nonce |-> i.nonce, nacked |-> FALSE])],
                        To(chosen, i))

ContentStoreMiss(n, took, inFace, i) ==
  LET j == Stripped(n, i)
      e == Inserted(n, j)
  IN  /\ ~IsLoop(n, inFace, i)
      /\ ~(n \in cs /\ DOMAIN e.in = {})
      /\ AfterReceiveInterest(n, took, inFace, j,
           [e EXCEPT !.in = With(@, {inFace}, [nonce |-> i.nonce]), !.timer = "running"])

IncomingInterest(n, took, inFace, i) ==
  /\ \/ InterestLoop(n, took, inFace, i)
     \/ ContentStoreHit(n, took, inFace, i)
     \/ ContentStoreMiss(n, took, inFace, i)
  /\ UNCHANGED <<cs, deadNonceList, moved, hops>>

(***************************************************************************)
(* onIncomingData, for a name that only one entry can match, and with a    *)
(* strategy that sends Data to all; onDataUnsolicited drops it.  No nonce  *)
(* is dead, since the Interests are not MustBeFresh.                       *)
(***************************************************************************)
Pending(e, inFace) == DOMAIN e.in \ {inFace}

SatisfiedKept(e, inFace) ==
  [e EXCEPT !.out = Without(@, {inFace}), !.satisfied = TRUE]
Satisfied(e, inFace) ==
  [e EXCEPT !.in = Without(@, Pending(e, inFace)),
            !.out = Without(@, {inFace}),
            !.satisfied = TRUE, !.timer = "now"]

\* Data need not come from where the Interest was sent.
MatchesRecord(n, inFace) == pit[n] # None /\ inFace \in DOMAIN pit[n].out \cup {App}
Matches(n, inFace) == pit[n] # None

IncomingData(n, took, inFace) ==
  LET e == pit[n]
  IN  /\ IF ~Matches(n, inFace)
         THEN Handle(n, took, e, Nothing) /\ UNCHANGED cs
         ELSE /\ Handle(n, took, Satisfied(e, inFace), To(Pending(e, inFace), Data))
              /\ cs' = cs \cup {n}
      /\ UNCHANGED <<deadNonceList, moved, hops>>

(***************************************************************************)
(* onIncomingNack.  Multicast passes a Nack on when no other upstream is   *)
(* left, or to the only one left if that is also a downstream; retx and    *)
(* hint leave it at that.  An out-record that has expired is not waited    *)
(* for.                                                                    *)
(***************************************************************************)
ProcessesNacks(n) == strategy = "multicast" \/ n \notin {Consumer, Producer}

NackedDownstreams(n, e, waiting) ==
  IF ~ProcessesNacks(n) THEN {}
  ELSE IF waiting = {} THEN DOMAIN e.in
  ELSE IF Cardinality(waiting) = 1 THEN waiting \cap DOMAIN e.in ELSE {}

NackAccepted(n, inFace, nonce) ==
  pit[n] # None /\ inFace \in DOMAIN pit[n].out /\ pit[n].out[inFace].nonce = nonce

IncomingNack(n, took, inFace, nonce) ==
  LET e == pit[n]
      recorded == [e EXCEPT !.out[inFace].nacked = TRUE]
      waiting == {f \in DOMAIN e.out \ {inFace} : ~e.out[f].nacked}
      downstreams == NackedDownstreams(n, e, waiting)
  IN  /\ IF NackAccepted(n, inFace, nonce)
         THEN \E late \in SUBSET waiting :
                Handle(n, took,
                       [recorded EXCEPT !.in = Without(@, downstreams),
                                        !.timer = IF waiting = late THEN "now" ELSE @],
                       [f \in downstreams |-> [type |-> "nack", nonce |-> e.in[f].nonce]])
         ELSE Handle(n, took, e, Nothing)
      /\ UNCHANGED <<cs, deadNonceList, moved, hops>>

(***************************************************************************)
(* The end of an entry.  An unsatisfied one leaves its outgoing nonces in  *)
(* the Dead Nonce List.                                                    *)
(***************************************************************************)
Finalize(n) ==
  /\ deadNonceList' = [deadNonceList EXCEPT ![n] = @ \cup
         IF pit[n].satisfied THEN {} ELSE {pit[n].out[f].nonce : f \in DOMAIN pit[n].out}]
  /\ pit' = [pit EXCEPT ![n] = None]
  /\ UNCHANGED <<strategy, cs, air, moved, hops, appVars, answered, asked, interests, datas>>

FinalizeNow(n) == pit[n] # None /\ pit[n].timer = "now" /\ Finalize(n)

Idle == asked = 0 /\ \A n \in Node : pit[n] # None => pit[n].timer = "running"
Quiet == Idle /\ air = <<>>

EntryExpires(n) == Quiet /\ pit[n] # None /\ Finalize(n)

(***************************************************************************)
(* Packets from neighbours and applications.                               *)
(***************************************************************************)
Incoming(s) ==
  LET from == s.link[1]
      n == s.link[2]
  IN  CASE s.packet.type = "interest" -> IncomingInterest(n, s, from, s.packet)
        [] s.packet.type = "data"     -> IncomingData(n, s, from)
        [] s.packet.type = "nack"     -> IncomingNack(n, s, from, s.packet.nonce)

Receive ==
  /\ Idle /\ air # <<>>
  /\ \E s \in Head(air) : Incoming(s)
  /\ UNCHANGED appVars

\* The consumer sends an Interest, or sends it again, until it has the Data.
Express ==
  /\ answered = 0
  /\ IF expressed = 0 THEN Idle ELSE Quiet
  /\ nextNonce <= (IF moved THEN MaxNonce ELSE MaxNonce - 2)
  /\ IncomingInterest(Consumer, None, App, [type |-> "interest", nonce |-> nextNonce, hint |-> FALSE])
  /\ nextNonce' = nextNonce + 1
  /\ recent' = IF Quiet THEN nextNonce ELSE recent
  /\ expressed' = expressed + 1

Produce ==
  /\ asked > 0
  /\ IncomingData(Producer, App, App)
  /\ UNCHANGED appVars

(***************************************************************************)
(* Update gives the consumer its new link, and the nodes new routes.  For  *)
(* the new next hop of the station, retx and hint send a pending Interest  *)
(* once more, with a fresh nonce (afterNewNextHop).                        *)
(***************************************************************************)
SameNonce(e) == e.in[App].nonce
FreshNonce(e) == nextNonce
Resent(e) ==
  [type |-> "interest", nonce |-> FreshNonce(e), hint |-> (strategy = "hint" \/ e.hint)]

Move ==
  LET e == pit[Consumer]
  IN  /\ Idle /\ ~moved
      /\ moved' = TRUE /\ hops' \in NewHops
      /\ IF strategy # "multicast" /\ e # None /\ DOMAIN e.in \ {NewSat} # {}
         THEN /\ Handle(Consumer, None,
                        [e EXCEPT !.out = With(@, {NewSat}, [nonce |-> FreshNonce(e), nacked |-> FALSE])],
                        To({NewSat}, Resent(e)))
              /\ nextNonce' = nextNonce + 1
              /\ recent' = IF Quiet THEN nextNonce ELSE recent
         ELSE Handle(Consumer, None, e, Nothing) /\ UNCHANGED <<nextNonce, recent>>
      /\ UNCHANGED <<cs, deadNonceList, expressed>>

Next ==
  \/ Express \/ Receive \/ Produce \/ Move
  \/ \E n \in Node : FinalizeNow(n) \/ EntryExpires(n)

Spec == Init /\ [][Next]_vars

\* Every packet arrives, every timer set to now fires, Update runs, and the
\* consumer, active until 1 s after it, sends again what was not answered.
Fairness ==
  /\ WF_vars(Express)
  /\ WF_vars(Receive) /\ WF_vars(Produce) /\ WF_vars(Move)
  /\ \A n \in Node : WF_vars(FinalizeNow(n))

FairSpec == Spec /\ Fairness

----------------------------------------------------------------------------
(* Properties.                                                             *)

IsEntry(e) ==
  /\ e.nonce \in Nonce /\ e.hint \in BOOLEAN /\ e.satisfied \in BOOLEAN /\ e.timer \in {"running", "now"}
  /\ DOMAIN e.in \cup DOMAIN e.out \subseteq Face
  /\ \A f \in DOMAIN e.in : e.in[f] \in [nonce : Nonce]
  /\ \A f \in DOMAIN e.out : e.out[f] \in [nonce : Nonce, nacked : BOOLEAN]

TypeOK ==
  /\ DOMAIN pit = Node /\ \A n \in Node : pit[n] = None \/ IsEntry(pit[n])
  /\ cs \subseteq Node
  /\ deadNonceList \in [Node -> SUBSET Nonce]
  /\ air \in Seq(SUBSET Packets)
  /\ moved \in BOOLEAN
  /\ nextNonce \in 1..MaxNonce + 1 /\ recent \in 1..nextNonce
  /\ expressed \in 0..MaxNonce /\ answered \in Nat /\ asked \in Nat
  /\ interests \in [Link -> Seq(Nonce)]
  /\ datas \in [Link -> Nat]

\* No node sends the same Interest twice over a link, however next hops run
\* in circles, entries end and copies come back: the records of the entry or
\* the Dead Nonce List remember the nonce.
NoInterestTwice ==
  \A e \in Link : \A i, j \in DOMAIN interests[e] : i # j => interests[e][i] # interests[e][j]

\* Flow balance: over each link no more Data comes back than Interests went
\* out, however pipelines, caches and retransmissions interleave.
FlowBalance ==
  /\ answered <= expressed
  /\ \A e \in Link : datas[e] <= Len(interests[<<e[2], e[1]>>])

\* While the old path stays installed, what retx and hint send over the new
\* link is enough: once nothing is under way, no Interest of the consumer is
\* left without its Data.
NoneStranded ==
  Quiet /\ moved /\ strategy # "multicast" /\ hops[OldSat] = NextHops[OldSat] =>
    pit[Consumer] = None

\* Whatever the routes and the strategy, and whenever the consumer moves, it
\* gets the Data in the end.
ConsumerServed == expressed > 0 ~> answered > 0
=============================================================================
