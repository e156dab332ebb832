-------------------------------- MODULE Kite --------------------------------
(***************************************************************************)
(* KITE: a mobile producer is reached over a rendezvous (RV).  When it has *)
(* a new access satellite it sends a request towards the RV; the Ack that  *)
(* comes back makes each node on the way add a trace, a route for the      *)
(* producer's prefix over the face the request came from, and pull, that   *)
(* is send over the trace, the Interests that are pending there.           *)
(* (onIncomingKiteAck, afterKiteUpdate and doPull of fw/forwarder.cpp, and *)
(* the producer and RV of scenario/ndn-tools/tools/kite.)                  *)
(*                                                                         *)
(* Interests and Data under the prefix are those of Forwarding, under the  *)
(* multicast strategy; every node but the producer has one route towards   *)
(* the RV.  What happens is the time around a move, within the lifetime    *)
(* of the last request's trace (attribute Lifetime): that one does not     *)
(* expire here, while those of requests it supersedes may at any time.     *)
(***************************************************************************)
EXTENDS Naturals, Sequences, FiniteSets, Functions

CONSTANTS
  Node, App, Link, Consumer, Producer, OldSat, NewSat, None,
  Rv,                   \* node of the rendezvous application
  Up,                   \* of each node but the producer, the face towards the RV
  MaxNonce,             \* bound: nonces the consumer uses
  MaxRequest            \* bound: requests of the producer, the last one after it moved

Request == 1..MaxRequest
Hosts == {Consumer, Producer, Rv}
Inner == Node \ {Producer}

\* Where there is no trace, each node has a route, one hop closer to the RV.
IsDepth(depth) == \A n \in Inner \ {Rv} : Up[n] \in Inner /\ depth[n] = depth[Up[n]] + 1
Depths == {depth \in [Inner -> 0..Cardinality(Node)] : depth[Rv] = 0 /\ IsDepth(depth)}

ASSUME PlaceAssumption ==
  /\ IsFiniteSet(Node) /\ App \notin Node /\ Producer \in Node
  /\ {Rv, OldSat, NewSat} \subseteq Inner
ASSUME RouteAssumption == Depths # {}
ASSUME RequestAssumption == MaxRequest \in Nat /\ MaxRequest >= 2

RequestMessage == [type : {"request", "ack"}, request : Request]
ASSUME MessageAssumption ==
  {None, App} \cap [link : Node \X Node, packet : RequestMessage] = {}

NoTrace == [f \in {} |-> 0]

\* The FIB for names under the prefix: the traces there are, else the route
\* towards the RV.  At the RV the traces inherit the application's route.
Fib(n, trace) ==
  CASE n = Producer -> {App}
    [] n = Rv       -> {App} \cup DOMAIN trace
    [] OTHER        -> IF trace = NoTrace THEN {Up[n]} ELSE DOMAIN trace

VARIABLES
  strategy, pit, cs, deadNonceList, air, moved, hops, nextNonce, recent, expressed,
  answered, asked, interests, datas,
  associations,         \* calls of OnAssociation to come
  requests, acked,      \* requests sent so far; the last one whose Ack the producer has
  asking,               \* per node the in-records of the requests' PIT entries
  traces,               \* per node and face of a trace, the request of its announcement
  announced,            \* announcements at the RIB of a node: not in the FIB yet, or done
  pulls                 \* calls of sendInterest that doPull has scheduled

F == INSTANCE Forwarding WITH
       Mobile <- Producer, Strategies <- {"multicast"}, NewHops <- {},
       NextHops <- [n \in Node |-> Fib(n, NoTrace)], HintHops <- [n \in Node |-> {}]

appVars == <<nextNonce, recent, expressed>>
forwardVars == <<strategy, pit, cs, deadNonceList, air, moved, hops, appVars, answered, asked,
                 interests, datas>>
kiteVars == <<associations, requests, acked, asking, traces, announced, pulls>>
vars == <<forwardVars, kiteVars>>

Announcement == [node : Node, from : Node, face : Node, request : Request, stage : {"rib", "done"}]
InRecord == [request : Request, face : Node \cup {App}]
Pulled == [node : Node, face : Node, nonce : F!Nonce]

Init ==
  /\ F!Init
  /\ associations = 1 /\ requests = 0 /\ acked = 0
  /\ asking = [n \in Node |-> {}]
  /\ traces = [n \in Node |-> NoTrace]
  /\ announced = {} /\ pulls = {}

\* A packet that leaves the entries of the name alone.
Pass(n, took, sends) == F!Handle(n, took, pit[n], sends) /\ UNCHANGED <<cs, deadNonceList, moved, hops, appVars>>

(***************************************************************************)
(* The producer.                                                           *)
(***************************************************************************)
Access == IF moved THEN NewSat ELSE OldSat

\* OnAssociation, 1 ms after Update: one request, without repetition.
OnAssociation ==
  /\ F!Idle
  /\ associations > 0
  /\ associations' = associations - 1
  /\ requests' = requests + 1
  /\ asking' = [asking EXCEPT ![Producer] = @ \cup {[request |-> requests', face |-> App]}]
  /\ Pass(Producer, None, F!To({Access}, [type |-> "request", request |-> requests']))
  /\ UNCHANGED <<acked, traces, announced, pulls>>

\* Updates are a minute apart, so what the one before has set off has ended;
\* an attachment and a prediction may be of the same one.
Calm == associations = 0 /\ acked = requests

\* Update predicts that the producer will move, and schedules an association.
Predict ==
  /\ F!Idle
  /\ requests = 0 \/ Calm
  /\ ~moved /\ requests + associations < MaxRequest - 1
  /\ associations' = associations + 1
  /\ UNCHANGED <<forwardVars, requests, acked, asking, traces, announced, pulls>>

\* The next Update gives it its new link.
Move ==
  /\ F!Idle
  /\ Calm /\ requests = MaxRequest - 1
  /\ ~moved /\ moved' = TRUE
  /\ associations' = associations + 1
  /\ UNCHANGED <<strategy, pit, cs, deadNonceList, air, hops, appVars, answered, asked, interests, datas,
                 requests, acked, asking, traces, announced, pulls>>

(***************************************************************************)
(* Requests and their Acks, whose names are different for each request.    *)
(***************************************************************************)
\* slAnnounce for the faces of the in-records, on a packet that came over inFace.
Announce(n, inFace, faces, k) ==
  announced \cup
    {[node |-> n, from |-> inFace, face |-> f, request |-> k, stage |-> "rib"] : f \in faces}

\* The RV answers at once, so that no entry stays at its node.
IncomingRequest(n, took, inFace, k) ==
  /\ IF n = Rv
     THEN /\ announced' = Announce(n, inFace, {inFace}, k)
          /\ Pass(n, took, F!To({inFace}, [type |-> "ack", request |-> k]))
          /\ UNCHANGED asking
     ELSE /\ asking' = [asking EXCEPT ![n] = @ \cup {[request |-> k, face |-> inFace]}]
          /\ Pass(n, took, F!To({Up[n]}, [type |-> "request", request |-> k]))
          /\ UNCHANGED announced
  /\ UNCHANGED <<associations, requests, acked, traces, pulls>>

\* Faces of the application are not traced.
Remote(faces) == faces \ {App}

\* onIncomingKiteAck and what follows it in onIncomingData.
IncomingKiteAck(n, took, inFace, k) ==
  LET records == {r \in asking[n] : r.request = k}
      faces == {r.face : r \in records}
  IN  /\ announced' = Announce(n, inFace, Remote(faces), k)
      /\ asking' = [asking EXCEPT ![n] = @ \ records]
      /\ acked' = IF n = Producer THEN k ELSE acked
      /\ Pass(n, took, F!To(faces, [type |-> "ack", request |-> k]))
      /\ UNCHANGED <<associations, requests, traces, pulls>>

(***************************************************************************)
(* The RIB adds the route; afterKiteUpdate.                                *)
(***************************************************************************)
Traced(n, trace) ==
  /\ traces' = [traces EXCEPT ![n] = trace]
  /\ hops' = [hops EXCEPT ![n] = Fib(n, trace)]
  /\ UNCHANGED <<strategy, pit, cs, deadNonceList, air, moved, appVars,
                 answered, asked, interests, datas, associations, requests, acked, asking, pulls>>

\* Announcements of one node are taken in turn.
First(a) ==
  \A b \in announced : a.node = b.node => a.request <= b.request

SlAnnounce ==
  \E a \in announced :
    /\ a.stage = "rib" /\ First(a)
    /\ announced' = (announced \ {a}) \cup {[a EXCEPT !.stage = "done"]}
    /\ Traced(a.node, [f \in DOMAIN traces[a.node] \cup {a.face} |->
                         IF f = a.face THEN a.request ELSE traces[a.node][f]])

\* An entry is pulled towards a face it has no record of.
Unsent(n, f) == pit[n] # None /\ DOMAIN pit[n].in # {} /\ DOMAIN pit[n].out = {}
Pullable(n, f) ==
  /\ pit[n] # None /\ DOMAIN pit[n].in # {}
  /\ f \notin DOMAIN pit[n].in \cup DOMAIN pit[n].out

AfterKiteUpdate ==
  \E a \in announced :
    /\ a.stage = "done"
    /\ announced' = announced \ {a}
    /\ pulls' = IF Pullable(a.node, a.face)
                THEN pulls \cup {[node |-> a.node, face |-> a.face, nonce |-> pit[a.node].nonce]}
                ELSE pulls
    /\ UNCHANGED <<forwardVars, associations, requests, acked, asking, traces>>

\* 1 ms later the Interest is sent, straight to the face: there is no
\* out-record of it.
Pull ==
  /\ F!Idle
  /\ \E p \in pulls :
       /\ pulls' = pulls \ {p}
       /\ Pass(p.node, None, F!To({p.face}, [type |-> "interest", nonce |-> p.nonce, hint |-> FALSE]))
  /\ UNCHANGED <<associations, requests, acked, asking, traces, announced>>

\* A trace that later requests have not renewed expires.
Lasts(n, f) == FALSE
Ends(n, f) == f \in DOMAIN traces[n] /\ traces[n][f] <= requests
Expires(n, f) == f \in DOMAIN traces[n] /\ traces[n][f] < requests
TraceExpires(n, f) ==
  /\ Expires(n, f)
  /\ Traced(n, Restrict(traces[n], DOMAIN traces[n] \ {f}))
  /\ UNCHANGED announced

(***************************************************************************)
(* Packets of the name.                                                    *)
(***************************************************************************)
\* The RIB takes no time, so only what arrives at the same moment, over another
\* link, may come before its update; what the node sends arrives later.
After(s) == \A a \in announced : s.link # <<a.from, a.node>> /\ s.link[1] # a.node

Receive ==
  /\ F!Idle /\ air # <<>>
  /\ \E s \in {q \in Head(air) : After(q)} :
       CASE s.packet.type = "request" -> IncomingRequest(s.link[2], s, s.link[1], s.packet.request)
         [] s.packet.type = "ack"     -> IncomingKiteAck(s.link[2], s, s.link[1], s.packet.request)
         [] OTHER -> F!Incoming(s) /\ UNCHANGED <<appVars, kiteVars>>

Quiet == F!Quiet /\ announced = {} /\ pulls = {}

\* The requests have done their work, and the traces of earlier ones are gone.
Settled ==
  /\ moved /\ associations = 0 /\ acked = requests
  /\ \A n \in Node : \A f \in DOMAIN traces[n] : ~Expires(n, f)

Express ==
  /\ expressed > 0 => Quiet
  /\ nextNonce < MaxNonce - 1 \/ Settled
  /\ F!Express
  /\ UNCHANGED kiteVars

Produce == F!Produce /\ UNCHANGED kiteVars
FinalizeNow(n) == F!FinalizeNow(n) /\ UNCHANGED kiteVars

\* An entry lives longer than that of the node from which its Interest came.
EntryExpires(n) ==
  /\ Quiet
  /\ pit[n] # None => \A f \in DOMAIN pit[n].in \ {App} : pit[f] = None
  /\ F!EntryExpires(n)
  /\ UNCHANGED kiteVars

Next ==
  \/ OnAssociation \/ Predict \/ Move
  \/ SlAnnounce \/ AfterKiteUpdate \/ Pull
  \/ Express \/ Receive \/ Produce
  \/ \E n \in Node : FinalizeNow(n) \/ EntryExpires(n) \/ \E f \in Node : TraceExpires(n, f)

Spec == Init /\ [][Next]_vars

\* Events happen, packets arrive, the producer moves, old traces expire, and the
\* consumer sends again what was not answered.
FairSpec ==
  /\ Spec
  /\ WF_vars(OnAssociation) /\ WF_vars(Predict) /\ WF_vars(Move)
  /\ WF_vars(SlAnnounce) /\ WF_vars(AfterKiteUpdate) /\ WF_vars(Pull)
  /\ WF_vars(Express) /\ WF_vars(Receive) /\ WF_vars(Produce)
  /\ \A n \in Node : WF_vars(FinalizeNow(n)) /\ \A f \in Node : WF_vars(TraceExpires(n, f))

----------------------------------------------------------------------------
(* Properties.                                                             *)

TypeOK ==
  /\ DOMAIN pit = Node /\ \A n \in Node : pit[n] = None \/ F!IsEntry(pit[n])
  /\ hops \in [Node -> SUBSET (Node \cup {App})]
  /\ associations \in 0..MaxRequest /\ requests \in 0..MaxRequest /\ acked \in 0..requests
  /\ asking \in [Node -> SUBSET InRecord]
  /\ \A n \in Node : DOMAIN traces[n] \subseteq Node /\ \A f \in DOMAIN traces[n] : traces[n][f] \in Request
  /\ announced \subseteq Announcement /\ pulls \subseteq Pulled

\* The nodes from n up to the RV: those in every set that has n and, with each
\* node, the next one.
Ancestors(n) ==
  {m \in Inner : \A S \in SUBSET Inner : n \in S /\ (\A x \in S \ {Rv} : Up[x] \in S) => m \in S}
Path == Ancestors(Access)
Down(n) == IF n = Access THEN Producer ELSE CHOOSE m \in Path : m # Rv /\ Up[m] = n

\* The producer has the Ack of its last request, from where it is now.
Reached == associations = 0 /\ requests > 0 /\ acked = requests

\* Once the producer has the Ack of its last request, there is a trace at every
\* node from the RV down to it, or will be when the RIB has taken it: whatever
\* was lost with the link before, and whichever older traces expire.
HasTrace(n, f, k) ==
  \/ f \in DOMAIN traces[n] /\ traces[n][f] = k
  \/ \E a \in announced : a.node = n /\ a.face = f /\ a.request = k /\ a.stage = "rib"
TracedUp(n, k) == \A m \in Ancestors(n) \ {Rv} : HasTrace(Up[m], m, k)

PathTraced == Reached => HasTrace(Access, Producer, acked) /\ TracedUp(Access, acked)

\* An Interest that crosses the making of a trace is not missed: where the RIB
\* has called back, every pending Interest has gone out over the trace, because
\* it came when the FIB had the route, or because it was pulled.
NoneMissed ==
  \A n \in Node : \A f \in DOMAIN traces[n] :
    \/ \E a \in announced : a.node = n /\ a.face = f
    \/ \E p \in pulls : p.node = n /\ p.face = f
    \/ pit[n] = None \/ F!Gone(<<n, f>>)
    \/ DOMAIN pit[n].in \subseteq {f} \/ f \in DOMAIN pit[n].in
    \/ f \in DOMAIN pit[n].out
    \/ \E i \in DOMAIN interests[<<n, f>>] : interests[<<n, f>>][i] = pit[n].nonce

\* Pulling is enough on the way from the RV to the producer: when the Ack has
\* reached it and nothing is under way, no Interest is left pending there,
\* whether it waited at the RV or had been sent after the producer's old link.
NoneStranded ==
  Reached /\ Quiet =>
    \A n \in Path : pit[n] # None => DOMAIN pit[n].in \subseteq {Down(n)}

\* Wherever the producer moves, the consumer gets the Data in the end.
ConsumerServed == expressed > 0 ~> answered > 0
=============================================================================
