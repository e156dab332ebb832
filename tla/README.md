# TLA+ models of leo-demo

leo-demo studies named data networking (NDN) over a low-earth-orbit satellite
constellation. `Leo.py` computes, minute by minute, which satellite serves each
ground station and which satellite path joins a consumer and a producer; a C++
scenario on ns-3/ndnSIM (`sim/scenario/scenarios/sat-p2p.cpp` with
`sim/scenario/extensions/sat`) replays these files and moves stations from
satellite to satellite while applications exchange Interests and Data. The core
logic of the repository is therefore: what happens to packets, routes and
tables when a station changes its access satellite. These models are about
that, and about the parts of NFD it rests on: the RIB, which changes routes while
traffic goes on, and the reliability of links. All paths below are relative to
`src/`.

## 1. The system

### Components

| Component | State | Operations | Talks to |
|---|---|---|---|
| Access strategies, `Leo.py` class Attachment | access satellite of the epoch before | `closestActive`, `closestLazy`, `orbitClosestLazy`, per station and epoch | writes the attachment and route files |
| Update, user links, `extensions/sat/common.cpp` 100-307, 401-474 | per station `curAttachmentIdx`, `lastAttachmentIdx`, handover flag; one `p2pDevice` per station and satellite; prefix routes; `m_lastSatPrefix` | once every `updateInterval` minutes: detach, connect, attach prefix, request tunnel, predict the next step | FIB, UserLinkTransport, HandoverManager, consumer (`ResumeAround`), KITE producer (`OnAssociation`), hint strategy |
| Update, routes, `common.cpp` 309-400, 476-556 | what is left of each pair's schedule; FIB entries on satellites | search, erase, remove old path, add new path | FIB |
| HandoverManager (DRLS shim), `handover-manager.cpp` | `m_idList`, `m_faceIdTable`, `m_prt`, `m_tib`, `m_dt`, `m_hopLimit` | `AddUserLink`, `BroadcastReq`, `TunnelPacket`, `ProcessPacket` (request, ack, payload) | peers over point-to-point devices; UserLinkTransport both ways |
| UserLinkTransport, `user-link-transport.cpp` | `m_isGone` of each face | `doSend`, `emit`, `receiveFromNetDevice` | NFD above, device below, HandoverManager beside |
| NFD pipelines, `ndnSIM/NFD/daemon/fw/forwarder.cpp` | PIT, Content Store, Dead Nonce List, expiry timers | incoming/outgoing Interest, Data and Nack, loop, finalize, new next hop | faces, strategies |
| Strategies: multicast (upstream), retx, hint (`extensions/sat`) | suppression intervals; records of the PIT entry | `afterReceiveInterest`, `afterReceiveNack`, `afterNewNextHop` | pipelines |
| Applications: `ndn-consumer-cbr`, `ndn-producer` | sequence numbers, timeouts, retransmission queue | send, retransmit, answer | the application face |
| RIB and FibUpdater, `ndnSIM/NFD/rib` | routes and inherited routes per name, the update queue, what an update waits for, expiration events | register, unregister, expire, face destroyed; answers of the FIB | FIB manager over the internal face, face monitor, KITE |
| KITE: `ndn-tools/tools/kite` producer and RV, `forwarder.cpp` 406-490 | pending requests per node, traces, scheduled pulls | request, Ack, announcement, route added, pull, trace expires | `Update` (`OnAssociation`), RIB, pipelines |
| LpReliability and GenericLinkService, `ndnSIM/NFD/daemon/face` | per end: fragments kept until acknowledged, the window of TxSequence numbers, Ack queue, timers, partial packets | send, receive, RTO, idle Ack timer, reassembly timeout, option change | transport below, NFD above |
| `sat::Consumer`, Dead Nonce capacity, other tables | | | not modelled, section 6 |

A second view of the same list, with sources and status, is in `PROJECT.json`.

How they interact. One event (`Update`) walks over all stations, then over all
pairs, then predicts; in the middle of it a tunnel request may be put on
devices and pending Interests may be sent again. Everything else is packets:
each takes 10 ms (`sat-p2p.cpp` 36-38) and is one event at its receiver. There
are no threads; what interleaves is packets of different links, NDN's sending,
and Updates.

### What is hard

* *Order of messages.* Copies of one tunnel request reach relays and the target
  by several paths; acks, flushed payload and fresh payload run behind each
  other, and correctness rests on the FIFO order of devices.
* *Traffic at a handover.* The consumer is awake for a period before and after it
  (`common.cpp` 451-454), so packets are on the link that is left, behind them
  packets that wait, and then packets that take the tunnel.
* *Stale tables.* TIB, PRT, FIB and PIT entries outlive the link they name.
* *Index arithmetic.* Two schedules, walked with hand-written searches that must
  agree with each other about gaps, equality and the end of the vector.
* *Prediction.* Consumer wake-up and forwarding hints are set one interval
  before the handover they are for.
* *Retransmission.* A pending Interest is sent again over the new link while its
  first copy, its Data or its Nack is under way; a Nack for the one can kill the
  other.
* *Partial failure.* A target out of reach of the request never answers; Data
  towards a link that is gone is discarded; the FIB refuses some commands of a
  batch and takes others.
* *Asynchronous updates.* The RIB changes only after the FIB has answered; faces
  go, routes are renewed and expire in between, and Interests cross the route
  that is to lead them.
* *Lost packets.* Fragments, Acks and retransmissions are lost in any
  combination while sequence numbers come round.

The full list, each at its line and with the properties that cover it, is
`hazards` in `PROJECT.json`.

### What makes each component correct

* Access strategies: a visible satellite is used whenever there is one; the
  nearest, or the one in use as long as it is in sight, according to the strategy.
* Update: after each event, links, faces, devices, prefix routes and satellite
  routes are those of this very minute, and stale ones are still known to
  whoever has to remove them; predictions come true.
* Shim layer: a request within reach is answered, and its tunnel joins the two
  ends; a packet in a tunnel always finds a device to go on by, or the face at its
  end; packets arrive at most once, in order, at the other end only, whether sent
  on the link or through its tunnel, and are not lost once they need not wait;
  nothing stays in a satellite's buffer behind a tunnel.
* Forwarding: no Interest twice on a link, no more Data than Interests, and the
  consumer gets its Data in spite of the handover.
* RIB: the FIB is what the routes and their flags call for between updates; a
  refused route stays out; the routes of a dead face go, as far as its names are
  apart from others (`Apart`; else they may not, which `rib_outlived` shows); routes
  that expire keep their event; one batch is under way at a time.
* KITE: while the newest traces last they form a path to the producer, no Interest falls
  between the route and the pull, none is left behind, the consumer is served.
* LpReliability: the window starts at the oldest fragment; a packet ends once, in
  one way, and counts as acknowledged only if all of it has arrived; it is not
  handed up more often than it was sent; no assertion fails.

## 2. Modules

### HandoverManager (with HandoverManagerProperties, MCHandoverManager; proofs in HandoverManager_proofs, HandoverTunnel_proofs, HandoverService_proofs, HandoverEnds_proofs)

The shim layer of all nodes, the links between them, and the attaching and
detaching of stations that drives it; `m_doShim` is on.

| Model | Code |
|---|---|
| `userLink`: the user links in order of creation | the `"<mac>-<mac>"` ids; a link's number stands for its id |
| `p2pDevice` | `station::p2pDevice`, `satellite::p2pDevice` |
| `todo` | the stations the loop in `Update` has still to visit |
| `isGone[n]` | `UserLinkTransport::m_isGone` of n's faces |
| `idList`, `faceIdTable`, `prt`, `tib`, `dt` | the five tables of `HandoverManager`; a device is named by its link, `Null` is nullptr, `Absent` no entry |
| `chan[n][l]` | queue of n's device on link l, and the wire |
| `sent`, `handed`, `buffered`, `lost` | history of what NDN sent, got, and what waited or was discarded |
| `UpdateStart`, `Stay`, `Leave`, `Enter`, `Move` | the first loop of `Update` for one station: unchanged, to "-", from "-", and from satellite to satellite (with `AddUserLink` at both ends, `RequestTunnel`/`BroadcastReq` for a consumer or mobile producer) |
| `SendDirect`, `SendTunnelled`, `SendBuffered` | the three ways through `doSend` and `TunnelPacket` |
| `ReceiveNdn`, `ReqAtTarget`, `ReqLoop`, `ReqRelay`, `ProcessAck` (`AckUnsolicited` or `AckTaken`, as `m_prt` has it), `PayloadDiscarded`, `PayloadHandedUp`, `PayloadRelayed` | the ways through `receiveFromNetDevice` and `ProcessPacket` |

A node has one action per way through each handler, with everything that handler
does. A single Update is one event in the code; it is several steps here, but
no other action is enabled while `todo` is not empty. When a station moves is
open (any Update may move any station anywhere): the schedules are the subject
of the next modules.

Abstractions: NDN packets carry only their face and number; packet encoding,
trace callbacks and counters are left out. An emission on the constant `Null`, a
missing device, is a no-op in the model and a null pointer in the code;
`PayloadHasDevice` says that packets never come to it. A satellite serves one
station at a time, as the unasserted TODO at `common.cpp` 245-250 says.

### UserLinkService (proof in HandoverService_proofs)

The abstract specification of what NDN may expect of user links, whatever
handovers happen: what a face hands up was sent on the other end of the same
link, is handed up at most once, and in order; loss is allowed.
`HandoverManagerProperties!ServiceSpec` is the refinement: `userLink`, `sent`
and `handed` map to themselves, all tables and channels are hidden.

### Attachment, RouteUpdate, SatUpdate (with MC modules; proofs in SatUpdate_proofs)

`Attachment` is the part of `Update` about stations: `Attach` is one turn of the
first loop (`Detach` = `DetachPrefix` and reset of both device slots, `Connect` =
new devices, faces, `AttachPrefix` and tunnel request), folded over the stations
in the order of the `std::map`; `Prediction` is the search of the last loop. It
has the whole event as a single action. `RouteUpdate` is the part about pairs:
`Search`, `Latest`, `Erase`, `Cleared` follow the loop of lines 325-362 and the
actions `FirstTime`, `Renew`, `Exhausted`, `SameRoute` are its outcomes.
`SatUpdate` composes both by conjunction of their actions, with schedules drawn
from the same access satellites as `Leo.py` does. Creation of ns-3 devices is a
number; whatever reading `attachments[size]` or `routes[size]` yields was found
to have no effect, and the models do not read it.

### AccessStrategy (proofs in AccessStrategy_proofs)

Three strategies of `Leo.py` over the same distances, any distances in any epoch.
`Nearest` with the order of the search stands for the loops; `OrderedSatNums`
keeps the three `range` expressions of `getOrbitClosest` as they are.

### Forwarding (with MCForwarding; proofs in Forwarding_proofs)

The NFD pipelines of all nodes for one name while the consumer moves from
`OldSat` to `NewSat`, shim off, under each of the three strategies.

| Model | Code |
|---|---|
| `pit[n]`: in, out, satisfied, timer | `pit::Entry`, in- and out-records, `isSatisfied`, expiry timer ("now" is `setExpiryTimer(entry, 0)`) |
| `cs`, `deadNonceList` | Content Store and Dead Nonce List for the name |
| `air` | packets on all links; equal delays make it one queue of sets |
| `IncomingInterest` (loop, hit, miss), `IncomingData`, `IncomingNack`, `FinalizeNow`, `EntryExpires` | the pipelines with the strategy callbacks they make |
| `Move` | `Update`: routes exchanged, `afterNewNextHop` of retx and hint on the station |
| `Express`, `Produce` | consumer and producer applications |

The suppression interval (10-250 ms) is a choice of which of the upstreams
tried in the same exchange are suppressed. Lifetimes (2 s) and retransmission
timeouts (RTO at least 200 ms, checked every 50 ms) exceed an exchange over a few
10 ms links; this is why an entry expires and the consumer retransmits only when
nothing is under way. A fully untimed model would let an old nonce be forwarded
again after its entries ended, which the time scales rule out.

`Hosts` and `Mobile` are the stations and the one that moves, so that `Kite` can
use the module with a mobile producer.

### FibUpdater, Rib (with MCRib)

`FibUpdater` has no variables: entries of the RIB with the operations of
`rib-entry.cpp`, the tree by the names themselves, and each `createFibUpdatesFor...`
as an operator that yields a plan, for every name and face the command recorded
last (`addFibUpdate` drops the one before) and the change of the record of
inherited routes. `Rib` is the asynchronous part.

| Model | Code |
|---|---|
| `rib`, `queue`, `inProgress`, `registered` | `m_rib`, `m_updateBatches`, `m_isUpdateInProgress`, `m_registeredFaces` |
| `updater` | `FibUpdater::m_batchFaceId`, the two lists of updates, `m_inheritedRoutes` |
| `commands`, `inbox` | the internal face in both directions: commands with the batch their callbacks hold; answers, face notifications, datasets |
| `destroyed`, `timers` | scheduled `onFaceDestroyedEvent` and expiration events |
| `fib`, `up` | next hops in the FIB, faces that exist |
| `BeginAddRoute`, `BeginRemoveRoute`, `OnRouteExpiration`, `OnFaceDestroyedEvent` | what queues updates and starts them (`SendBatchFromQueue`) |
| `OnUpdateSuccess`, `OnUpdateError`, `OnNotification`, `RemoveInvalidFaces` | what the RIB receives |
| `AddNextHop`, `RemoveNextHop`, `FaceDestroyed`, `FetchActiveFaces` | the forwarder's side |

A step changes several variables in turn, as the handler does: `Now` is a record
of them, each operator returns the next one, `Become` makes it the new state. An
update that needs no command succeeds in the same step and the next one starts.
Left out: timeouts of commands (the two ends are in one process) and batches of
several updates (`rib.cpp` 349-386 makes one of each update).

### Kite (with MCKite; proofs in Kite_proofs)

The producer's requests, the Acks and what they set off at each node, composed
with `Forwarding` under the multicast strategy (`F == INSTANCE Forwarding WITH
...`): a node's next hops for the prefix are its traces, or else the route
towards the RV (`Fib`), so that forwarding follows the traces as they change.

| Model | Code |
|---|---|
| `associations`, `requests`, `acked` | calls of `OnAssociation` to come, what `Producer::updateAll` has sent, Acks the producer has |
| `asking` | in-records of the PIT entries of the requests |
| `announced` (stages rib, done), `traces` | `RibManager::slAnnounce` up to its callback; the routes it makes |
| `pulls` | `sendInterest` scheduled by `doPull` after 1 ms |
| `Predict`, `OnAssociation`, `IncomingRequest`, `IncomingKiteAck`, `SlAnnounce`, `AfterKiteUpdate`, `Pull`, `TraceExpires` | the handlers |

The repository has the tools and the pipelines but no scenario with a KITE
producer, so the instance is assumed: multicast at "/" as in `sat-p2p.cpp` 159, the
attribute DoPull (`ndn-l3-protocol.cpp` 113, off by default) on. The RV answers at
once. The producer moves only when what the Update before set off has ended, since
Updates are a minute apart.

Traces of older requests expire at any time; that of the newest does not, so the
model is about the time around a move that is within the attribute `Lifetime`. That
is 1 s unless it is set (`extensions/kite/apps/producer/producer-app.hpp` 53): many
exchanges over 10 ms links, but much less than the minutes between Updates, and an
association sends its request once (`updateAll`). With the default the prefix is
reachable for a second after each association, and `ConsumerServed` says nothing of
the rest of the minute.

### LpReliability (with MCLpReliability)

Two ends with the fragments of their packets, and a FIFO link between them that may
lose any packet. One action per entry into the code (`SendNetPacket`,
`DoReceivePacket`, `Rto`, `IdleAck`, `TimeoutPartialPacket`, `SetOptions`); within
one, operators on the record `lp[e]` follow the calls in their order
(`ProcessIncomingPacket`, `ProcessAck`, `FindLost`, `OnLpPacketLost`,
`DeleteUnackedFrag`, `SendLpPacket`). Numbers are taken modulo `SeqRange`, the map is
in numeric order as `std::map` is, and runs start right before the end of the
range. The RTO timer of any fragment that is kept may fire at any time, in any order:
the RTO is 1 s before the first measurement and a small multiple of the round trip
afterwards (`rtt-estimator.cpp`), so later fragments often time out first. An
incomplete packet times out only when nothing more of it is on the link. Packets sent
while reliability is off are left out.

### Alternative definitions

A definition such as `AnswerWithoutAck` beside `Answer`, or `EraseNone` beside
`Erase`, is a slip the code could have made. Nothing uses it;
`mutants` in `PROJECT.json` names, for each property of each run, a slip
that the property excludes.

## 3. Runs

| Run | Instance | Shows |
|---|---|---|
| `handover_ring` | ring of 4 satellites and a fifth behind one of them, hop limit 3, one move, 1 packet per face, mirror images counted once; 82 597 states | types; requests answered exactly within reach; tunnels join their ends and are never rerouted; payload finds its device or face; only packets that waited can be discarded |
| `handover_order` | 2 satellites, hop limit 2, 2 packets per face, fair; 248 154 states | refinement of `UserLinkService`, with packets on the link when it is left; what did not have to wait arrives; no packet left in a satellite's buffer behind a tunnel |
| `handover_buffered` | 2 satellites | violation: packets flushed before the ack are discarded |
| `routes_last` | 7 paths, an entry for every epoch | violation: the last path is not cleared when a new one is installed |
| `sat_update` | ring of 4, consumer over a or b, mobile producer over c or d, or out of range; every schedule of 4 minutes, routes with any entries that have the changes; 47 916 states | links, prefix routes, requests and wake-ups follow the schedules; an Interest finds its way after every update; no stale next hop is forgotten |
| `access` | 2 orbits of 3 satellites, 3 distances; 2 917 states | no visible satellite is missed; the lazy strategy keeps what it should |
| `forward` | 4 satellites, 2 stations, 3 strategies, 2 route outcomes, 4 nonces, fair; 1 642 states | no duplicate Interest, flow balance, resent Interests suffice while the old path stays, the consumer is served |
| `rib` | 4 names in two trees, 3 faces, one of which may go, 6 kinds of route, fair; 504 304 states | the FIB follows the RIB; where the face that goes has names apart from the others (`Apart`) its routes go with it and refused ones stay out, in every order; routes that expire keep their event; no assertion fails |
| `rib_refused` | the face that goes uses a name above another one | violation: a refused route enters the RIB |
| `rib_outlived` | the same | violation: a route outlives its face for ever |
| `kite` | consumer, producer, 2 satellites, 1 node between them and the RV; 3 requests, 4 nonces, fair; 102 049 states | traces form a path, no Interest is missed or stranded, the consumer is served |
| `lp_reliability` | 2 ends, 2 packets of up to 2 fragments, or 1 each way; 1 retransmission, loss threshold 1, up to 2 option changes, fair; 223 685 states | the window, the counters, what acknowledged means, how often a packet is handed up; every packet ends |

### Bounds, and why they are enough

* *Four satellites in a ring* are the smallest cycle of the +grid constellation,
  so copies of a request by two paths meet, at the target and at a relay. A request
  travels `HopLimit` hops, the first over the user link. With hop limit 3, the largest
  `run.py` 125 uses, the whole ring is within reach of each of its satellites; the
  fifth, behind one of them, is out of reach of the opposite one. With hop limit 2, the
  default, a request only reaches the neighbours, and there are no two paths.
  The instance is its own mirror image (`Reflections`), so states are counted up to
  exchanging the two sides of the ring.
* *Two user links* are one handover, of any satellite of the instance to any other.
  A third does not fit with the ring and traffic into a run; what the safety
  properties of the shim say is proved for any number of links and packets (section 4).
* *One packet per face* in `handover_ring`: its properties are about where packets go.
  *Two* in `handover_order` are the least for order and duplication: one on the
  link when it is left and one that follows by the tunnel.
* *Four minutes* hold a stay, a change, a gap and a change back, and the end of
  the data. Updates come each minute, the default.
* *Four nonces* are a first Interest, its resent copy, and retransmissions before
  and after the move; two are kept for after the move.
* *Four names* of the RIB are a name with two below it, one of which captures,
  and one beside them; *two faces* at one name let it have own and inherited next
  hops at once, the third may be destroyed. In `rib` that one uses a name that is
  neither above nor below another (`Apart`); `rib_refused` and `rib_outlived` show what
  happens where it is not. One update waits while one is in
  progress (`MaxQueue`), and one expiration event exists at a time (`Event`). As
  with the registrants of the simulator a face has one origin and a name's
  routes have the same flags. Other usages do break `FibFollowsRib` (section 5).
* *Three requests* of KITE are one from the first attachment, one from the
  prediction before the move, one after it; the node above both satellites is
  where the old trace and the new one meet.
* *One retransmission and a loss threshold of one* instead of three make every
  branch of the loss detection occur with three fragments: lost by Acks, by
  the timer of any of them, given up. A fragment has room for one Ack (`AckRoom`), so that Acks wait
  and the idle timer is needed. Twelve numbers (`SeqRange`) are more than are used.
* *MaxSend, MaxLink, MaxNonce, MaxQueue, MaxRequest, MaxPacket, MaxSwitch, StopTime,
  EndTime* only stop growth; they bound histories, not tables. `MaxSwitch`, the
  changes of the options, is a function of the traffic: none with the longest one.

`routes_last` and `sat_update` end with their data, `forward` and `kite` when the
consumer is served, `lp_reliability` when all packets have ended, and in `rib`
the program stops where an assertion would fail (which does not happen there):
these set `CHECK_DEADLOCK FALSE`. The others check deadlock: an Update is always
possible once the network is settled.

### Fairness

* `HandoverManager!FairSpec`: strong fairness of the receives taken together, and weak
  fairness of each station's turn in `Update`. ns-3 delivers every packet that is on a
  point-to-point link (no error model is installed; queues of 10000 packets are not
  filled) and an event runs to its end. Receives are strongly fair as an Update, which
  disables them for its one event, can only delay them. Sending and the start of an
  Update are not assumed fair.
* `UpdateStart` requires `Settled`: what the Update before has set off, requests, acks
  and the payload in its tunnels, has arrived, and so has what was on the links it
  left. Updates are a minute apart, and these packets last tens of milliseconds. Packets
  of the applications may be on any present link, which is then left with them on it.
* `PayloadArrives` lets payload of a tunnel arrive only after the packets that were on
  the link itself. Those arrive within one delay of the handover; there is no tunnel
  before a request has crossed a link, so its payload arrives after two at least, and
  all links have the same delay (`sat-p2p.cpp` 36-38). Without it an unlucky packet on
  the link could be overtaken: order rests on these time scales, the code has no
  sequence numbers.
* `Forwarding!FairSpec`: receiving, the producer's answer, zero timers and the
  one `Move` happen; the consumer's retransmission check runs while it is awake,
  which is 1000 ms before and after a handover and hence several timeouts.
  Expiry of entries is not assumed.
* `Rib!FairSpec`: both event loops take what waits for them, a scheduled
  `onFaceDestroyedEvent` happens, and the faces are fetched again and again (every
  5 minutes, `rib-manager.cpp` 45). Nothing is assumed of registrants or expirations.
* `Kite!FairSpec`: as in `Forwarding`, and the Updates, pulls and announcements
  that are due happen, and old traces expire.
* `LpReliability!FairSpec`: as long as an end keeps fragments some RTO timer fires, and
  so does the idle Ack timer. Nothing is assumed of
  the link: it may lose everything, and each packet still ends.

## 4. Proofs

Each component's proofs are in a module of their own. They hold for every
constellation, every set of stations, every schedule and all bounds, from the named
assumptions on the constants: `HandoverManager` (stations and satellites are
disjoint, links join two different satellites, markers are not devices),
`AccessStrategy` (`None` is no satellite), `Forwarding` (links and faces join nodes,
markers are not packets), `SatUpdate` (paths are not empty sequences of satellites,
no station is twice in the map, times are numbers). A
theorem with a further hypothesis states it.

### Shim layer, tables

* `HandoverManager_proofs!TypeCorrect`, `Spec => []TypeOK`. The part that is not
  routine is that requests in flight have 1..m_hopLimit hops left
  (`BroadcastType`): 0 on the wire would be taken for "sender" and restart the
  flood.
* `HandoverManager_proofs!SatelliteBuffersFlushed`, `Spec => []SatelliteBufferFlushed`.
  Only the branch for requests flushes `m_dt`, and the branch for acks sets TIB
  entries as well. `BufferInv` says why no ack does so at a satellite that has
  buffered: a satellite is a target (`m_idList`) for its user link until it has a
  TIB entry (`TargetOrTunnel`), a target never relays and so has no PRT entry
  (`TargetNotRelay`), it buffers only while it has no TIB entry (`BufferWaits`),
  and requests and PRT entries are about links there are (`LinksKnown`), so a new
  link starts without a PRT entry. This holds at any hop limit, also where copies
  run in circles.
* `HandoverTunnel_proofs!TunnelsStay`, `HopLimit <= 3 => (Spec => TunnelNeverRerouted)`.
  `TunnelInv` (`UserLinksJoin` and `LinkPlaced` for every link) says where the
  requests and acks of a link can be. The station's own request is alone, and no
  other node knows of it; requests with one hop less are sent by the new access
  satellite, those with two less by a neighbour of it, and none goes back to the
  station. So as long as the target has not answered, nobody has an entry and
  every node that relayed has a PRT entry that leads to the access satellite and
  the station. The one ack visits nodes that have no entry, and afterwards
  copies of the request find the target unable to answer again.

  The hypothesis is tight. With hop limit 4 the property fails on three
  satellites in a row of which the first two are joined by two links: a copy
  returns to the access satellite after the ack has removed its PRT entry. Hop
  limits in use are 2, the default, and 3 (`run.py` 125).
* `HandoverTunnel_proofs!AcksSolicited`, `HopLimit <= 3 => (Spec => []AckSolicited)`, from
  the same invariant: the part of `LinkPlaced` about acks (`AckFindsWay`) names the PRT
  entry that waits for it. The branch of `ProcessPacket` for an "unsolicited or redundant
  Ack" (187-190) is in the model, and by this theorem it is never taken with the hop
  limits in use, so no run reaches it. On a ring of four with hop limit 6 it is: a copy
  of the request goes all the way round, the station answers it itself, and its ack
  meets nodes that have had theirs.

* `HandoverEnds_proofs!TunnelsJoinEnds`, `HopLimit <= 3 => (Spec => []TunnelJoinsEnds)`.
  `ServiceInv` below makes the TIB entries of a link a chain, whose nodes have
  numbers. That the walk along it ends in time needs a bound on its length, which
  nothing in a TIB says: requests are gone when it is complete. `ShortWay` keeps
  it: the devices to the owner in the TIB, or in the PRT where there is no TIB
  entry yet (`Via`), lead from the answering satellite to the station in at most
  three steps. It holds when the target answers, by the place the request is at
  (`AnswerHasWay`), and stays true since an entry made by the ack keeps the PRT's
  device and no PRT or TIB entry is changed otherwise while the tunnel is under way
  (`PointsStay`). The chain is then walked hop by hop in either direction
  (`HopsOn`, `HopsEnd`); `WalkDef` shows that the recursive function in `Walk`
  exists by exhibiting it.

* `HandoverEnds_proofs!RequestsAnswered`, `NoDetour => (Spec => []RequestAnswered)`, where
  `NoDetour` is `HopLimit <= 2`, or `HopLimit = 3` and no three satellites that are each
  linked to the others: the tunnel is there if and only if the satellite that was left
  is within reach of the next one. `AnswerInv` says of each link that has been asked about that its
  station's next link (`IsNext`) leads to such a satellite, once the target has
  answered (`AnsweredInReach`); and that, as long as the station waits and the target
  is in reach, a packet is in flight that brings the answer (`RequestAlive`): the
  request of the station, one on a device to the target, one from the access
  satellite to a satellite between the two that has seen none yet, or the ack
  (`BringsAnswer`). A step takes such a packet only to emit the next one
  (`AnswerGoesOn`), so none is missing when the network is quiet. The satellite in
  between could get its first copy by a detour, with no hop left; it came from another
  neighbour of the access satellite then, and the three are linked (`CopyGoesOn`).
  `WithinReach` turns the recursive function of `Within` into at most two links.

  Scenario runs use hop limits 2 and 3, and a +grid with more than three orbits, and
  more than three satellites on each, has no three such satellites: there a satellite
  is linked to its two neighbours on the orbit and one on each orbit beside it. The
  hypothesis is tight: on three satellites each linked to the others TLC finds the
  property violated with hop limit 3. A neighbour of the new access satellite first
  gets the copy by way of the other one, with a hop less, and `isLoop` drops the
  direct one, so satellites beyond it are not reached.

### Shim layer, payload

* `HandoverManager_proofs!UnbufferedNeverLost`, `Spec => []OnlyBufferedLost`, at any hop
  limit. A relay knows its own entries only, so `LossInv` relates neighbours: a
  device in a TIB entry leads to a node that has an entry too, or there is an ack
  on that device that comes first (`LeadsOn`); a payload in flight that did not
  wait has an entry, or the ack, ahead of it (`FindsEntry`); an ack goes to a node
  that has relayed the request or has an entry (`Informed`), and so has the node a
  PRT entry names (`PrtFits`). Every step is one that only adds to the end of
  channels, takes from the front, or both (`Rest`, `Extends`, `Added`), and `LossKept`
  does the common part of all of them.
* `HandoverService_proofs!ServiceImplemented`, `HopLimit <= 3 => (Spec => ServiceSpec)`:
  the refinement of `UserLinkService`. `Init` maps to its `Init`; `Enter` and `Move` to
  `NewLink`, the three ways of sending to `Send`, `ReceiveNdn` and `PayloadHandedUp` to
  `HandUp`, all others to stutters (`StepRefines`). `HandUp` demands that the packet
  was sent at the other end and is later than the last one handed up there.
  That takes the invariant `ServiceInv`, inductive on top of all invariants above:
  - the TIB entries of a link form a chain from the satellite that was left
    towards the station (`Chain`, with a number for every node on it): each entry
    names the device to the one before and to the next, and an ack runs at the
    end of it (`AckOnChain`). This is the consistency of the TIBs of all nodes;
  - payload is on the chain, on the device that leads away from its sender
    (`PayloadOnChain`), and what is further on has smaller numbers (`InOrder`), on
    the same device or on a later one;
  - packets in flight or in a satellite's `m_dt` are later than all that have been
    handed up at the other end (`Unread`), and in order (`BufferServed`,
    `DirectServed`);
  - what was sent on the link before it was left comes first: no packet in a
    tunnel, or waiting for one, is from before one that is on the link itself
    (`DirectFirst`). A face that is not gone has no packets on a detour (`Detoured`), so a
    packet sent directly is never late, and one that is sent on a detour has the
    largest number so far. When payload is handed up none is on the link any more
    (`PayloadArrives`, section 3, Fairness), and what waits or follows is later.
* `HandoverService_proofs!PayloadsHaveDevices`, `HopLimit <= 3 => (Spec => []PayloadHasDevice)`.
  Null is what ends a tunnel in `handover-manager.cpp` 116-118, and 129-133 use whatever
  device the entry has on its other side. A payload that came by neither device of an
  entry would be sent on a null pointer, so the property is about where payload and
  entries meet. `PayloadOnChain` says on which device payload leaves a node, and `Chain` that the
  next one names this device on the side payload comes from (`NextOnChain`): then the
  other side is the device it goes on by, or null, at the end. There
  `FaceRecorded` gives the face: an ack creates an entry with a null device from a PRT
  entry with one, a request creates one from `m_idList`, and a handover puts a link into
  the PRT because it is the station's present device; each of these is about a link
  the node has a face for. A gone face with an entry has a device since the first node
  of the chain has one onward and every other has one back (`GoneFaceLeadsOn`).

### Update

* `SatUpdate_proofs!NoneForgotten`, `Interval = 1 => (Spec => []StaleRemembered)`, and
  `PathIsInstalled`, `Interval = 1 => (Spec => []PathInstalled)`, the part of
  `PathJoinsStations` about the satellites, for any number of epochs and any
  schedule with the changes in it. `RoutesInv` says where the installed path is in
  what is left of the schedule: in front, while no other entry has come due
  (`InFront`), or second, behind the one installed before it (`InSecond`), with all
  later entries still to come. It also says that entries are in order, hold the path
  of their epoch, and that each change still to come has one (`ToCome`), so the path
  in force changes only at a hit. With that, search, gap rule and erase have one
  outcome in each case. That the schedule starts in order needs that every rank up
  to the size of a finite set is reached (`RankReached`), which follows from the
  pigeonhole theorem without induction.

  Update at each epoch is the default of the scenario (`sat-p2p.cpp` 58). For
  `NoneForgotten` the hypothesis is needed: with an update every two minutes and an
  entry for every epoch the entry before the hit was never installed, so the one
  that was is not in front, and TLC finds `StaleRemembered` violated.

* `SatUpdate_proofs!AllAttached`, `RoutesFollow`, `WokenForHandovers` and `PairJoined`,
  `Interval = 1 => (Spec /\ Apart => []P)` for the four invariants of the run about
  stations, with any number of stations, epochs and satellites. `StationsInv` says
  that `curAttachmentIdx` is at the last entry due, or behind the end of the vector
  when the data is used up, that the flag is set exactly at a change, and that
  `lastAttachmentIdx` then names the satellite the station still has (`OnSchedule`).
  With an update every minute the search ends right behind the present entry
  (`SearchNext`), which leaves three outcomes of the prediction (`PredictsNext`).

  The first loop of `Update` is a fold. `StationByStation` unfolds it: a function on
  the subsets of `1..N` that takes the last element off exists, by induction along
  `0..N`. The prover cannot instantiate the library's induction theorems, but
  `AlongInterval` states one for a set instead of a predicate, and the pigeonhole
  theorem proves it: a set with 0 and all successors but not t would be mapped into
  itself without 0 by adding one. `InUpdate` holds after each turn: the stations
  treated have the new satellite, the others still the old one, and no link of one is
  touched by another (`DetachTakes`, `ConnectGives`, `OneStation`).

  `Apart` is the hypothesis about `p2pDevice`, a satellite's one slot: no two
  stations have a satellite at the same time, and none gets one that a station behind
  it in the `std::map` leaves in this event. The other order is harmless, and is
  allowed. It is what `OneStation` needs and no more than what is true of stations
  far apart; without it TLC finds `Attached` violated, and with it finds no violation
  when the stations' views overlap. `PairJoined` joins this with `PathIsInstalled`,
  since the path in force starts and ends at the satellites of its epoch (`Joining`).

### Access and forwarding

* `AccessStrategy_proofs!ActiveIsNearest`, `OrbitLazyIsVisible`, `OrbitLazyStays`: the
  invariants `ActiveNearest` and `OrbitLazyVisible` and the action property
  `OrbitLazyKeeps`, for constellations with any number of orbits and satellites and
  any distances. The invariant adds that each strategy's satellite is what its search
  chose from the distances of this epoch (`Chosen`); the lemmas say that the
  search returns an element of least distance, and that the search of an orbit,
  though one of its ranges ends early, misses no visible satellite.
* `Forwarding_proofs!TypeCorrect` and `DataBalanced`, `Spec => []TypeOK` and
  `Spec => []FlowBalance`, for every network, FIB, strategy and number of nonces. The
  hypothesis is that the new satellite is a neighbour of the consumer, which is
  what the handover makes it. Flow balance compares histories, so the invariant
  says where the credit of every Interest is: over a link, the Data that came
  back, the in-record that waits and the Interests in flight are together no more
  than the Interests sent (`LinkBalance`), and likewise at the application
  (`AppBalance`). A handler sends at most one packet over a link (`OnePerLink`);
  several Interests may share one in-record, hence "no more" and not "equal".

### KITE

* `Kite_proofs!ProducerTraced`, `Spec => []PathTraced`, for every network, number of
  requests and of Interests. The assumptions are that the routes towards the RV
  lead there, each a hop closer (`RouteAssumption`), and that the hosts and satellites are
  nodes. `KiteInv` says where each request is: in at most one place (`Alone`), up or, as
  an Ack, down the path of the satellite it was sent to (`Climbs`), past the nodes
  that have its in-record (`HasPassed`). How far it has come is a number (`Place`), and a
  later request is not as far, or behind it in the order of arrival (`InOrder`). So when
  a node announces a request, all earlier ones have gone further down
  (`EarlierGone`), and with the RIB taking announcements in turn none of them
  replaces the newer trace (`NewestTraced`). Behind the Ack of the last request each
  link of its way has a trace (`AckTraces`), and when the producer has it, the whole
  path (`LastTraced`). Only the last request goes from the new satellite, as Updates are
  further apart than what they set off (`Calm`). `Ancestors`, the nodes up to the RV, is
  the least set closed under the next hop, so no induction over paths is needed.
  TLC checks `KiteInv` but for the types of sequences with 4 requests, one more than
  the run has, in 853 795 states.

### Only model-checked, and why

* Liveness under fairness (`SentArrives`, `ConsumerServed`, `EveryPacketEnds` and the
  like) and deadlock are beyond the prover. `SentArrives` is stated as "again and
  again all that was sent has arrived", which for a bounded number of packets is
  the same as that each of them arrives.
* `NoInterestTwice` and `NoneStranded` depend on the instance: on the routes of a
  topology and on time scales.
* The invariants of `Rib` and `LpReliability` rest on folds and recursion over trees
  and queues, several of them one within the other; each would have to be unfolded
  as the loop of `Update` is, by an induction of its own.
* `NoneMissed` and `NoneStranded` of `Kite` are about Interests, like those of
  `Forwarding`: whether one that waits at a node has come from where its trace leads
  depends on where the consumer is.

## 5. Where code and text disagree, and what else was met

Four disagreements have runs that show them:

* `handover_buffered`: `handover-manager.cpp` 155 "send buffered data". The target
  emits its buffered packets before the ack on the same device; the next node has
  no TIB entry yet and discards them (141). Lines 158-160 against 164-167.
* `routes_last`: `common.cpp` 325 "determine latest route, clear last route". The
  erase at 356 keeps the entry before the installed one in front, so each update
  removes the path before the last. At the first change the old path is removed;
  from the second on the last path stays beside the new one. `StaleRemembered`
  says that no more than that is left.
* `rib_refused`: `rib.hpp` 124 "If the FIB update fails, onFibUpdateFailure() will be
  called, and the RIB will not be updated". A batch has one command per name; each
  that is refused on the batch's face calls the failure callback
  (`fib-updater.cpp` 297). The first starts the next update, whose face then is
  `m_batchFaceId`, so the second refusal counts as one of another face and may
  complete the old batch: the refused route enters the RIB.
* `rib_outlived`: `nfdc-route.rst` 66 (`ndnSIM/NFD/docs/manpages`) "keeps the route active
  until the nexthop face is destroyed". When an update of the mortal
  face has commands on other faces as well, because names below its own inherit, the
  face may go while their answers are under way; `rib-manager.cpp` 455 looks for its
  routes before the route is inserted, and nobody looks again.

Others, found while modelling, are stated here only:

* Shim. The station end's `m_dt` is never flushed: only a request flushes, and a
  station gets no request for its own link (`handover-manager.cpp` 85, 155).
  `emit` sends on devices whose face is gone after a second handover
  (`user-link-transport.cpp` 72; `DetachPrefix`, `common.cpp` 519, leaves the
  device up), so such packets still arrive. When a second copy of a request
  reaches the answering satellite it is taken for one to relay, and its PRT entry
  stays (`handover-manager.cpp` 163, 172). With hop limit 6 on a ring of four the
  ack removes the PRT entry that loop detection needs (202), the station answers
  its own request, and TIB entries may lead in a circle; what is said of tunnels and
  payload in section 4 is for hop limits up to 3. `ShimResend`
  (`common.cpp` 587-594) is scheduled but does nothing.
* User links. With an update interval above one minute the last entry of a
  schedule may be skipped (`common.cpp` 420). Two stations at one satellite share
  its one `p2pDevice` slot (245-250): the first detach takes the other's face.
  `m_lastSatPrefix` is set at the prediction (459), so with handovers in
  consecutive updates the hints name the wrong satellite.
* Routes. The assertion on the number of links (`common.cpp` 539, 553) fails when
  both stations have the same access satellite; `RouteUpdate` records this as
  `aborted` and stops. The branch for producers' routes (369-399) is never
  reached, as the scenario skips those entries.
* Access. A range in `getOrbitClosest` ends one short of what its comment says
  (`Leo.py` 197-201): one candidate is left out, though no visible satellite is
  missed for it. `closestLazy` starts from None and always stays there (223,
  230). `getClosest` takes the first satellite even if no satellite is visible (187).
* Forwarding. When the old satellite's routes fall back to the default routes,
  the duplicate Nack for the first copy of an Interest makes the new satellite
  reject its pending entry, where the resent copy waits. The consumer's own
  retransmission then recovers, hence `NoneStranded` only where the old path stays.
* RIB. `FibFollowsRib` fails when one face has routes of two origins (withdrawing
  the dearer one removes the next hop the cheaper one needs, `fib-updater.cpp` 176),
  when a registration changes the flags of a route (the counter of capturing
  routes is not kept, `rib-entry.cpp` 54), and when a name gets a route that is not
  handed down over one it has inherited. With two origins `prevRoute` may be a
  null pointer (486). An expiration that fires while the renewal of
  its route waits removes the renewed route (`rib-manager.cpp` 140). A dataset asked
  for before a face was created removes the routes of that face (477). A
  `RemoveNextHop` that times out is sent again as `AddNextHop` with cost 0
  (`fib-updater.cpp` 293).
* KITE. `doPull` sets the remaining lifetime on a copy of the Interest that is not
  the one sent (`forwarder.cpp` 483-487), and schedules inside the loop over the
  entries (473), so that an entry is sent once for every later match. A pulled
  Interest has no out-record, so a Nack from another upstream rejects the entry
  while it is under way. `rv.cpp` 64 registers "/ts" with `onKiteRequest`;
  `onTsRequest` is never called.
* Link reliability. Switching it off stops the idle Ack timer but leaves the Acks
  queued, and after it is on again they wait for the next fragment
  (`lp-reliability.cpp` 51). Fragments are acknowledged one by one, so a packet may
  count as acknowledged and be dropped by the reassembly timeout
  (`lp-reassembler.cpp` 116). A packet may be handed up once for every time it
  was sent, `maxRetx + 1` times at most (`HandedUpBounded`).

## 6. Not modelled, and the plan

Plan for the models (in order). There are a dozen runs; a new one replaces or
joins one above, so that the set stays at one run per question.

1. `SatConsumer`: the stop-and-wait consumer (`extensions/sat/apps/consumer`), not
   instantiated by the scenario: its assertions on `m_pending` and `m_seq`
   against late Data and timeouts.
2. `DeadNonceList`: marks, capacity control, eviction; a nonce inserted at an
   ordinary rate lives its lifetime. To be composed with `Forwarding`.
3. `RetxSuppression`: the exponential intervals as a pure function checked against
   a bound, in place of the choice in `Forwarding`.
4. KITE with several names under the prefix, and with a face that goes while
   its announcement is at the RIB (`forwarder.cpp` 430), by joining `Kite` and `Rib`.

Plan for the proofs: `WindowStart` and `CountedOnce` of `LpReliability` and
`OneBatch` of `Rib`, as far as they do not depend on what a fold yields.

Left out for good: ns-3 and the device layer (external), ndn-cxx, ndn-tools apart
from KITE, encoding, tracers and statistics (output), the web page and orbital
mechanics (arithmetic on reals; any distances are allowed instead), global routing
at start-up (Dijkstra of boost; its result is a constant), NFD's other managers and
its configuration (not used by the scenario), RTT estimation and congestion
marking of the face system, and NFD's tables apart from RIB, PIT and nonces (one
name needs a set of next hops and a bit). Vendored libraries and these make up
nearly all of the lines under `src/`; the models cover the code the scenario's
results depend on.
