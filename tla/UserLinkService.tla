-------------------------- MODULE UserLinkService --------------------------
(***************************************************************************)
(* What the shim layer promises to NDN, whatever handovers happen: a user  *)
(* link joins one station to one satellite, a packet that NDN sends on a   *)
(* face of the link is handed up at most once, only by the face at the     *)
(* other end of that same link, and in the order of sending.  Packets may  *)
(* be lost.  HandoverManager implements this specification.                *)
(***************************************************************************)
EXTENDS Naturals, Sequences

CONSTANTS Sat, Station,
          MaxLink,          \* bound on the user links ever created
          MaxSend           \* bound on the packets sent on one face

VARIABLES userLink,         \* the <<station, satellite>> of every link so far
          sent,             \* packets sent so far on the face of each link
          handed            \* packets each face handed up to NDN, in order

vars == <<userLink, sent, handed>>

Node == Sat \cup Station
UserLink == 1..MaxLink

Packet(n, id, k) == [from |-> n, id |-> id, k |-> k]

EndsOf(id) == {userLink[id][1], userLink[id][2]}

Init ==
  /\ userLink = <<>>
  /\ sent = [n \in Node |-> [id \in UserLink |-> 0]]
  /\ handed = [n \in Node |-> [id \in UserLink |-> <<>>]]

NewLink(st, s) ==
  /\ Len(userLink) < MaxLink
  /\ userLink' = Append(userLink, <<st, s>>)
  /\ UNCHANGED <<sent, handed>>

Send(n, id) ==
  /\ id \in DOMAIN userLink /\ n \in EndsOf(id)
  /\ sent[n][id] < MaxSend
  /\ sent' = [sent EXCEPT ![n][id] = @ + 1]
  /\ UNCHANGED <<userLink, handed>>

\* The number of the last packet the face handed up, 0 if there is none.
LastHanded(n, id) ==
  IF handed[n][id] = <<>> THEN 0 ELSE handed[n][id][Len(handed[n][id])].k

HandUp(n, id) ==
  /\ id \in DOMAIN userLink /\ n \in EndsOf(id)
  /\ \E m \in EndsOf(id) \ {n} : \E k \in LastHanded(n, id)+1 .. sent[m][id] :
        handed' = [handed EXCEPT ![n][id] = Append(@, Packet(m, id, k))]
  /\ UNCHANGED <<userLink, sent>>

Next ==
  \/ \E st \in Station, s \in Sat : NewLink(st, s)
  \/ \E n \in Node, id \in UserLink : Send(n, id) \/ HandUp(n, id)

Spec == Init /\ [][Next]_vars
=============================================================================
