--------------------------- MODULE SatUpdate_proofs ---------------------------
(***************************************************************************)
(* Proof that no next hop of the pair's routes is forgotten, and that the  *)
(* path in force is installed, for every schedule of paths: Update looks   *)
(* at every epoch (Interval = 1, the default of the scenario).             *)
(*                                                                         *)
(* The entry in front of the schedule is the one before the installed one, *)
(* or the installed one while no other has come due; every later change of *)
(* the path still has its entry.                                           *)
(*                                                                         *)
(* The second part is about the stations: each has the link, the route and *)
(* the waking its schedule asks for, if no two meet at a satellite's slot. *)
(* What the loop over the stations does is shown by induction along an     *)
(* interval, which the pigeonhole theorem gives (AlongInterval).           *)
(***************************************************************************)
EXTENDS SatUpdate, FiniteSetTheorems, TLAPS

----------------------------------------------------------------------------
(* The inductive invariant.                                                *)

Item == [time : R!Epoch \cup {-1}, path : Path]

\* A run without manual routes.
WithoutRoutes == items = <<>> /\ route = [t \in R!Epoch |-> <<>>]

\* The entries are in order, those behind the front one hold the path of their
\* epoch, and no change of the path that is still to come lacks its entry.
Ordered == \A i, j \in DOMAIN items : i < j => items[i].time < items[j].time
OfEpoch(i) == items[i].time \in R!Epoch /\ items[i].path = route[items[i].time]
ToCome ==
  \A t \in R!Epoch \ {0} : t >= time /\ route[t] # route[t-1] =>
    \E i \in DOMAIN items : items[i].time = t

AtStart ==
  /\ time = 0 /\ fib = {} /\ items # <<>> /\ items[1].time = 0
  /\ \A i \in DOMAIN items : OfEpoch(i)

\* Where the installed path is in what is left of the schedule.
InFront == items[2].time >= time /\ items[1].path = R!InForce
InSecond ==
  /\ items[2].time < time /\ items[2].path = R!InForce
  /\ Len(items) >= 3 => items[3].time >= time

Installed ==
  /\ time > 0 /\ R!Links(R!InForce) \subseteq fib
  /\ items # <<>> =>
       /\ Len(items) >= 2 /\ items[1].time # 0 /\ items[1].time < time
       /\ \A i \in 2..Len(items) : OfEpoch(i) /\ items[i].time > 0
       /\ InFront \/ InSecond
       /\ fib \subseteq R!Links(R!InForce) \cup R!Links(items[1].path)

RoutesInv ==
  /\ time \in Nat /\ route \in [R!Epoch -> Path] /\ items \in Seq(Item)
  /\ Ordered /\ ToCome
  /\ AtStart \/ Installed

IInv == time \in Nat /\ (WithoutRoutes \/ RoutesInv)

----------------------------------------------------------------------------
(* The schedule that is read at the start.                                 *)

\* The cardinality that RouteUpdate speaks of.
LEMMA SameCardinality ==
  ASSUME NEW S
  PROVE  R!Cardinality(S) = Cardinality(S)
BY DEF R!Cardinality, Cardinality

\* A greater number has all below it that a smaller one has.
LEMMA BelowGrows ==
  ASSUME NEW e \in SUBSET Nat, NEW s \in e, NEW t \in e, s <= t
  PROVE  {u \in e : u <= s} \in SUBSET {u \in e : u <= t}
<1> SUFFICES ASSUME NEW u \in e, u <= s
             PROVE  u <= t
  OBVIOUS
<1>1. s \in Nat /\ t \in Nat /\ u \in Nat
  OBVIOUS
<1> QED BY <1>1

\* Every rank up to the size of a finite set of numbers is that of one element.
LEMMA RankReached ==
  ASSUME NEW e \in SUBSET Nat, IsFiniteSet(e), NEW i \in 1..Cardinality(e)
  PROVE  \E t \in e : Cardinality({u \in e : u <= t}) = i
<1> DEFINE Below(t) == {u \in e : u <= t}
           rank == [t \in e |-> Cardinality(Below(t))]
           n == Cardinality(e)
<1>1. n \in Nat
  BY FS_CardinalityType
<1>2. \A t \in e : IsFiniteSet(Below(t)) /\ rank[t] \in 1..n
  <2> SUFFICES ASSUME NEW t \in e
               PROVE  IsFiniteSet(Below(t)) /\ rank[t] \in 1..n
    OBVIOUS
  <2>1. Below(t) \in SUBSET e /\ Below(t) # {}
    OBVIOUS
  <2>2. IsFiniteSet(Below(t)) /\ Cardinality(Below(t)) <= n
    BY <2>1, FS_Subset
  <2>3. Cardinality(Below(t)) \in Nat /\ Cardinality(Below(t)) # 0
    BY <2>1, <2>2, FS_CardinalityType, FS_EmptySet
  <2> QED BY <1>1, <2>2, <2>3
<1>3. \A s, t \in e : rank[s] = rank[t] => s = t
  <2>1. \A s, t \in e : s < t /\ rank[s] = rank[t] => FALSE
    <3> SUFFICES ASSUME NEW s \in e, NEW t \in e, s < t, rank[s] = rank[t]
                 PROVE  FALSE
      OBVIOUS
    <3>1. s \in Nat /\ t \in Nat
      OBVIOUS
    <3>2. Below(s) \in SUBSET Below(t) /\ t \in Below(t) /\ t \notin Below(s)
      BY <3>1, BelowGrows
    <3>3. Below(t) = Below(s)
      BY <1>2, <3>2, FS_Subset
    <3> QED BY <3>2, <3>3
  <2> QED
    BY <2>1
<1>4. rank \in Injection(e, 1..n)
  BY <1>2, <1>3 DEF Injection, IsInjective
<1>5. IsFiniteSet(1..n) /\ Cardinality(1..n) = n
  BY <1>1, FS_Interval
<1>6. rank \in Surjection(e, 1..n)
  BY <1>4, <1>5, FS_Injection
<1>7. \E t \in e : rank[t] = i
  BY <1>6 DEF Surjection
<1> QED BY <1>7

\* Nth lists a finite set of numbers in order.
LEMMA NthOrders ==
  ASSUME NEW e \in SUBSET Nat, IsFiniteSet(e)
  PROVE  /\ \A i \in 1..Cardinality(e) : R!Nth(e, i) \in e
         /\ \A i, j \in 1..Cardinality(e) : i < j => R!Nth(e, i) < R!Nth(e, j)
         /\ \A t \in e : \E i \in 1..Cardinality(e) : R!Nth(e, i) = t
<1> DEFINE n == Cardinality(e)
           rank(t) == Cardinality({u \in e : u <= t})
<1>1. n \in Nat
  BY FS_CardinalityType
<1>2. \A i \in 1..n : R!Nth(e, i) \in e /\ rank(R!Nth(e, i)) = i
  <2> SUFFICES ASSUME NEW i \in 1..n
               PROVE  R!Nth(e, i) \in e /\ rank(R!Nth(e, i)) = i
    OBVIOUS
  <2>1. \E t \in e : rank(t) = i
    BY RankReached
  <2>2. R!Nth(e, i) = CHOOSE t \in e : rank(t) = i
    BY SameCardinality DEF R!Nth
  <2> HIDE DEF rank
  <2> QED BY <2>1, <2>2
<1>3. ASSUME NEW s \in e, NEW t \in e, s <= t
      PROVE  rank(s) \in Nat /\ rank(t) \in Nat /\ rank(s) <= rank(t)
  <2>1. {u \in e : u <= s} \in SUBSET {u \in e : u <= t} /\ {u \in e : u <= t} \in SUBSET e
    BY <1>3, BelowGrows
  <2>2. IsFiniteSet({u \in e : u <= t})
    BY <2>1, FS_Subset
  <2> QED BY <2>1, <2>2, FS_Subset, FS_CardinalityType
<1>4. \A s, t \in e : rank(s) < rank(t) => s < t
  <2> SUFFICES ASSUME NEW s \in e, NEW t \in e, rank(s) < rank(t), ~ s < t
               PROVE  FALSE
    OBVIOUS
  <2>1. t <= s
    OBVIOUS
  <2> HIDE DEF rank
  <2> QED BY <1>3, <2>1
<1>5. \A i, j \in 1..n : i < j => R!Nth(e, i) < R!Nth(e, j)
  BY <1>2, <1>4
<1>6. ASSUME NEW t \in e
      PROVE  \E i \in 1..n : R!Nth(e, i) = t
  <2>1. {u \in e : u <= t} \in SUBSET e /\ t \in {u \in e : u <= t}
    OBVIOUS
  <2>2. IsFiniteSet({u \in e : u <= t}) /\ rank(t) <= n
    BY <2>1, FS_Subset
  <2>3. rank(t) \in 1..n
    BY <1>1, <2>1, <2>2, FS_CardinalityType, FS_EmptySet
  <2>4. R!Nth(e, rank(t)) \in e /\ rank(R!Nth(e, rank(t))) = rank(t)
    BY <1>2, <2>3
  <2>5. R!Nth(e, rank(t)) = t
    <3> DEFINE s == R!Nth(e, rank(t))
    <3>1. s \in e /\ rank(s) = rank(t) /\ s \in Nat /\ t \in Nat
      BY <2>4
    <3>2. {u \in e : u <= s} = {u \in e : u <= t}
      <4> HIDE DEF s
      <4>1. {u \in e : u <= s} \in SUBSET {u \in e : u <= t}
            \/ {u \in e : u <= t} \in SUBSET {u \in e : u <= s}
        <5>1. s <= t \/ t <= s
          BY <3>1
        <5> QED BY <3>1, <5>1, BelowGrows
      <4>2. IsFiniteSet({u \in e : u <= s})
        BY FS_Subset
      <4> QED BY <2>2, <3>1, <4>1, <4>2, FS_Subset
    <3> HIDE DEF s
    <3>3. s <= t /\ t <= s
      BY <3>1, <3>2
    <3> QED BY <3>1, <3>3 DEF s
  <2> QED BY <2>3, <2>5
<1> HIDE DEF n, rank
<1> QED BY <1>2, <1>5, <1>6 DEF n

----------------------------------------------------------------------------
(* The start.                                                              *)

\* What Leo.py writes for a pair satisfies the invariant.
LEMMA InitRoutes ==
  ASSUME R!Init
  PROVE  RoutesInv
<1>1. EndTime \in Nat
  BY UpdateAssumption DEF A!TimeAssumption
<1>2. route \in [R!Epoch -> Path] /\ R!Epoch = 0..EndTime /\ time = 0
  BY DEF R!Init, R!PairRoutes, R!Epoch
<1>3. PICK e \in R!Entries(route) : items = R!Schedule(route, e)
  BY DEF R!Init
<1> DEFINE n == Cardinality(e)
<1>4. e \in SUBSET R!Epoch /\ 0 \in e /\ \A t \in R!Epoch \ {0} : route[t] # route[t-1] => t \in e
  BY DEF R!Entries
<1>5. IsFiniteSet(e) /\ e \in SUBSET Nat /\ n \in Nat
  <2>1. IsFiniteSet(R!Epoch) /\ R!Epoch \in SUBSET Nat
    BY <1>1, <1>2, FS_Interval
  <2> QED BY <1>4, <2>1, FS_Subset, FS_CardinalityType
<1>6. /\ \A i \in 1..n : R!Nth(e, i) \in e
      /\ \A i, j \in 1..n : i < j => R!Nth(e, i) < R!Nth(e, j)
      /\ \A t \in e : \E i \in 1..n : R!Nth(e, i) = t
  BY <1>5, NthOrders
<1>7. items = [i \in 1..n |-> [time |-> R!Nth(e, i), path |-> route[R!Nth(e, i)]]]
  BY <1>3, SameCardinality DEF R!Schedule
<1> HIDE DEF n
<1>8. /\ items \in Seq(Item) /\ DOMAIN items = 1..n
      /\ \A i \in DOMAIN items : items[i].time = R!Nth(e, i) /\ OfEpoch(i)
  <2>1. \A i \in 1..n : items[i] \in Item
    BY <1>2, <1>4, <1>6, <1>7 DEF Item
  <2>2. items \in [1..n -> Item]
    BY <1>7, <2>1
  <2>3. items \in Seq(Item)
    BY <1>5, <2>2
  <2> QED BY <1>4, <1>6, <1>7, <2>3 DEF OfEpoch
<1>9. Ordered /\ ToCome
  BY <1>4, <1>6, <1>8 DEF Ordered, ToCome
<1>10. items # <<>> /\ items[1].time = 0
  <2>1. PICK i \in 1..n : R!Nth(e, i) = 0
    BY <1>4, <1>6
  <2>2. ~ 1 < i
    <3> SUFFICES ASSUME 1 < i PROVE FALSE
      OBVIOUS
    <3>1. 1 \in 1..n
      BY <1>5
    <3>2. R!Nth(e, 1) < 0 /\ R!Nth(e, 1) \in Nat
      BY <1>5, <1>6, <2>1, <3>1
    <3> QED BY <3>2
  <2>3. i = 1
    BY <1>5, <2>1, <2>2
  <2>4. 1 \in DOMAIN items /\ items[1].time = 0
    BY <1>8, <2>1, <2>3
  <2> QED BY <2>4
<1> QED BY <1>2, <1>8, <1>9, <1>10 DEF RoutesInv, AtStart, R!Init

----------------------------------------------------------------------------
(* One update.                                                             *)

\* What every event that the invariant starts from has.
EpochOne ==
  /\ Interval = 1 /\ EndTime \in Nat /\ R!Epoch = 0..EndTime
  /\ \A p \in Path : DOMAIN p = 1..Len(p) /\ Len(p) > 0

\* Times and paths of the entries.
LEMMA EntryTypes ==
  ASSUME RoutesInv
  PROVE  /\ Len(items) \in Nat /\ DOMAIN items = 1..Len(items) /\ time \in Nat
         /\ \A i \in 1..Len(items) :
              items[i] \in Item /\ items[i].time \in Int /\ items[i].path \in Path
<1>1. Len(items) \in Nat /\ DOMAIN items = 1..Len(items) /\ items \in Seq(Item) /\ time \in Nat
  BY DEF RoutesInv
<1>2. \A i \in 1..Len(items) : items[i] \in Item
  BY <1>1
<1>3. R!Epoch \cup {-1} \subseteq Int
  BY DEF R!Epoch
<1>4. \A x \in Item : x.time \in Int /\ x.path \in Path
  BY <1>3 DEF Item
<1> QED BY <1>1, <1>2, <1>4

\* The path in force changes only when there is an entry for it.
LEMMA InForceChanges ==
  ASSUME EpochOne, RoutesInv, time > 0, time' = time + 1, route' = route
  PROVE  \/ R!InForce' = R!InForce
         \/ \E i \in DOMAIN items : items[i].time = time
<1>1. R!Now = time - 1 /\ R!Now' = time /\ time \in Nat
  BY DEF EpochOne, RoutesInv, R!Now
<1>2. CASE time <= EndTime
  <2>1. R!InForce' = route[time] /\ R!InForce = route[time-1] /\ time \in R!Epoch \ {0}
    BY <1>1, <1>2 DEF EpochOne, R!InForce
  <2> QED BY <2>1 DEF RoutesInv, ToCome
<1>3. CASE time > EndTime
  BY <1>1, <1>3 DEF EpochOne, R!InForce
<1> QED BY <1>1, <1>2, <1>3 DEF EpochOne

\* The path of an epoch is in force after the update at that epoch.
LEMMA InForceNext ==
  ASSUME EpochOne, time \in R!Epoch, time' = time + 1, route' = route
  PROVE  R!InForce' = route[time]
BY DEF EpochOne, R!InForce, R!Now

\* Entries that are still to come stay.
LEMMA ToComeStays ==
  ASSUME EpochOne, RoutesInv, time' = time + 1, route' = route,
         \A i \in DOMAIN items : items[i].time > time =>
           \E k \in DOMAIN items' : items'[k].time = items[i].time
  PROVE  ToCome'
<1> SUFFICES ASSUME NEW t \in R!Epoch \ {0}, t >= time', route'[t] # route'[t-1]
             PROVE  \E k \in DOMAIN items' : items'[k].time = t
  BY DEF ToCome
<1>1. t \in Nat /\ time \in Nat /\ t > time
  BY DEF EpochOne, RoutesInv
<1>2. PICK i \in DOMAIN items : items[i].time = t
  BY <1>1 DEF RoutesInv, ToCome
<1> QED BY <1>1, <1>2

\* While the first path is in force the search ends at the second entry.
LEMMA SearchInFront ==
  ASSUME RoutesInv, Len(items) >= 2, InFront
  PROVE  R!Search = 2
<1> DEFINE Ends(j) == /\ j <= Len(items) => time <= items[j].time
                      /\ \A i \in 2..j-1 : items[i].time < time
<1>1. Len(items) \in Nat /\ time \in Nat /\ items[2].time \in Int
  BY EntryTypes
<1>2. 2 \in 2..Len(items)+1 /\ Ends(2)
  BY <1>1 DEF InFront
<1>3. \A j \in 2..Len(items)+1 : Ends(j) => j = 2
  BY <1>1 DEF InFront
<1>4. R!Search = CHOOSE j \in 2..Len(items)+1 : Ends(j)
  BY DEF R!Search
<1> HIDE DEF Ends
<1> QED BY <1>2, <1>3, <1>4

\* Later it passes the entry of the installed path, which is second.
LEMMA SearchInSecond ==
  ASSUME RoutesInv, Len(items) >= 2, InSecond
  PROVE  R!Search = 3
<1> DEFINE Ends(j) == /\ j <= Len(items) => time <= items[j].time
                      /\ \A i \in 2..j-1 : items[i].time < time
<1>1. /\ Len(items) \in Nat /\ time \in Nat /\ items[2].time \in Int
      /\ Len(items) >= 3 => items[3].time \in Int
  BY EntryTypes
<1>2. 3 \in 2..Len(items)+1 /\ Ends(3)
  BY <1>1 DEF InSecond
<1>3. \A j \in 2..Len(items)+1 : Ends(j) => j = 3
  BY <1>1 DEF InSecond
<1>4. R!Search = CHOOSE j \in 2..Len(items)+1 : Ends(j)
  BY DEF R!Search
<1> HIDE DEF Ends
<1> QED BY <1>2, <1>3, <1>4

\* Every way Update treats the pair moves the clock and keeps the route.
LEMMA Ticks ==
  ASSUME EpochOne, R!Update
  PROVE  time' = time + 1 /\ route' = route
BY DEF EpochOne, R!Update, R!FirstTime, R!Exhausted, R!Renew, R!SameRoute, R!Tick

\* The first update installs the first path, and marks its entry.
LEMMA UpdateAtStart ==
  ASSUME EpochOne, RoutesInv, AtStart, R!Update
  PROVE  RoutesInv'
<1>1. time = 0 /\ time' = 1 /\ route' = route
  BY Ticks DEF AtStart
<1>2. R!FirstTime
  BY DEF AtStart, R!Update, R!Exhausted, R!Renew, R!SameRoute, R!IsFirst, R!Due
<1> DEFINE marked == [items EXCEPT ![1].time = -1]
<1>3. Len(items) \in Nat /\ Len(items) >= 1 /\ DOMAIN items = 1..Len(items)
  BY EntryTypes DEF AtStart
<1>4. /\ marked \in Seq(Item) /\ Len(marked) = Len(items)
      /\ marked[1].time = -1 /\ marked[1].path = items[1].path
      /\ \A i \in 2..Len(items) : marked[i] = items[i]
  <2>1. \A x \in Item : [x EXCEPT !.time = -1] \in Item
    BY DEF Item
  <2>2. marked = [items EXCEPT ![1] = [items[1] EXCEPT !.time = -1]]
    OBVIOUS
  <2>3. items[1] \in Item /\ items \in Seq(Item)
    BY <1>3, EntryTypes DEF RoutesInv
  <2>4. [items[1] EXCEPT !.time = -1].time = -1
        /\ [items[1] EXCEPT !.time = -1].path = items[1].path
    BY <2>3 DEF Item
  <2> HIDE DEF marked
  <2> QED BY <1>3, <2>1, <2>2, <2>3, <2>4
<1>5. items' = IF Len(items) < 2 THEN <<>> ELSE marked
  BY <1>2, <1>4 DEF R!FirstTime, R!Cleared
<1> HIDE DEF marked
<1>6. \A i \in 2..Len(items) : OfEpoch(i) /\ items[i].time > 0
  <2> SUFFICES ASSUME NEW i \in 2..Len(items)
               PROVE  OfEpoch(i) /\ items[i].time > 0
    OBVIOUS
  <2>1. 1 \in DOMAIN items /\ i \in DOMAIN items /\ 1 < i
    BY <1>3
  <2>2. items[1].time < items[i].time
    BY <2>1 DEF RoutesInv, Ordered
  <2> QED BY <2>1, <2>2, EntryTypes DEF AtStart
<1>7. items' \in Seq(Item) /\ Ordered'
  <2>1. items' \in Seq(Item)
    BY <1>4, <1>5
  <2>2. CASE items' = <<>>
    BY <2>2 DEF Ordered
  <2>3. CASE items' = marked
    <3>1. DOMAIN items' = 1..Len(items)
      BY <1>3, <1>4, <2>3
    <3>2. \A i \in 2..Len(items) : items'[i].time = items[i].time /\ items[i].time > 0
      BY <1>4, <1>6, <2>3
    <3>3. \A i, j \in DOMAIN items : i < j => items[i].time < items[j].time
      BY DEF RoutesInv, Ordered
    <3>4. \A j \in 2..Len(items) : items'[1].time < items'[j].time
      BY <1>4, <2>3, <3>2, EntryTypes
    <3>5. \A i, j \in 2..Len(items) : i < j => items'[i].time < items'[j].time
      BY <1>3, <3>2, <3>3
    <3> SUFFICES ASSUME NEW i \in 1..Len(items), NEW j \in 1..Len(items), i < j
                 PROVE  items'[i].time < items'[j].time
      BY <2>1, <3>1 DEF Ordered
    <3>6. j \in 2..Len(items) /\ (i = 1 \/ i \in 2..Len(items))
      BY <1>3
    <3> QED BY <3>4, <3>5, <3>6
  <2> QED BY <1>5, <2>1, <2>2, <2>3
<1>8. ToCome'
  <2>1. ASSUME NEW i \in DOMAIN items, items[i].time > time
        PROVE  \E k \in DOMAIN items' : items'[k].time = items[i].time
    <3>1. i \in 2..Len(items)
      BY <1>1, <1>3, <2>1 DEF AtStart
    <3>2. items' = marked /\ i \in DOMAIN items'
      BY <1>3, <1>4, <1>5, <3>1
    <3> QED BY <1>4, <3>1, <3>2
  <2> QED BY <1>1, <2>1, ToComeStays
<1>9. R!InForce' = items[1].path
  <2>1. time \in R!Epoch /\ items[1].path = route[time]
    BY <1>1, <1>3 DEF AtStart, OfEpoch
  <2> QED BY <1>1, <2>1, InForceNext
<1>10. Installed'
  <2>1. fib' = R!Links(items[1].path)
    BY <1>2 DEF AtStart, R!FirstTime
  <2>2. R!Links(R!InForce)' = R!Links(items[1].path)
    BY <1>9 DEF R!Links
  <2>3. ASSUME items' # <<>>
        PROVE  /\ Len(items') >= 2 /\ items'[1].time # 0 /\ items'[1].time < time'
               /\ \A i \in 2..Len(items') : OfEpoch(i)' /\ items'[i].time > 0
               /\ InFront'
    <3>1. items' = marked /\ Len(items) >= 2
      BY <1>3, <1>5, <2>3
    <3>2. \A i \in 2..Len(items') : OfEpoch(i)' /\ items'[i].time > 0
      BY <1>1, <1>4, <1>6, <3>1 DEF OfEpoch, R!Epoch
    <3>3. InFront'
      <4>1. 2 \in 2..Len(items)
        BY <1>3, <3>1
      <4>2. items'[2].time > 0 /\ items'[2].time \in Int
        BY <1>3, <1>4, <1>6, <3>1, <4>1, EntryTypes
      <4> QED BY <1>1, <1>4, <1>9, <3>1, <4>2 DEF InFront
    <3> QED BY <1>1, <1>3, <1>4, <3>1, <3>2, <3>3
  <2> QED BY <1>1, <2>1, <2>2, <2>3 DEF Installed
<1> QED BY <1>1, <1>7, <1>8, <1>10 DEF RoutesInv, R!Epoch

\* When the schedule is used up, nothing changes any more.
LEMMA UpdateUsedUp ==
  ASSUME EpochOne, items = <<>>, R!Update
  PROVE  items' = <<>> /\ fib' = fib
BY DEF R!Update, R!FirstTime, R!Exhausted, R!Renew, R!SameRoute, R!IsFirst, R!Due, R!Cleared

\* The first path is in force until the second entry comes due.
LEMMA UpdateInFront ==
  ASSUME EpochOne, RoutesInv, Installed, items # <<>>, InFront, R!Update
  PROVE  RoutesInv'
<1>1. /\ time > 0 /\ time' = time + 1 /\ route' = route
      /\ Len(items) \in Nat /\ Len(items) >= 2 /\ DOMAIN items = 1..Len(items)
      /\ time \in Nat /\ items[1].time \in Int /\ items[2].time \in Int
  BY Ticks, EntryTypes DEF Installed
<1>2. R!Search = 2 /\ R!Due /\ ~R!IsFirst
  BY <1>1, SearchInFront DEF Installed, R!Due, R!IsFirst
<1>3. items' = items
  <2>1. ~R!FirstTime /\ ~R!Exhausted
    BY <1>1, <1>2 DEF R!FirstTime, R!Exhausted
  <2>2. CASE R!SameRoute
    BY <1>1, <2>2 DEF R!SameRoute, R!Cleared
  <2>3. CASE R!Renew
    <3>1. items' = R!Cleared(R!Erase(2))
      BY <1>2, <2>3 DEF R!Renew, R!Latest
    <3>2. R!Erase(2) = items
      BY <1>1 DEF R!Erase, RoutesInv
    <3> QED BY <1>1, <3>1, <3>2 DEF R!Cleared
  <2> QED BY <2>1, <2>2, <2>3 DEF R!Update
<1>4. \A i \in 2..Len(items) : OfEpoch(i)' /\ items[i].time > 0
  BY <1>1, <1>3 DEF Installed, OfEpoch, R!Epoch
<1>5. items' \in Seq(Item) /\ Ordered' /\ ToCome'
  BY <1>1, <1>3, ToComeStays DEF RoutesInv, Ordered
<1>6. ASSUME items[2].time = time
      PROVE  Installed'
  <2>1. R!Renew
    BY <1>1, <1>2, <1>6 DEF R!Update, R!FirstTime, R!Exhausted, R!SameRoute, R!Latest
  <2>2. fib' = (fib \ R!Links(items[1].path)) \cup R!Links(items[2].path)
    BY <1>2, <1>6, <2>1 DEF R!Renew, R!Latest, R!Replace
  <2>3. R!InForce' = items[2].path
    BY <1>1, <1>6, InForceNext DEF Installed, OfEpoch
  <2>4. InSecond'
    <3>1. ASSUME Len(items) >= 3
          PROVE  items[3].time >= time + 1
      <4>1. items[2].time < items[3].time /\ items[3].time \in Int
        BY <1>1, <3>1, EntryTypes DEF RoutesInv, Ordered
      <4> QED BY <1>1, <1>6, <4>1
    <3> QED BY <1>1, <1>3, <1>6, <2>3, <3>1 DEF InSecond
  <2>5. R!Links(R!InForce)' = R!Links(items[2].path)
    BY <2>3 DEF R!Links
  <2>6. R!Links(items[1].path)' = R!Links(items[1].path)
    BY <1>3 DEF R!Links
  <2>7. fib \subseteq R!Links(items[1].path)
    BY DEF Installed, InFront
  <2> QED BY <1>1, <1>4, <1>3, <2>2, <2>4, <2>5, <2>6, <2>7 DEF Installed
<1>7. ASSUME items[2].time > time
      PROVE  Installed'
  <2>1. R!Latest = {}
    BY <1>1, <1>2, <1>7 DEF R!Latest
  <2>2. fib' = fib
    BY <1>2, <2>1 DEF R!Update, R!FirstTime, R!Exhausted, R!Renew, R!SameRoute
  <2>3. ~\E i \in DOMAIN items : items[i].time = time
    <3>1. \A i \in DOMAIN items : i = 1 \/ i = 2 \/ (i > 2 /\ items[2].time < items[i].time)
      BY <1>1 DEF RoutesInv, Ordered
    <3> QED BY <1>1, <1>7, <3>1, EntryTypes DEF Installed
  <2>4. R!InForce' = R!InForce
    BY <1>1, <2>3, InForceChanges
  <2>5. InFront'
    BY <1>1, <1>3, <1>7, <2>4 DEF InFront
  <2>6. R!Links(R!InForce)' = R!Links(R!InForce)
    BY <2>4 DEF R!Links
  <2>7. R!Links(items[1].path)' = R!Links(items[1].path)
    BY <1>3 DEF R!Links
  <2> QED BY <1>1, <1>4, <1>3, <2>2, <2>5, <2>6, <2>7 DEF Installed
<1> QED BY <1>1, <1>5, <1>6, <1>7 DEF RoutesInv, InFront

\* From then on the entry in front is the one before the installed one.
LEMMA UpdateInSecond ==
  ASSUME EpochOne, RoutesInv, Installed, items # <<>>, InSecond, R!Update
  PROVE  RoutesInv'
<1>1. /\ time > 0 /\ time' = time + 1 /\ route' = route
      /\ Len(items) \in Nat /\ Len(items) >= 2 /\ DOMAIN items = 1..Len(items)
      /\ time \in Nat /\ items[1].time \in Int /\ items[2].time \in Int
      /\ items \in Seq(Item)
  BY Ticks, EntryTypes DEF Installed, RoutesInv
<1>2. R!Search = 3 /\ R!Due /\ ~R!IsFirst
  BY <1>1, SearchInSecond DEF Installed, R!Due, R!IsFirst
<1>3. CASE Len(items) = 2
  <2>1. items' = <<>> /\ fib' = fib
    BY <1>1, <1>2, <1>3 DEF R!Update, R!FirstTime, R!Exhausted, R!Renew, R!SameRoute
  <2>2. \A i \in DOMAIN items : items[i].time < time
    BY <1>1, <1>3 DEF Installed, InSecond
  <2>3. R!InForce' = R!InForce
    BY <1>1, <2>2, InForceChanges, EntryTypes
  <2>4. ToCome'
    BY <1>1, <2>2, ToComeStays, EntryTypes
  <2>5. R!Links(R!InForce)' = R!Links(R!InForce)
    BY <2>3 DEF R!Links
  <2>6. Installed'
    BY <1>1, <2>1, <2>5 DEF Installed
  <2>7. Ordered' /\ items' \in Seq(Item)
    BY <2>1 DEF Ordered
  <2> QED BY <1>1, <2>4, <2>6, <2>7 DEF RoutesInv, R!Epoch
<1>4. ASSUME Len(items) >= 3, items[3].time = time
      PROVE  RoutesInv'
  <2> DEFINE n == Len(items)
  <2>1. R!Renew
    BY <1>1, <1>2, <1>4 DEF R!Update, R!FirstTime, R!Exhausted, R!SameRoute, R!Latest
  <2>2. /\ items' = R!Cleared(R!Erase(3))
        /\ fib' = (fib \ R!Links(items[1].path)) \cup R!Links(items[3].path)
    BY <1>2, <1>4, <2>1 DEF R!Renew, R!Latest, R!Replace
  <2>3. items' = SubSeq(items, 2, n)
    BY <1>1, <1>4, <2>2 DEF R!Erase, R!Cleared
  <2>4. /\ items' \in Seq(Item) /\ Len(items') = n - 1 /\ DOMAIN items' = 1..n-1
        /\ \A i \in 1..n-1 : items'[i] = items[i+1] /\ i + 1 \in DOMAIN items
    BY <1>1, <1>4, <2>3
  <2> HIDE DEF n
  <2>5. n \in Nat /\ n >= 3
    BY <1>1, <1>4 DEF n
  <2>6. R!InForce' = items[3].path
    BY <1>1, <1>4, InForceNext DEF Installed, OfEpoch
  <2>7. Ordered'
    <3> SUFFICES ASSUME NEW i \in DOMAIN items', NEW j \in DOMAIN items', i < j
                 PROVE  items'[i].time < items'[j].time
      BY DEF Ordered
    <3>1. i \in 1..n-1 /\ j \in 1..n-1 /\ i + 1 < j + 1
      BY <2>4, <2>5
    <3> QED BY <2>4, <3>1 DEF RoutesInv, Ordered
  <2>8. ToCome'
    <3>1. ASSUME NEW i \in DOMAIN items, items[i].time > time
          PROVE  \E k \in DOMAIN items' : items'[k].time = items[i].time
      <4>1. i # 1
        BY <1>1, <3>1 DEF Installed
      <4>2. i - 1 \in 1..n-1 /\ (i - 1) + 1 = i
        BY <1>1, <4>1 DEF n
      <4> QED BY <2>4, <4>2
    <3> QED BY <1>1, <3>1, ToComeStays
  <2>9. InSecond'
    <3>1. items'[2] = items[3]
      BY <2>4, <2>5
    <3>2. ASSUME Len(items') >= 3
          PROVE  items'[3].time >= time + 1
      <4>1. items'[3] = items[4] /\ 4 \in DOMAIN items /\ 3 \in DOMAIN items
        BY <1>1, <1>4, <2>4, <2>5, <3>2
      <4>2. items[3].time < items[4].time /\ items[4].time \in Int
        BY <1>1, <4>1, EntryTypes DEF RoutesInv, Ordered
      <4> QED BY <1>1, <1>4, <4>1, <4>2
    <3> QED BY <1>1, <1>4, <2>6, <3>1, <3>2 DEF InSecond
  <2>10. Installed'
    <3>1. R!Links(R!InForce)' = R!Links(items[3].path)
      BY <2>6 DEF R!Links
    <3>2. items'[1] = items[2]
      BY <2>4, <2>5
    <3>3. R!Links(items[1].path)' = R!Links(items[2].path)
      BY <3>2 DEF R!Links
    <3>4. fib \subseteq R!Links(items[2].path) \cup R!Links(items[1].path)
      BY DEF Installed, InSecond
    <3>5. items'[1].time # 0 /\ items'[1].time < time'
      BY <1>1, <3>2 DEF Installed, InSecond
    <3>6. \A i \in 2..Len(items') : OfEpoch(i)' /\ items'[i].time > 0
      <4> SUFFICES ASSUME NEW i \in 2..Len(items')
                   PROVE  OfEpoch(i)' /\ items'[i].time > 0
        OBVIOUS
      <4>1. i \in 1..n-1 /\ i + 1 \in 2..n
        BY <2>4, <2>5
      <4>2. items'[i] = items[i+1] /\ OfEpoch(i+1) /\ items[i+1].time > 0
        BY <2>4, <4>1 DEF Installed, n
      <4> QED BY <1>1, <4>2 DEF OfEpoch, R!Epoch
    <3> QED BY <1>1, <2>2, <2>4, <2>5, <2>9, <3>1, <3>3, <3>4, <3>5, <3>6 DEF Installed
  <2> QED BY <1>1, <2>4, <2>7, <2>8, <2>10 DEF RoutesInv, R!Epoch
<1>5. ASSUME Len(items) >= 3, items[3].time > time
      PROVE  RoutesInv'
  <2>1. R!Latest = {2}
    BY <1>1, <1>2, <1>5, EntryTypes DEF R!Latest
  <2>2. R!Renew
    BY <1>1, <1>2, <1>5, <2>1 DEF R!Update, R!FirstTime, R!Exhausted, R!SameRoute
  <2>3. /\ items' = R!Cleared(R!Erase(2))
        /\ fib' = (fib \ R!Links(items[1].path)) \cup R!Links(items[2].path)
    BY <2>1, <2>2 DEF R!Renew, R!Replace
  <2>4. items' = items
    BY <1>1, <2>3 DEF R!Erase, R!Cleared
  <2>5. ~\E i \in DOMAIN items : items[i].time = time
    <3>1. \A i \in DOMAIN items : i \in 1..3 \/ (i > 3 /\ items[3].time < items[i].time)
      BY <1>1, <1>5 DEF RoutesInv, Ordered
    <3>2. items[3].time \in Int
      BY <1>5, EntryTypes
    <3> QED BY <1>1, <1>5, <3>1, <3>2, EntryTypes DEF Installed, InSecond
  <2>6. R!InForce' = R!InForce
    BY <1>1, <2>5, InForceChanges
  <2>7. InSecond'
    BY <1>1, <1>5, <2>4, <2>6, EntryTypes DEF InSecond
  <2>8. Ordered' /\ ToCome'
    BY <1>1, <2>4, ToComeStays DEF RoutesInv, Ordered
  <2>9. Installed'
    <3>1. R!Links(R!InForce)' = R!Links(items[2].path)
      BY <2>6 DEF R!Links, InSecond
    <3>2. R!Links(items[1].path)' = R!Links(items[1].path)
      BY <2>4 DEF R!Links
    <3>3. fib \subseteq R!Links(items[2].path) \cup R!Links(items[1].path)
      BY DEF Installed, InSecond
    <3>4. \A i \in 2..Len(items) : OfEpoch(i)' /\ items[i].time > 0
      BY <1>1, <2>4 DEF Installed, OfEpoch, R!Epoch
    <3>5. items[1].time # 0 /\ items[1].time < time'
      BY <1>1 DEF Installed
    <3> QED BY <1>1, <2>3, <2>4, <2>7, <3>1, <3>2, <3>3, <3>4, <3>5 DEF Installed
  <2> QED BY <1>1, <2>4, <2>8, <2>9 DEF RoutesInv, R!Epoch
<1>6. Len(items) >= 3 => items[3].time = time \/ items[3].time > time
  BY <1>1, EntryTypes DEF InSecond
<1> QED BY <1>1, <1>3, <1>4, <1>5, <1>6

----------------------------------------------------------------------------
(* The theorems.                                                           *)

\* The constants, when Update looks at every epoch.
LEMMA Constants ==
  ASSUME Interval = 1
  PROVE  EpochOne
BY UpdateAssumption DEF EpochOne, A!TimeAssumption, R!PathAssumption, R!Epoch

\* The invariant holds at the start, with and without manual routes.
LEMMA IInvInit ==
  ASSUME Init
  PROVE  IInv
<1>1. CASE NoRoutes
  BY <1>1 DEF NoRoutes, Init, A!Init, IInv, WithoutRoutes, A!Epoch, R!Epoch
<1>2. CASE R!Init
  BY <1>2, InitRoutes DEF IInv, RoutesInv
<1> QED BY <1>1, <1>2 DEF Init

\* One Update event keeps it.
LEMMA IInvStep ==
  ASSUME EpochOne, IInv, [Next]_vars
  PROVE  IInv'
<1>1. CASE R!Update
  <2>1. time' \in Nat
    BY <1>1, Ticks DEF IInv
  <2>2. CASE WithoutRoutes
    BY <1>1, <2>1, <2>2, Ticks, UpdateUsedUp DEF IInv, WithoutRoutes, R!Epoch
  <2>3. CASE RoutesInv /\ AtStart
    BY <1>1, <2>1, <2>3, UpdateAtStart DEF IInv
  <2>4. CASE RoutesInv /\ Installed /\ items # <<>>
    BY <1>1, <2>1, <2>4, UpdateInFront, UpdateInSecond DEF IInv, Installed
  <2>5. CASE RoutesInv /\ Installed /\ items = <<>>
    <3>1. items' = <<>> /\ fib' = fib /\ time' = time + 1 /\ route' = route
      BY <1>1, <2>5, UpdateUsedUp, Ticks
    <3>2. R!InForce' = R!InForce
      BY <2>5, <3>1, InForceChanges DEF Installed
    <3>3. ToCome'
      BY <2>5, <3>1, ToComeStays
    <3>4. R!Links(R!InForce)' = R!Links(R!InForce)
      BY <3>2 DEF R!Links
    <3>5. Installed'
      BY <2>1, <2>5, <3>1, <3>4 DEF Installed, IInv
    <3> QED BY <2>1, <2>5, <3>1, <3>3, <3>5 DEF IInv, RoutesInv, Ordered, R!Epoch
  <2> QED BY <2>2, <2>3, <2>4, <2>5 DEF IInv, RoutesInv
<1>2. CASE UNCHANGED vars
  <2>1. UNCHANGED <<time, route, items, fib>>
    BY <1>2 DEF vars
  <2> QED
    BY <2>1 DEF IInv, WithoutRoutes, RoutesInv, Ordered, ToCome, AtStart, Installed, InFront,
                InSecond, OfEpoch, R!InForce, R!Now, R!Links, R!Epoch
<1> QED BY <1>1, <1>2 DEF Next, Update

\* What is left of the schedule tells which path is installed, after every
\* update (common.cpp:310-367).
THEOREM RoutesAsScheduled == Interval = 1 => (Spec => []IInv)
<1> SUFFICES ASSUME Interval = 1
             PROVE  Spec => []IInv
  OBVIOUS
<1>1. EpochOne
  BY Constants
<1>2. Init => IInv
  BY IInvInit
<1>3. IInv /\ [Next]_vars => IInv'
  BY <1>1, IInvStep
<1> QED BY <1>2, <1>3, PTL DEF Spec

\* No next hop is forgotten: what is installed beside the path in force is of
\* the path in front of the schedule, which RemoveRoutes takes at the next
\* change (common.cpp:352-356).
THEOREM NoneForgotten == Interval = 1 => (Spec => []StaleRemembered)
<1> SUFFICES ASSUME Interval = 1
             PROVE  Spec => []StaleRemembered
  OBVIOUS
<1>1. IInv => StaleRemembered
  BY DEF IInv, WithoutRoutes, RoutesInv, AtStart, Installed, StaleRemembered, R!StaleRemembered
<1> QED BY <1>1, RoutesAsScheduled, PTL

\* After every update each satellite of the path in force has the next one as
\* a next hop: ApplyRoutes comes after RemoveRoutes, whatever links the two
\* paths share.
PathInstalled ==
  time > 0 /\ R!InForce # <<>> =>
    \A i \in 1..Len(R!InForce)-1 : <<R!InForce[i], R!InForce[i+1]>> \in fib

\* The next hops along the path in force are there after every update.
THEOREM PathIsInstalled == Interval = 1 => (Spec => []PathInstalled)
<1> SUFFICES ASSUME Interval = 1
             PROVE  Spec => []PathInstalled
  OBVIOUS
<1>1. EpochOne
  BY Constants
<1>2. IInv => PathInstalled
  <2>1. ASSUME WithoutRoutes, time \in Nat, time > 0
        PROVE  R!InForce = <<>>
    BY <1>1, <2>1 DEF EpochOne, WithoutRoutes, R!InForce, R!Now
  <2>2. ASSUME Installed
        PROVE  PathInstalled
    BY <2>2 DEF Installed, PathInstalled, R!Links
  <2> QED BY <2>1, <2>2 DEF IInv, RoutesInv, AtStart, PathInstalled
<1> QED BY <1>2, RoutesAsScheduled, PTL

----------------------------------------------------------------------------
(* The stations: the loop over them, as a sequence of networks.            *)

\* Induction along an interval of numbers, for a set of them.
LEMMA AlongInterval ==
  ASSUME NEW n \in Nat, NEW S, 0 \in S,
         \A k \in 0..n : k < n /\ k \in S => k+1 \in S
  PROVE  \A k \in 0..n : k \in S
<1> SUFFICES ASSUME NEW t \in 0..n, t \notin S
             PROVE  FALSE
  OBVIOUS
<1> DEFINE U == {u \in 0..t : u \in S}
           shift == [u \in U |-> u + 1]
<1>1. t \in Nat /\ U \in SUBSET (0..t) /\ IsFiniteSet(0..t)
  BY FS_Interval
<1>2. IsFiniteSet(U) /\ 0 \in U
  BY <1>1, FS_Subset
<1>3. \A u \in U : u+1 \in U \ {0}
  <2> SUFFICES ASSUME NEW u \in U
               PROVE  u+1 \in U \ {0}
    OBVIOUS
  <2>1. u \in 0..n /\ u \in S /\ u # t /\ u <= t /\ u >= 0
    BY <1>1
  <2>2. u < n /\ u+1 \in S /\ u+1 \in 0..t /\ u+1 # 0
    BY <1>1, <2>1
  <2> QED BY <2>2
<1>4. shift \in Injection(U, U \ {0})
  <2>1. \A u \in U : u \in Int
    BY <1>1
  <2>2. \A u, v \in U : shift[u] = shift[v] => u = v
    BY <2>1
  <2> QED BY <1>3, <2>2 DEF Injection, IsInjective
<1> HIDE DEF U, shift
<1>5. Cardinality(U \ {0}) = Cardinality(U) - 1 /\ IsFiniteSet(U \ {0})
  BY <1>2, FS_RemoveElement
<1>6. Cardinality(U) <= Cardinality(U \ {0})
  BY <1>2, <1>4, <1>5, FS_Injection
<1> QED BY <1>2, <1>5, <1>6, FS_CardinalityType

\* The network after the first k stations.
LEMMA StationByStation ==
  ASSUME NEW N \in Nat, DOMAIN StationOrder = 1..N
  PROVE  \E g : /\ g[0] = net
                /\ \A k \in 1..N : g[k] = A!Attach(g[k-1], StationOrder[k])
                /\ A!FoldLeft(A!Attach, net, StationOrder) = g[N]
<1> DEFINE Step(n, i) == A!Attach(n, StationOrder[i])
           Iter(f, k) ==
             f = [s \in SUBSET (1..k) |->
                    IF s = {} THEN net ELSE Step(f[s \ {A!Max(s)}], A!Max(s))]
           S == {k \in 0..N : \E f : Iter(f, k)}
<1>1. 0 \in S
  <2> DEFINE f == [s \in SUBSET (1..0) |-> net]
  <2>1. \A s \in SUBSET (1..0) : s = {}
    OBVIOUS
  <2>2. Iter(f, 0)
    BY <2>1
  <2> QED BY <2>2
<1>2. \A k \in 0..N : \A s \in SUBSET (1..k+1) :
        /\ k+1 \in s => A!Max(s) = k+1
        /\ s \ {k+1} \in SUBSET (1..k)
        /\ k+1 \notin s => s \in SUBSET (1..k)
  <2> SUFFICES ASSUME NEW k \in 0..N, NEW s \in SUBSET (1..k+1)
               PROVE  /\ k+1 \in s => A!Max(s) = k+1
                      /\ s \ {k+1} \in SUBSET (1..k)
                      /\ k+1 \notin s => s \in SUBSET (1..k)
    OBVIOUS
  <2>1. \A x \in s : x \in Int /\ x <= k+1 /\ x >= 1
    OBVIOUS
  <2>2. ASSUME k+1 \in s
        PROVE  A!Max(s) = k+1
    <3>1. k+1 \in s /\ \A y \in s : k+1 >= y
      BY <2>1, <2>2
    <3>2. \A x \in s : (\A y \in s : x >= y) => x = k+1
      BY <2>1, <2>2
    <3> QED BY <3>1, <3>2 DEF A!Max
  <2> QED BY <2>1, <2>2
<1>3. \A k \in 0..N : k < N /\ k \in S => k+1 \in S
  <2> SUFFICES ASSUME NEW k \in 0..N, k < N, k \in S
               PROVE  k+1 \in S
    OBVIOUS
  <2>1. PICK f : Iter(f, k)
    OBVIOUS
  <2> DEFINE h == [s \in SUBSET (1..k+1) |->
                     IF k+1 \in s THEN Step(f[s \ {k+1}], k+1) ELSE f[s]]
  <2>2. \A s \in SUBSET (1..k) : s \in SUBSET (1..k+1) /\ k+1 \notin s
    OBVIOUS
  <2>3. \A s \in SUBSET (1..k) : h[s] = f[s]
    BY <2>2
  <2>6. \A s \in SUBSET (1..k) : 
           f[s] = IF s = {} THEN net ELSE Step(f[s \ {A!Max(s)}], A!Max(s))
    BY <2>1
  <2>4. \A s \in SUBSET (1..k+1) :
          h[s] = IF s = {} THEN net ELSE Step(h[s \ {A!Max(s)}], A!Max(s))
    <3> SUFFICES ASSUME NEW s \in SUBSET (1..k+1)
                 PROVE  h[s] = IF s = {} THEN net ELSE Step(h[s \ {A!Max(s)}], A!Max(s))
      OBVIOUS
    <3>1. CASE k+1 \in s
      <4>1. A!Max(s) = k+1 /\ h[s \ {k+1}] = f[s \ {k+1}] /\ s # {}
        BY <1>2, <2>3, <3>1
      <4>2. h[s] = Step(f[s \ {k+1}], k+1)
        BY <3>1
      <4> HIDE DEF h, Step
      <4> QED BY <4>1, <4>2
    <3>2. CASE k+1 \notin s
      <4>1. s \in SUBSET (1..k) /\ s \ {A!Max(s)} \in SUBSET (1..k)
        BY <1>2, <3>2
      <4>2. h[s] = f[s] /\ h[s \ {A!Max(s)}] = f[s \ {A!Max(s)}]
        BY <2>3, <4>1
      <4> HIDE DEF h, Step
      <4> QED BY <2>6, <4>1, <4>2
    <3> QED BY <3>1, <3>2
  <2>5. Iter(h, k+1)
    <3> HIDE DEF Step
    <3>1. DOMAIN h = SUBSET (1..k+1) /\ h = [s \in SUBSET (1..k+1) |-> h[s]]
      OBVIOUS
    <3> HIDE DEF h
    <3> QED BY <2>4, <3>1
  <2> HIDE DEF Iter, h
  <2> QED BY <2>5
<1>4. \E f : Iter(f, N)
  <2> HIDE DEF Iter
  <2>1. N \in S
    <3> HIDE DEF S
    <3>1. N \in 0..N
      OBVIOUS
    <3> QED BY <1>1, <1>3, <3>1, AlongInterval
  <2> QED BY <2>1
<1> DEFINE f == CHOOSE f : Iter(f, N)
<1>5. Iter(f, N)
  <2> HIDE DEF Iter
  <2> QED BY <1>4
<1>6. A!FoldLeft(A!Attach, net, StationOrder) = f[1..N]
  BY DEF A!FoldLeft, A!MapThenFoldSet
<1> HIDE DEF f
<1> DEFINE g == [k \in 0..N |-> f[1..k]]
<1>7. g[0] = net
  <2>1. 1..0 = {} /\ {} \in SUBSET (1..N) /\ 0 \in 0..N
    OBVIOUS
  <2> QED BY <1>5, <2>1
<1>8. ASSUME NEW k \in 1..N
      PROVE  g[k] = A!Attach(g[k-1], StationOrder[k])
  <2>1. 1..k \in SUBSET (1..N) /\ 1..k # {} /\ k-1 \in 0..N /\ k \in 0..N
    <3>1. k \in Int /\ 1 <= k /\ k <= N /\ k \in 1..k
      OBVIOUS
    <3>2. \A i \in 1..k : i \in 1..N
      BY <3>1
    <3>3. k-1 \in 0..N /\ k \in 0..N /\ 1..k # {}
      BY <3>1
    <3> HIDE DEF f
    <3> QED BY <3>2, <3>3
  <2>2. A!Max(1..k) = k /\ (1..k) \ {k} = 1..(k-1)
    <3>1. k-1 \in 0..N /\ 1..k \in SUBSET (1..(k-1)+1) /\ (k-1)+1 = k /\ k \in 1..k
      OBVIOUS
    <3>2. (1..k) \ {k} = 1..(k-1)
      OBVIOUS
    <3> QED BY <1>2, <3>1, <3>2
  <2>3. f[1..k] = Step(f[(1..k) \ {A!Max(1..k)}], A!Max(1..k))
    <3> HIDE DEF Step
    <3> QED BY <1>5, <2>1
  <2> QED BY <2>1, <2>2, <2>3
<1>9. A!FoldLeft(A!Attach, net, StationOrder) = g[N]
  BY <1>6
<1> HIDE DEF g
<1> QED BY <1>7, <1>8, <1>9

----------------------------------------------------------------------------
(* The attachment schedule of a station.                                   *)

\* The satellite of a station at time t, by the schedule; before and after the
\* Update that is to run next.
SatOf(st, t) == access[st][IF t <= EndTime THEN t ELSE EndTime]
Have(st) == IF time = 0 THEN Gap ELSE SatOf(st, time - 1)
Will(st) == SatOf(st, time)

\* The constants, the access satellites and the clock.
Setting ==
  /\ Interval = 1 /\ EndTime \in Nat /\ time \in Nat /\ Gap \notin Sat
  /\ access \in [A!Station -> [A!Epoch -> Sat \cup {Gap}]]

\* The index of the present entry: those up to it are due, and it names the
\* satellite that the station is to have.  The flag tells of a change.
OnSchedule(st) ==
  LET att == A!Attachments(st)
  IN  /\ idx[st] \in 1..Len(att)+1
      /\ \A i \in 1..Len(att) : att[i].time <= time <=> i <= idx[st]
      /\ idx[st] <= Len(att) => att[idx[st]].sat = Will(st)
      /\ handover[st] \in BOOLEAN /\ (handover[st] <=> time > 0 /\ time \in A!Changes(access[st]))
      /\ handover[st] => /\ idx[st] <= Len(att) /\ lastIdx[st] \in 1..Len(att)
                         /\ att[lastIdx[st]].sat = Have(st)
      /\ time = 0 => idx[st] = 1

\* The entries of a station are its changes, in order.
LEMMA EntriesOfStation ==
  ASSUME Setting, NEW st \in A!Station
  PROVE  LET att == A!Attachments(st)
             chg == A!Changes(access[st])
         IN  /\ Len(att) \in Nat /\ DOMAIN att = 1..Len(att)
             /\ \A i \in 1..Len(att) : att[i].time \in chg /\ att[i].sat = access[st][att[i].time]
             /\ \A i, j \in 1..Len(att) : i < j => att[i].time < att[j].time
             /\ \A t \in chg : \E i \in 1..Len(att) : att[i].time = t
             /\ \A i \in 1..Len(att) : att[i].time \in Nat
             /\ chg \subseteq 0..EndTime /\ 0 \in chg /\ chg \subseteq Nat
<1> DEFINE chg == A!Changes(access[st])
           n == Cardinality(chg)
<1>1. chg \subseteq 0..EndTime /\ 0 \in chg
  BY DEF A!Changes, A!Epoch, Setting
<1>2. IsFiniteSet(0..EndTime) /\ chg \in SUBSET Nat
  BY <1>1, FS_Interval DEF Setting
<1>3. IsFiniteSet(chg) /\ n \in Nat
  BY <1>1, <1>2, FS_Subset, FS_CardinalityType
<1>4. \A s : A!Cardinality(s) = Cardinality(s) /\ R!Cardinality(s) = Cardinality(s)
  BY DEF A!Cardinality, R!Cardinality, Cardinality
<1>5. A!Attachments(st) =
        [i \in 1..n |-> [time |-> R!Nth(chg, i), sat |-> access[st][R!Nth(chg, i)]]]
  <2> DEFINE t == [i \in 1..n |-> R!Nth(chg, i)]
  <2>0. ASSUME NEW i
        PROVE  R!Nth(chg, i) = CHOOSE u \in chg : A!Cardinality({v \in chg : v <= u}) = i
    BY <1>4 DEF R!Nth
  <2>1. t = [i \in 1..A!Cardinality(chg) |->
               CHOOSE u \in chg : A!Cardinality({v \in chg : v <= u}) = i]
    BY <1>4, <2>0
  <2>2. A!Attachments(st) = [i \in DOMAIN t |-> [time |-> t[i], sat |-> access[st][t[i]]]]
    BY <2>1 DEF A!Attachments
  <2> QED BY <2>2
<1> HIDE DEF chg, n
<1>6. /\ \A i \in 1..n : R!Nth(chg, i) \in chg
      /\ \A i, j \in 1..n : i < j => R!Nth(chg, i) < R!Nth(chg, j)
      /\ \A t \in chg : \E i \in 1..n : R!Nth(chg, i) = t
  BY <1>2, <1>3, NthOrders DEF n
<1>7. Len(A!Attachments(st)) = n
  BY <1>3, <1>5
<1> QED BY <1>1, <1>3, <1>5, <1>6, <1>7 DEF chg

\* The search ends at the entry behind the present one.
LEMMA SearchNext ==
  ASSUME Setting, NEW st \in A!Station, OnSchedule(st), idx[st] <= Len(A!Attachments(st))
  PROVE  A!FirstNotBefore(A!Attachments(st), idx[st], time + 1) = idx[st] + 1
<1> DEFINE att == A!Attachments(st)
           c == idx[st]
           Ends(j) == /\ j <= Len(att) => time + 1 <= att[j].time
                      /\ \A i \in c..j-1 : att[i].time < time + 1
<1>1. Len(att) \in Nat /\ \A i \in 1..Len(att) : att[i].time \in Nat
  BY EntriesOfStation DEF Setting
<1>2. /\ c \in 1..Len(att) /\ time \in Nat
      /\ \A i \in 1..Len(att) : att[i].time <= time <=> i <= c
  BY DEF OnSchedule, Setting
<1>3. A!FirstNotBefore(att, c, time + 1) = CHOOSE j \in c..Len(att)+1 : Ends(j)
  BY DEF A!FirstNotBefore
<1> HIDE DEF att, c
<1>4. c+1 \in c..Len(att)+1 /\ Ends(c+1)
  <2>1. \A i \in c..c : i = c
    BY <1>2
  <2>2. c+1 <= Len(att) => time + 1 <= att[c+1].time
    <3> SUFFICES ASSUME c+1 <= Len(att) PROVE time + 1 <= att[c+1].time
      OBVIOUS
    <3>1. c+1 \in 1..Len(att) /\ ~ (c+1 <= c)
      BY <1>1, <1>2
    <3>2. ~ (att[c+1].time <= time) /\ att[c+1].time \in Nat
      BY <1>1, <1>2, <3>1
    <3> QED BY <1>2, <3>2
  <2>3. att[c].time < time + 1
    BY <1>1, <1>2
  <2> QED BY <1>1, <1>2, <2>1, <2>2, <2>3
<1>5. \A j \in c..Len(att)+1 : Ends(j) => j = c+1
  <2> SUFFICES ASSUME NEW j \in c..Len(att)+1, Ends(j), j # c+1
               PROVE  FALSE
    OBVIOUS
  <2>1. CASE j = c
    BY <1>1, <1>2, <2>1
  <2>2. CASE j > c+1
    <3>1. c+1 \in c..j-1 /\ c+1 \in 1..Len(att) /\ ~ (c+1 <= c)
      BY <1>1, <1>2, <2>2
    <3>2. att[c+1].time < time + 1 /\ ~ (att[c+1].time <= time)
      BY <1>2, <3>1
    <3> QED BY <1>1, <1>2, <3>1, <3>2
  <2> QED BY <1>1, <1>2, <2>1, <2>2
<1> HIDE DEF Ends
<1>6. A!FirstNotBefore(att, c, time + 1) = c+1
  BY <1>3, <1>4, <1>5
<1> QED BY <1>6 DEF att, c

\* What is predicted: a handover if and only if the schedule has a change.
LEMMA PredictsNext ==
  ASSUME Setting, NEW st \in A!Station, OnSchedule(st)
  PROVE  LET att == A!Attachments(st)
             p == A!Prediction(st, time + 1)
         IN  \/ /\ time + 1 \in A!Changes(access[st]) /\ idx[st] < Len(att)
                /\ att[idx[st]+1].time = time + 1
                /\ p = [idx |-> idx[st]+1, lastIdx |-> idx[st], handover |-> TRUE]
             \/ /\ time + 1 \notin A!Changes(access[st]) /\ idx[st] < Len(att)
                /\ att[idx[st]+1].time > time + 1
                /\ p = [idx |-> idx[st], lastIdx |-> lastIdx[st], handover |-> FALSE]
             \/ /\ time + 1 \notin A!Changes(access[st]) /\ idx[st] >= Len(att)
                /\ p = [idx |-> Len(att)+1, lastIdx |-> lastIdx[st], handover |-> FALSE]
<1> DEFINE att == A!Attachments(st)
           chg == A!Changes(access[st])
           c == idx[st]
           p == A!Prediction(st, time + 1)
<1>1. /\ Len(att) \in Nat /\ chg \subseteq Nat
      /\ \A i \in 1..Len(att) : att[i].time \in chg /\ att[i].time \in Nat
      /\ \A i, j \in 1..Len(att) : i < j => att[i].time < att[j].time
      /\ \A t \in chg : \E i \in 1..Len(att) : att[i].time = t
  BY EntriesOfStation
<1>2. /\ c \in 1..Len(att)+1 /\ time \in Nat
      /\ \A i \in 1..Len(att) : att[i].time <= time <=> i <= c
  BY DEF OnSchedule, Setting
<1>3. c <= Len(att) => A!FirstNotBefore(att, c, time + 1) = c+1
  BY SearchNext
<1>4. p = LET j == A!FirstNotBefore(att, c, time + 1)
              stay == [idx |-> c, lastIdx |-> lastIdx[st], handover |-> FALSE]
              to(i) == [idx |-> i, lastIdx |-> c, handover |-> TRUE]
          IN  IF c > Len(att) \/ j = c THEN stay
              ELSE IF j > Len(att) THEN [stay EXCEPT !.idx = j]
              ELSE IF att[j].time = time + 1 THEN to(j)
              ELSE IF j - 1 = c THEN stay ELSE to(j - 1)
  BY DEF A!Prediction
<1> HIDE DEF att, chg, c, p
<1>5. CASE c < Len(att)
  <2>1. c+1 \in 1..Len(att) /\ att[c+1].time \in Nat /\ ~ (att[c+1].time <= time)
    BY <1>1, <1>2, <1>5
  <2>2. p = IF att[c+1].time = time + 1
            THEN [idx |-> c+1, lastIdx |-> c, handover |-> TRUE]
            ELSE [idx |-> c, lastIdx |-> lastIdx[st], handover |-> FALSE]
    <3>1. A!FirstNotBefore(att, c, time + 1) = c+1 /\ ~ (c > Len(att)) /\ c+1 # c
      BY <1>1, <1>2, <1>3, <1>5
    <3>2. ~ (c+1 > Len(att)) /\ (c+1)-1 = c
      BY <1>1, <1>2, <1>5
    <3> QED BY <1>4, <3>1, <3>2
  <2>3. CASE att[c+1].time = time + 1
    BY <1>1, <1>2, <1>5, <2>1, <2>2, <2>3 DEF att, chg, c, p
  <2>4. CASE att[c+1].time # time + 1
    <3>1. time + 1 \notin chg
      <4> SUFFICES ASSUME time + 1 \in chg PROVE FALSE
        OBVIOUS
      <4>1. PICK i \in 1..Len(att) : att[i].time = time + 1
        BY <1>1
      <4>2. i > c+1
        BY <1>1, <1>2, <2>4, <4>1
      <4>3. att[c+1].time < time + 1
        BY <2>1, <4>1, <4>2, <1>1
      <4> QED BY <1>2, <2>1, <4>3
    <3>2. att[c+1].time > time + 1
      BY <1>2, <2>1, <2>4
    <3> QED BY <1>5, <2>2, <2>4, <3>1, <3>2 DEF att, chg, c, p
  <2> QED BY <2>3, <2>4
<1>6. CASE c >= Len(att)
  <2>1. time + 1 \notin chg
    <3> SUFFICES ASSUME time + 1 \in chg PROVE FALSE
      OBVIOUS
    <3>1. PICK i \in 1..Len(att) : att[i].time = time + 1
      BY <1>1
    <3>2. i <= c
      BY <1>1, <1>2, <1>6
    <3> QED BY <1>2, <3>1, <3>2
  <2>2. p = [idx |-> Len(att)+1, lastIdx |-> lastIdx[st], handover |-> FALSE]
    <3>1. CASE c = Len(att)
      <4>1. A!FirstNotBefore(att, c, time + 1) = c+1 /\ ~ (c > Len(att)) /\ c+1 # c
        BY <1>1, <1>2, <1>3, <3>1
      <4>2. c+1 > Len(att)
        BY <1>1, <3>1
      <4>3. p = [[idx |-> c, lastIdx |-> lastIdx[st], handover |-> FALSE] EXCEPT !.idx = c+1]
        BY <1>4, <4>1, <4>2
      <4> QED BY <3>1, <4>3
    <3>2. CASE c = Len(att)+1
      BY <1>1, <1>2, <1>4, <3>2
    <3> QED BY <1>1, <1>2, <1>6, <3>1, <3>2
  <2> QED BY <1>6, <2>1, <2>2 DEF att, chg, c, p
<1> QED BY <1>1, <1>2, <1>5, <1>6

\* The satellites before and after an epoch, and those of the next one.
LEMMA Satellites ==
  ASSUME Setting, NEW st \in A!Station, time' = time + 1, access' = access
  PROVE  /\ Have(st) \in Sat \cup {Gap} /\ Will(st) \in Sat \cup {Gap}
         /\ Have(st)' = Will(st)
         /\ time + 1 \in A!Changes(access[st]) => Will(st)' = access[st][time + 1]
         /\ time + 1 \notin A!Changes(access[st]) => Will(st)' = Will(st)
         /\ time > 0 /\ time \notin A!Changes(access[st]) => Will(st) = Have(st)
<1>1. /\ access[st] \in [0..EndTime -> Sat \cup {Gap}] /\ EndTime \in Nat /\ time \in Nat
      /\ A!Epoch = 0..EndTime
  BY DEF Setting, A!Epoch
<1>2. \A t : t \in A!Changes(access[st]) <=>
               t \in 0..EndTime /\ (t = 0 \/ access[st][t] # access[st][t-1])
  BY <1>1 DEF A!Changes
<1>3. \A t \in Nat : SatOf(st, t) \in Sat \cup {Gap}
  BY <1>1 DEF SatOf
<1>4. Have(st) \in Sat \cup {Gap} /\ Will(st) \in Sat \cup {Gap}
  BY <1>1, <1>3 DEF Have, Will
<1>5. Have(st)' = Will(st)
  BY <1>1 DEF Have, Will, SatOf
<1>6. time + 1 \in A!Changes(access[st]) => Will(st)' = access[st][time + 1]
  BY <1>1, <1>2 DEF Will, SatOf
<1>7. time + 1 \notin A!Changes(access[st]) => Will(st)' = Will(st)
  <2>1. CASE time + 1 <= EndTime
    BY <1>1, <1>2, <2>1 DEF Will, SatOf
  <2>2. CASE time >= EndTime
    BY <1>1, <2>2 DEF Will, SatOf
  <2> QED BY <1>1, <2>1, <2>2
<1>8. time > 0 /\ time \notin A!Changes(access[st]) => Will(st) = Have(st)
  <2>1. CASE time <= EndTime
    <3> SUFFICES ASSUME time > 0, time \notin A!Changes(access[st])
                 PROVE  Will(st) = Have(st)
      OBVIOUS
    <3>1. access[st][time] = access[st][time-1] /\ time # 0 /\ time - 1 <= EndTime
      <4>1. time \in 0..EndTime /\ time # 0 /\ time - 1 <= EndTime
        BY <1>1, <2>1
      <4>2. access[st][time] = access[st][time-1]
        BY <1>2, <4>1
      <4> QED BY <4>1, <4>2
    <3> QED BY <2>1, <3>1 DEF Will, Have, SatOf
  <2>2. CASE time > EndTime
    BY <1>1, <2>2 DEF Will, Have, SatOf
  <2> QED BY <1>1, <2>1, <2>2
<1> QED BY <1>4, <1>5, <1>6, <1>7, <1>8

\* Update keeps every station on schedule.
LEMMA OnScheduleNext ==
  ASSUME Setting, A!Update, NEW st \in A!Station, OnSchedule(st)
  PROVE  OnSchedule(st)'
<1> DEFINE att == A!Attachments(st)
           chg == A!Changes(access[st])
           c == idx[st]
           p == A!Prediction(st, time + 1)
<1>1. /\ time' = time + 1 /\ access' = access
      /\ idx'[st] = p.idx /\ lastIdx'[st] = p.lastIdx /\ handover'[st] = p.handover
  BY DEF A!Update, Setting
<1>2. att' = att /\ chg' = chg /\ A!Changes(access'[st]) = chg
  BY <1>1 DEF A!Attachments, A!Changes
<1>3. /\ Len(att) \in Nat /\ chg \subseteq Nat
      /\ \A i \in 1..Len(att) : att[i].time \in chg /\ att[i].time \in Nat
      /\ \A i \in 1..Len(att) : att[i].sat = access[st][att[i].time]
      /\ \A i, j \in 1..Len(att) : i < j => att[i].time < att[j].time
  BY EntriesOfStation
<1>4. /\ c \in 1..Len(att)+1 /\ time \in Nat
      /\ \A i \in 1..Len(att) : att[i].time <= time <=> i <= c
      /\ c <= Len(att) => att[c].sat = Will(st)
  BY DEF OnSchedule, Setting
<1>5. /\ Have(st)' = Will(st)
      /\ time + 1 \in chg => Will(st)' = access[st][time + 1]
      /\ time + 1 \notin chg => Will(st)' = Will(st)
  BY <1>1, Satellites
<1>6. \/ /\ time + 1 \in chg /\ c < Len(att) /\ att[c+1].time = time + 1
         /\ p = [idx |-> c+1, lastIdx |-> c, handover |-> TRUE]
      \/ /\ time + 1 \notin chg /\ c < Len(att) /\ att[c+1].time > time + 1
         /\ p = [idx |-> c, lastIdx |-> lastIdx[st], handover |-> FALSE]
      \/ /\ time + 1 \notin chg /\ c >= Len(att)
         /\ p = [idx |-> Len(att)+1, lastIdx |-> lastIdx[st], handover |-> FALSE]
  BY PredictsNext
<1> SUFFICES /\ idx'[st] \in 1..Len(att)+1
             /\ \A i \in 1..Len(att) : att[i].time <= time + 1 <=> i <= idx'[st]
             /\ idx'[st] <= Len(att) => att[idx'[st]].sat = Will(st)'
             /\ handover'[st] \in BOOLEAN /\ (handover'[st] <=> time + 1 \in chg)
             /\ handover'[st] => /\ idx'[st] <= Len(att) /\ lastIdx'[st] \in 1..Len(att)
                                 /\ att[lastIdx'[st]].sat = Have(st)'
  <2>1. time' # 0 /\ time' > 0
    BY <1>1, <1>4
  <2> QED BY <1>1, <1>2, <2>1 DEF OnSchedule
<1> HIDE DEF att, chg, c, p
<1>7. CASE /\ time + 1 \in chg /\ c < Len(att) /\ att[c+1].time = time + 1
           /\ p = [idx |-> c+1, lastIdx |-> c, handover |-> TRUE]
  <2>1. c+1 \in 1..Len(att) /\ c \in 1..Len(att)
    BY <1>3, <1>4, <1>7
  <2>2. idx'[st] = c+1 /\ lastIdx'[st] = c /\ handover'[st] = TRUE
    BY <1>1, <1>7
  <2>3. ASSUME NEW i \in 1..Len(att)
        PROVE  att[i].time <= time + 1 <=> i <= c+1
    <3>0. i \in Nat /\ c \in Nat /\ att[i].time \in Nat /\ time \in Nat
      BY <1>3, <1>4
    <3>1. CASE i <= c
      <4>1. att[i].time <= time
        BY <1>4, <3>1
      <4> QED BY <3>0, <3>1, <4>1
    <3>2. CASE i = c+1
      BY <1>7, <3>0, <3>2
    <3>3. CASE i > c+1
      <4>1. att[c+1].time < att[i].time
        BY <1>3, <2>1, <3>3
      <4> QED BY <1>7, <3>0, <3>3, <4>1
    <3> QED BY <3>0, <3>1, <3>2, <3>3
  <2>4. att[c+1].sat = access[st][time + 1] /\ att[c].sat = Will(st)
    BY <1>3, <1>4, <1>7, <2>1
  <2>5. c+1 \in 1..Len(att)+1 /\ c+1 <= Len(att)
    BY <1>3, <2>1
  <2>6. att[c+1].sat = Will(st)' /\ att[c].sat = Have(st)'
    BY <1>5, <1>7, <2>4
  <2> QED BY <1>7, <2>1, <2>2, <2>3, <2>5, <2>6
<1>8. CASE /\ time + 1 \notin chg /\ c < Len(att) /\ att[c+1].time > time + 1
           /\ p = [idx |-> c, lastIdx |-> lastIdx[st], handover |-> FALSE]
  <2>1. c \in 1..Len(att) /\ idx'[st] = c /\ handover'[st] = FALSE
    BY <1>1, <1>3, <1>4, <1>8
  <2>2. ASSUME NEW i \in 1..Len(att)
        PROVE  att[i].time <= time + 1 <=> i <= c
    <3>0. i \in Nat /\ c \in Nat /\ att[i].time \in Nat /\ time \in Nat
      BY <1>3, <1>4
    <3>1. att[i].time # time + 1
      BY <1>3, <1>8
    <3>2. att[i].time <= time + 1 <=> att[i].time <= time
      BY <3>0, <3>1
    <3> QED BY <1>4, <3>2
  <2>3. c \in 1..Len(att)+1 /\ att[c].sat = Will(st)'
    BY <1>3, <1>4, <1>5, <1>8, <2>1
  <2>4. handover'[st] \in BOOLEAN /\ ~ handover'[st] /\ (handover'[st] <=> time + 1 \in chg)
    BY <1>8, <2>1
  <2>5. \A i \in 1..Len(att) : att[i].time <= time + 1 <=> i <= idx'[st]
    BY <2>1, <2>2
  <2> QED BY <2>1, <2>3, <2>4, <2>5
<1>9. CASE /\ time + 1 \notin chg /\ c >= Len(att)
           /\ p = [idx |-> Len(att)+1, lastIdx |-> lastIdx[st], handover |-> FALSE]
  <2>1. idx'[st] = Len(att)+1 /\ handover'[st] = FALSE
    BY <1>1, <1>9
  <2>2. ASSUME NEW i \in 1..Len(att)
        PROVE  att[i].time <= time + 1 /\ i <= Len(att)+1
    <3>0. i \in Nat /\ c \in Nat /\ att[i].time \in Nat /\ time \in Nat /\ i <= Len(att)
      BY <1>3, <1>4
    <3>1. i <= c
      BY <1>3, <1>9, <3>0
    <3>2. att[i].time <= time
      BY <1>4, <3>1
    <3> QED BY <1>3, <3>0, <3>2
  <2>3. Len(att)+1 \in 1..Len(att)+1 /\ ~ (Len(att)+1 <= Len(att))
    BY <1>3
  <2>4. handover'[st] \in BOOLEAN /\ ~ handover'[st] /\ (handover'[st] <=> time + 1 \in chg)
    BY <1>9, <2>1
  <2>5. \A i \in 1..Len(att) : att[i].time <= time + 1 <=> i <= idx'[st]
    BY <2>1, <2>2
  <2> QED BY <2>1, <2>3, <2>4, <2>5
<1> QED BY <1>6, <1>7, <1>8, <1>9

----------------------------------------------------------------------------
(* What one station does to the network.                                   *)

\* The link of a station that has satellite s, and the route to it.
Linked(n, st, s) ==
  LET id == n.device[st]
  IN  /\ s = Gap => id = Null
      /\ s # Gap => /\ id \in 1..Len(n.links) /\ n.links[id] = <<st, s>>
                    /\ id \notin n.goneSt \cup n.goneSat
                    /\ n.device[s] = id
      /\ {r \in n.routes : r[2] = st} =
           IF A!HasPrefix(st) /\ s # Gap THEN {<<s, st, id>>} ELSE {}

\* The times at which a station requested a tunnel.
Asked(n, st) == {t \in Nat : \E id \in 1..Len(n.links) : <<st, id, t>> \in n.requests}

\* Faces that are gone, and requests, are of links that have been made.
WellFormed(n) ==
  /\ n \in A!Network /\ ~n.aborted
  /\ n.goneSt \cup n.goneSat \subseteq 1..Len(n.links)
  /\ \A q \in n.requests : q[2] \in 1..Len(n.links)

\* The fields of a network.
LEMMA NetworkFields ==
  ASSUME NEW n \in A!Network
  PROVE  /\ n.links \in Seq(A!Station \X Sat) /\ Len(n.links) \in Nat
         /\ DOMAIN n.links = 1..Len(n.links)
         /\ n.device \in [A!Station \cup Sat -> Nat \cup {Null}]
         /\ n.goneSt \in SUBSET Nat /\ n.goneSat \in SUBSET Nat
         /\ n.routes \in SUBSET (Sat \X A!Station \X Nat)
         /\ n.requests \in SUBSET (A!Station \X Nat \X Nat) /\ n.aborted \in BOOLEAN
         /\ n = [links |-> n.links, device |-> n.device, goneSt |-> n.goneSt,
                 goneSat |-> n.goneSat, routes |-> n.routes, requests |-> n.requests,
                 aborted |-> n.aborted]
<1>1. /\ n.links \in Seq(A!Station \X Sat)
      /\ n.device \in [A!Station \cup Sat -> Nat \cup {Null}]
      /\ n.goneSt \in SUBSET Nat /\ n.goneSat \in SUBSET Nat
      /\ n.routes \in SUBSET (Sat \X A!Station \X Nat)
      /\ n.requests \in SUBSET (A!Station \X Nat \X Nat) /\ n.aborted \in BOOLEAN
      /\ n = [links |-> n.links, device |-> n.device, goneSt |-> n.goneSt,
              goneSat |-> n.goneSat, routes |-> n.routes, requests |-> n.requests,
              aborted |-> n.aborted]
  BY DEF A!Network
<1> QED BY <1>1

\* Stations, satellites and Null are different.
LEMMA Names ==
  /\ Gap \notin Sat /\ Null \notin Nat /\ Sat \cap A!Station = {}
BY UpdateAssumption DEF A!StationAssumption

\* Detach takes the link of the station, and no other.
LEMMA DetachTakes ==
  ASSUME NEW n, WellFormed(n), NEW st \in A!Station, NEW s \in Sat, Linked(n, st, s)
  PROVE  LET m == A!Detach(n, st, s)
         IN  /\ WellFormed(m) /\ Linked(m, st, Gap)
             /\ \A u \in A!Station : Asked(m, u) = Asked(n, u)
             /\ \A u \in A!Station \ {st}, w \in Sat \cup {Gap} :
                  w # s /\ Linked(n, u, w) => Linked(m, u, w)
<1> DEFINE m == A!Detach(n, st, s)
           id == n.device[st]
<1>1. /\ n \in A!Network /\ ~n.aborted
      /\ n.goneSt \cup n.goneSat \subseteq 1..Len(n.links)
      /\ \A q \in n.requests : q[2] \in 1..Len(n.links)
  BY DEF WellFormed
<1>2. /\ n.links \in Seq(A!Station \X Sat) /\ Len(n.links) \in Nat
      /\ n.device \in [A!Station \cup Sat -> Nat \cup {Null}]
      /\ n.goneSt \in SUBSET Nat /\ n.goneSat \in SUBSET Nat
      /\ n.routes \in SUBSET (Sat \X A!Station \X Nat)
      /\ n.requests \in SUBSET (A!Station \X Nat \X Nat) /\ n.aborted \in BOOLEAN
      /\ n = [links |-> n.links, device |-> n.device, goneSt |-> n.goneSt,
              goneSat |-> n.goneSat, routes |-> n.routes, requests |-> n.requests,
              aborted |-> n.aborted]
  BY <1>1, NetworkFields
<1>3. /\ id \in 1..Len(n.links) /\ n.links[id] = <<st, s>> /\ n.device[s] = id
      /\ id \in Nat /\ id # Null
      /\ {r \in n.routes : r[2] = st} = IF A!HasPrefix(st) THEN {<<s, st, id>>} ELSE {}
  <2>1. s # Gap
    BY Names
  <2> QED BY <1>2, <2>1, Names DEF Linked
<1>4. m = [n EXCEPT !.goneSt = @ \cup {id}, !.goneSat = @ \cup {id},
                    !.routes = @ \ {<<s, st, id>>},
                    !.device = [@ EXCEPT ![st] = Null, ![s] = Null]]
  BY <1>3 DEF A!Detach
<1>5. /\ m.links = n.links /\ m.requests = n.requests /\ m.aborted = n.aborted
      /\ m.goneSt = n.goneSt \cup {id} /\ m.goneSat = n.goneSat \cup {id}
      /\ m.routes = n.routes \ {<<s, st, id>>}
      /\ m.device = [n.device EXCEPT ![st] = Null, ![s] = Null]
      /\ m = [links |-> m.links, device |-> m.device, goneSt |-> m.goneSt,
              goneSat |-> m.goneSat, routes |-> m.routes, requests |-> m.requests,
              aborted |-> m.aborted]
  BY <1>2, <1>4
<1> HIDE DEF m, id
<1>6. WellFormed(m)
  <2>1. m.device \in [A!Station \cup Sat -> Nat \cup {Null}]
    BY <1>2, <1>5
  <2>2. m \in A!Network
    BY <1>2, <1>3, <1>5, <2>1 DEF A!Network
  <2> QED BY <1>1, <1>3, <1>5, <2>2 DEF WellFormed
<1>7. Linked(m, st, Gap)
  <2>1. m.device[st] = Null
    BY <1>2, <1>5
  <2>2. {r \in m.routes : r[2] = st} = {}
    BY <1>3, <1>5
  <2> QED BY <2>1, <2>2 DEF Linked
<1>8. \A u \in A!Station : Asked(m, u) = Asked(n, u)
  BY <1>5 DEF Asked
<1>9. ASSUME NEW u \in A!Station \ {st}, NEW w \in Sat \cup {Gap}, w # s, Linked(n, u, w)
      PROVE  Linked(m, u, w)
  <2>1. m.device[u] = n.device[u] /\ (w # Gap => m.device[w] = n.device[w])
    BY <1>2, <1>5, <1>9, Names
  <2>2. {r \in m.routes : r[2] = u} = {r \in n.routes : r[2] = u}
    <3>1. <<s, st, id>>[2] # u
      BY <1>9
    <3> QED BY <1>5, <3>1
  <2>3. w # Gap => n.device[u] # id
    <3> SUFFICES ASSUME w # Gap, n.device[u] = id PROVE FALSE
      OBVIOUS
    <3>1. <<u, w>> = <<st, s>>
      BY <1>3, <1>9 DEF Linked
    <3> QED BY <3>1, <1>9
  <2> QED BY <1>5, <1>9, <2>1, <2>2, <2>3 DEF Linked
<1> QED BY <1>6, <1>7, <1>8, <1>9 DEF m

\* Connect gives the station a link, and takes none from another.
LEMMA ConnectGives ==
  ASSUME NEW n, WellFormed(n), time \in Nat, NEW st \in A!Station, NEW s \in Sat,
         Linked(n, st, Gap), NEW old \in 1..Len(n.links) \cup {Null}
  PROVE  LET m == A!Connect(n, st, s, old)
         IN  /\ WellFormed(m) /\ Linked(m, st, s)
             /\ Role[st] = "consumer" =>
                  Asked(m, st) = IF old = Null THEN Asked(n, st) ELSE Asked(n, st) \cup {time}
             /\ \A u \in A!Station \ {st} : Asked(m, u) = Asked(n, u)
             /\ \A u \in A!Station \ {st}, w \in Sat \cup {Gap} :
                  w # s /\ Linked(n, u, w) => Linked(m, u, w)
<1> DEFINE m == A!Connect(n, st, s, old)
           id == Len(n.links) + 1
           asks == old # Null /\ Role[st] \in {"consumer", "m_producer"}
<1>1. /\ n \in A!Network /\ ~n.aborted
      /\ n.goneSt \cup n.goneSat \subseteq 1..Len(n.links)
      /\ \A q \in n.requests : q[2] \in 1..Len(n.links)
  BY DEF WellFormed
<1>2. /\ n.links \in Seq(A!Station \X Sat) /\ Len(n.links) \in Nat
      /\ n.device \in [A!Station \cup Sat -> Nat \cup {Null}]
      /\ n.goneSt \in SUBSET Nat /\ n.goneSat \in SUBSET Nat
      /\ n.routes \in SUBSET (Sat \X A!Station \X Nat)
      /\ n.requests \in SUBSET (A!Station \X Nat \X Nat) /\ n.aborted \in BOOLEAN
      /\ n = [links |-> n.links, device |-> n.device, goneSt |-> n.goneSt,
              goneSat |-> n.goneSat, routes |-> n.routes, requests |-> n.requests,
              aborted |-> n.aborted]
  BY <1>1, NetworkFields
<1>3. n.device[st] = Null /\ {r \in n.routes : r[2] = st} = {}
  BY DEF Linked
<1>4. /\ m.links = Append(n.links, <<st, s>>) /\ m.aborted = n.aborted
      /\ m.goneSt = n.goneSt /\ m.goneSat = n.goneSat
      /\ m.routes = IF A!HasPrefix(st) THEN n.routes \cup {<<s, st, id>>} ELSE n.routes
      /\ m.requests = IF asks THEN n.requests \cup {<<st, old, time>>} ELSE n.requests
      /\ m.device = [n.device EXCEPT ![st] = id, ![s] = id]
      /\ m = [links |-> m.links, device |-> m.device, goneSt |-> m.goneSt,
              goneSat |-> m.goneSat, routes |-> m.routes, requests |-> m.requests,
              aborted |-> m.aborted]
  <2>1. m = [n EXCEPT !.links = Append(@, <<st, s>>),
                      !.device = [@ EXCEPT ![st] = id, ![s] = id],
                      !.routes = IF A!HasPrefix(st) THEN @ \cup {<<s, st, id>>} ELSE @,
                      !.requests = IF asks THEN @ \cup {<<st, old, time>>} ELSE @]
    BY DEF A!Connect
  <2> QED BY <1>2, <2>1
<1> HIDE DEF m, id
<1>5. /\ Len(m.links) = id /\ id \in Nat /\ id = Len(n.links) + 1
      /\ m.links[id] = <<st, s>> /\ m.links \in Seq(A!Station \X Sat)
      /\ \A i \in 1..Len(n.links) : m.links[i] = n.links[i] /\ i # id
      /\ 1..Len(n.links) \subseteq 1..Len(m.links)
  BY <1>2, <1>4 DEF id
<1>6. asks => old \in 1..Len(n.links) /\ old \in Nat
  BY <1>2
<1>7. WellFormed(m)
  <2>1. m.device \in [A!Station \cup Sat -> Nat \cup {Null}]
    BY <1>2, <1>4, <1>5
  <2>2. m.routes \in SUBSET (Sat \X A!Station \X Nat)
    BY <1>2, <1>4, <1>5
  <2>3. m.requests \in SUBSET (A!Station \X Nat \X Nat)
    BY <1>2, <1>4, <1>6
  <2>4. m \in A!Network
    BY <1>2, <1>4, <1>5, <2>1, <2>2, <2>3 DEF A!Network
  <2>5. \A q \in m.requests : q[2] \in 1..Len(m.links)
    <3> SUFFICES ASSUME NEW q \in m.requests PROVE q[2] \in 1..Len(n.links)
      BY <1>5
    <3>1. q \in n.requests \/ (asks /\ q = <<st, old, time>>)
      BY <1>4
    <3> QED BY <1>1, <1>6, <3>1
  <2> QED BY <1>1, <1>4, <1>5, <2>4, <2>5 DEF WellFormed
<1>8. Linked(m, st, s)
  <2>1. m.device[st] = id /\ m.device[s] = id
    BY <1>2, <1>4, Names
  <2>2. id \notin m.goneSt \cup m.goneSat /\ id \in 1..Len(m.links)
    BY <1>1, <1>2, <1>4, <1>5
  <2>3. {r \in m.routes : r[2] = st} = IF A!HasPrefix(st) THEN {<<s, st, id>>} ELSE {}
    BY <1>3, <1>4
  <2> QED BY <1>5, <2>1, <2>2, <2>3, Names DEF Linked
<1>9. \A u \in A!Station, t \in Nat :
        t \in Asked(m, u) <=> t \in Asked(n, u) \/ (asks /\ u = st /\ t = time)
  <2> SUFFICES ASSUME NEW u \in A!Station, NEW t \in Nat
               PROVE  t \in Asked(m, u) <=> t \in Asked(n, u) \/ (asks /\ u = st /\ t = time)
    OBVIOUS
  <2>1. ASSUME t \in Asked(m, u)
        PROVE  t \in Asked(n, u) \/ (asks /\ u = st /\ t = time)
    <3>1. PICK i \in 1..Len(m.links) : <<u, i, t>> \in m.requests
      BY <2>1 DEF Asked
    <3>2. <<u, i, t>> \in n.requests \/ (asks /\ <<u, i, t>> = <<st, old, time>>)
      BY <1>4, <3>1
    <3>3. CASE <<u, i, t>> \in n.requests
      <4>1. <<u, i, t>>[2] \in 1..Len(n.links)
        BY <1>1, <3>3
      <4>2. i \in 1..Len(n.links)
        BY <4>1
      <4> QED BY <3>3, <4>2 DEF Asked
    <3> QED BY <3>2, <3>3
  <2>2. ASSUME t \in Asked(n, u)
        PROVE  t \in Asked(m, u)
    <3>1. PICK i \in 1..Len(n.links) : <<u, i, t>> \in n.requests
      BY <2>2 DEF Asked
    <3>2. i \in 1..Len(m.links) /\ <<u, i, t>> \in m.requests
      BY <1>4, <1>5, <3>1
    <3> QED BY <3>2 DEF Asked
  <2>3. ASSUME asks, u = st, t = time
        PROVE  t \in Asked(m, u)
    <3>1. old \in 1..Len(m.links) /\ <<u, old, t>> \in m.requests
      BY <1>4, <1>5, <1>6, <2>3
    <3> QED BY <3>1 DEF Asked
  <2> QED BY <2>1, <2>2, <2>3
<1>10. \A u \in A!Station : Asked(m, u) \in SUBSET Nat /\ Asked(n, u) \in SUBSET Nat
  BY DEF Asked
<1>11. Role[st] = "consumer" =>
         Asked(m, st) = IF old = Null THEN Asked(n, st) ELSE Asked(n, st) \cup {time}
  BY <1>9, <1>10
<1>12. \A u \in A!Station \ {st} : Asked(m, u) = Asked(n, u)
  BY <1>9, <1>10
<1>13. ASSUME NEW u \in A!Station \ {st}, NEW w \in Sat \cup {Gap}, w # s, Linked(n, u, w)
       PROVE  Linked(m, u, w)
  <2>1. m.device[u] = n.device[u] /\ (w # Gap => m.device[w] = n.device[w])
    BY <1>2, <1>4, <1>13, Names
  <2>2. {r \in m.routes : r[2] = u} = {r \in n.routes : r[2] = u}
    <3>1. <<s, st, id>>[2] # u
      BY <1>13
    <3> QED BY <1>4, <3>1
  <2> QED BY <1>4, <1>5, <1>13, <2>1, <2>2 DEF Linked
<1> QED BY <1>7, <1>8, <1>11, <1>12, <1>13 DEF m

----------------------------------------------------------------------------
(* One Update: the stations one after the other.                           *)

\* No two stations meet at a satellite's only slot: they do not have the same
\* satellite at a time, and none gets the one that a station behind it in the
\* order is about to leave.
Apart ==
  \A i, j \in DOMAIN StationOrder, t \in A!Epoch :
    LET s == access[StationOrder[i]][t]
    IN  i # j /\ s # Gap =>
          /\ s # access[StationOrder[j]][t]
          /\ i < j /\ t > 0 => s # access[StationOrder[j]][t-1]

\* A change from satellite to satellite, at which a tunnel is requested.
Changes(st, t) ==
  /\ t \in 1..EndTime /\ access[st][t] # access[st][t-1]
  /\ access[st][t] # Gap /\ access[st][t-1] # Gap

\* In the midst of Update, when the stations of done have been treated.
Has(st, done) == IF st \in done THEN Will(st) ELSE Have(st)
AskedBy(st, done) == {t \in Nat : Changes(st, t) /\ (t < time \/ (t = time /\ st \in done))}

InUpdate(n, done) ==
  /\ WellFormed(n)
  /\ \A st \in A!Station : Linked(n, st, Has(st, done))
  /\ \A st \in A!Station : Role[st] = "consumer" => Asked(n, st) = AskedBy(st, done)

\* What one station changes: nothing, unless it is to have another satellite.
LEMMA StationMoves ==
  ASSUME Setting, NEW st \in A!Station, OnSchedule(st), NEW n, WellFormed(n),
         Linked(n, st, Have(st))
  PROVE  LET m == A!Attach(n, st)
             old == n.device[st]
             left == A!Detach(n, st, Have(st))
         IN  \/ Will(st) = Have(st) /\ ~handover[st] /\ m = n
             \/ /\ handover[st] /\ Have(st) = Gap /\ Will(st) = Gap /\ m = n
             \/ /\ time = 0 \/ handover[st]
                /\ Have(st) = Gap /\ Will(st) \in Sat /\ m = A!Connect(n, st, Will(st), Null)
             \/ /\ handover[st] /\ Have(st) \in Sat /\ Will(st) = Gap /\ m = left
             \/ /\ handover[st] /\ Have(st) \in Sat /\ Will(st) \in Sat
                /\ m = A!Connect(left, st, Will(st), old)
<1> DEFINE att == A!Attachments(st)
           c == idx[st]
           leaves == handover[st] /\ n.device[st] # Null
           detached == IF leaves THEN A!Detach(n, st, att[lastIdx[st]].sat) ELSE n
<1>1. /\ Have(st) \in Sat \cup {Gap} /\ Will(st) \in Sat \cup {Gap}
      /\ time > 0 /\ time \notin A!Changes(access[st]) => Will(st) = Have(st)
      /\ time = 0 => Have(st) = Gap
  <2>1. /\ access[st] \in [0..EndTime -> Sat \cup {Gap}] /\ EndTime \in Nat /\ time \in Nat
        /\ A!Epoch = 0..EndTime
    BY DEF Setting, A!Epoch
  <2>2. \A t \in Nat : SatOf(st, t) \in Sat \cup {Gap}
    BY <2>1 DEF SatOf
  <2>3. ASSUME time > 0, time \notin A!Changes(access[st])
        PROVE  Will(st) = Have(st)
    <3>1. CASE time <= EndTime
      <4>1. access[st][time] = access[st][time-1] /\ time # 0 /\ time - 1 <= EndTime
        BY <2>1, <2>3, <3>1 DEF A!Changes
      <4> QED BY <3>1, <4>1 DEF Will, Have, SatOf
    <3>2. CASE time > EndTime
      BY <2>1, <3>2 DEF Will, Have, SatOf
    <3> QED BY <2>1, <3>1, <3>2
  <2> QED BY <2>1, <2>2, <2>3 DEF Have, Will
<1>2. /\ Len(att) \in Nat /\ c \in 1..Len(att)+1
      /\ \A i \in 1..Len(att) : att[i].time <= time <=> i <= c
      /\ c <= Len(att) => att[c].sat = Will(st)
      /\ handover[st] \in BOOLEAN /\ (handover[st] <=> time > 0 /\ time \in A!Changes(access[st]))
      /\ handover[st] => c <= Len(att) /\ att[lastIdx[st]].sat = Have(st)
      /\ time = 0 => c = 1
  BY EntriesOfStation DEF OnSchedule
<1>3. /\ ~n.aborted /\ (n.device[st] = Null <=> Have(st) = Gap)
      /\ time = 0 => 1 <= Len(att)
  <2>1. Have(st) # Gap => n.device[st] \in 1..Len(n.links) /\ n.device[st] # Null
    <3>1. Len(n.links) \in Nat
      BY NetworkFields DEF WellFormed
    <3> QED BY <3>1, Names DEF Linked
  <2>2. 1 <= Len(att)
    <3>1. \E i \in 1..Len(att) : att[i].time = 0
      BY EntriesOfStation
    <3> QED BY <1>2, <3>1
  <2> QED BY <2>1, <2>2 DEF Linked, WellFormed
<1>4. /\ leaves <=> handover[st] /\ Have(st) # Gap
      /\ leaves => detached = A!Detach(n, st, Have(st)) /\ ~detached.aborted
      /\ ~leaves => detached = n
  <2>1. leaves => detached = A!Detach(n, st, Have(st))
    BY <1>2
  <2>2. leaves => WellFormed(A!Detach(n, st, Have(st)))
    BY <1>1, <1>3, DetachTakes
  <2> QED BY <1>3, <2>1, <2>2 DEF WellFormed
<1>5. A!Attach(n, st) =
        IF n.aborted \/ c > Len(att) THEN n
        ELSE IF \/ detached.aborted
                \/ att[c].sat = Gap
                \/ ~handover[st] /\ time > 0
             THEN detached
             ELSE A!Connect(detached, st, att[c].sat, IF leaves THEN n.device[st] ELSE Null)
  BY DEF A!Attach
<1> HIDE DEF att, c, leaves, detached
<1>6. CASE c > Len(att)
  <2>1. ~handover[st] /\ time > 0
    <3>1. time \in Nat
      BY DEF Setting
    <3> QED BY <1>2, <1>3, <1>6, <3>1
  <2> QED BY <1>1, <1>2, <1>5, <1>6, <2>1
<1>7. CASE c <= Len(att) /\ ~handover[st] /\ time > 0
  <2>1. Will(st) = Have(st)
    BY <1>1, <1>2, <1>7
  <2>2. ~leaves /\ ~(c > Len(att))
    BY <1>2, <1>4, <1>7
  <2> QED BY <1>3, <1>4, <1>5, <1>7, <2>1, <2>2
<1>8. CASE c <= Len(att) /\ (handover[st] \/ time = 0)
  <2>1. ~(c > Len(att)) /\ att[c].sat = Will(st) /\ ~(~handover[st] /\ time > 0)
    BY <1>2, <1>8
  <2>2. A!Attach(n, st) = IF Will(st) = Gap THEN detached
                          ELSE A!Connect(detached, st, Will(st),
                                         IF leaves THEN n.device[st] ELSE Null)
    BY <1>3, <1>4, <1>5, <2>1
  <2>3. CASE leaves
    BY <1>1, <1>4, <2>2, <2>3
  <2>4. CASE ~leaves
    <3>1. Have(st) = Gap
      BY <1>1, <1>4, <1>8, <2>4
    <3> QED BY <1>1, <1>2, <1>4, <1>8, <2>2, <2>4, <3>1
  <2> QED BY <2>3, <2>4
<1>9. time \in Nat
  BY DEF Setting
<1> QED BY <1>2, <1>6, <1>7, <1>8, <1>9

\* A station that changes from satellite to satellite has the flag.
LEMMA ChangesNow ==
  ASSUME Setting, NEW st \in A!Station, OnSchedule(st)
  PROVE  Changes(st, time) <=> handover[st] /\ Have(st) \in Sat /\ Will(st) \in Sat
<1>1. /\ access[st] \in [0..EndTime -> Sat \cup {Gap}] /\ EndTime \in Nat /\ time \in Nat
      /\ A!Epoch = 0..EndTime /\ Gap \notin Sat
  BY DEF Setting, A!Epoch
<1>2. handover[st] <=> time > 0 /\ time \in A!Changes(access[st])
  BY DEF OnSchedule
<1>3. time > 0 /\ time \in A!Changes(access[st]) <=>
        time \in 1..EndTime /\ access[st][time] # access[st][time-1]
  BY <1>1 DEF A!Changes
<1>4. ASSUME time \in 1..EndTime
      PROVE  Will(st) = access[st][time] /\ Have(st) = access[st][time-1]
  BY <1>1, <1>4 DEF Will, Have, SatOf
<1>5. ASSUME time \in 1..EndTime
      PROVE  access[st][time] \in Sat \cup {Gap} /\ access[st][time-1] \in Sat \cup {Gap}
  BY <1>1, <1>5
<1>6. CASE time \in 1..EndTime
  BY <1>1, <1>2, <1>3, <1>4, <1>5, <1>6 DEF Changes
<1>7. CASE time \notin 1..EndTime
  BY <1>2, <1>3, <1>7 DEF Changes
<1> QED BY <1>6, <1>7

\* The turn of one station.
LEMMA OneStation ==
  ASSUME Setting, NEW st \in A!Station, OnSchedule(st), NEW done, st \notin done,
         NEW n, InUpdate(n, done),
         \A u \in A!Station \ {st} :
           Has(u, done) # Gap => Has(u, done) # Have(st) /\ Has(u, done) # Will(st)
  PROVE  InUpdate(A!Attach(n, st), done \cup {st})
<1> DEFINE m == A!Attach(n, st)
           left == A!Detach(n, st, Have(st))
           more == done \cup {st}
<1>1. /\ WellFormed(n)
      /\ \A u \in A!Station : Linked(n, u, Has(u, done))
      /\ \A u \in A!Station : Role[u] = "consumer" => Asked(n, u) = AskedBy(u, done)
  BY DEF InUpdate
<1>2. \A u \in A!Station \ {st} : Has(u, more) = Has(u, done) /\ AskedBy(u, more) = AskedBy(u, done)
  BY DEF Has, AskedBy
<1>3. Has(st, done) = Have(st) /\ Has(st, more) = Will(st)
  BY DEF Has
<1>4. /\ Changes(st, time) => AskedBy(st, more) = AskedBy(st, done) \cup {time}
      /\ ~Changes(st, time) => AskedBy(st, more) = AskedBy(st, done)
  <2>1. time \in Nat
    BY DEF Setting
  <2> QED BY <2>1 DEF AskedBy
<1>5. /\ Gap \notin Sat /\ time \in Nat
      /\ \A u \in A!Station : Has(u, done) \in Sat \cup {Gap}
  <2>1. /\ access \in [A!Station -> [0..EndTime -> Sat \cup {Gap}]]
        /\ EndTime \in Nat /\ time \in Nat /\ Gap \notin Sat
    BY DEF Setting, A!Epoch
  <2>2. \A u \in A!Station, t \in Nat : SatOf(u, t) \in Sat \cup {Gap}
    BY <2>1 DEF SatOf
  <2> QED BY <2>1, <2>2 DEF Has, Have, Will
<1>6. Changes(st, time) <=> handover[st] /\ Have(st) \in Sat /\ Will(st) \in Sat
  BY ChangesNow
<1>7. \/ Will(st) = Have(st) /\ ~handover[st] /\ m = n
      \/ /\ handover[st] /\ Have(st) = Gap /\ Will(st) = Gap /\ m = n
      \/ /\ time = 0 \/ handover[st]
         /\ Have(st) = Gap /\ Will(st) \in Sat /\ m = A!Connect(n, st, Will(st), Null)
      \/ /\ handover[st] /\ Have(st) \in Sat /\ Will(st) = Gap /\ m = left
      \/ /\ handover[st] /\ Have(st) \in Sat /\ Will(st) \in Sat
         /\ m = A!Connect(left, st, Will(st), n.device[st])
  BY <1>1, <1>3, StationMoves
<1>8. \A u \in A!Station \ {st} :
        /\ Have(st) \in Sat => Has(u, done) # Have(st)
        /\ Will(st) \in Sat => Has(u, done) # Will(st)
  BY <1>5
<1>9. ASSUME WellFormed(m), Linked(m, st, Will(st)),
             Role[st] = "consumer" => Asked(m, st) = AskedBy(st, more),
             \A u \in A!Station \ {st} : Asked(m, u) = Asked(n, u),
             \A u \in A!Station \ {st} : Linked(m, u, Has(u, done))
      PROVE  InUpdate(m, more)
  <2> HIDE DEF m, more
  <2>1. \A u \in A!Station : Linked(m, u, Has(u, more))
    BY <1>2, <1>3, <1>9
  <2>2. \A u \in A!Station : Role[u] = "consumer" => Asked(m, u) = AskedBy(u, more)
    BY <1>1, <1>2, <1>9
  <2> QED BY <1>9, <2>1, <2>2 DEF InUpdate
<1> SUFFICES InUpdate(m, more)
  OBVIOUS
<1> HIDE DEF m, left, more
<1>10. CASE Will(st) = Have(st) /\ m = n /\ ~Changes(st, time)
  BY <1>1, <1>3, <1>4, <1>9, <1>10
<1>11. CASE Have(st) = Gap /\ Will(st) \in Sat /\ m = A!Connect(n, st, Will(st), Null)
  <2>1. Linked(n, st, Gap) /\ ~Changes(st, time)
    BY <1>1, <1>3, <1>5, <1>6, <1>11
  <2>2. /\ WellFormed(m) /\ Linked(m, st, Will(st))
        /\ Role[st] = "consumer" => Asked(m, st) = Asked(n, st)
        /\ \A u \in A!Station \ {st} : Asked(m, u) = Asked(n, u)
        /\ \A u \in A!Station \ {st}, w \in Sat \cup {Gap} :
             w # Will(st) /\ Linked(n, u, w) => Linked(m, u, w)
    <3>1. Null \in 1..Len(n.links) \cup {Null}
      OBVIOUS
    <3>2. \A old \in 1..Len(n.links) \cup {Null} :
            LET k == A!Connect(n, st, Will(st), old)
            IN  /\ WellFormed(k) /\ Linked(k, st, Will(st))
                /\ Role[st] = "consumer" =>
                     Asked(k, st) = IF old = Null THEN Asked(n, st) ELSE Asked(n, st) \cup {time}
                /\ \A u \in A!Station \ {st} : Asked(k, u) = Asked(n, u)
                /\ \A u \in A!Station \ {st}, w \in Sat \cup {Gap} :
                     w # Will(st) /\ Linked(n, u, w) => Linked(k, u, w)
      BY <1>1, <1>5, <1>11, <2>1, ConnectGives
    <3> QED BY <1>11, <3>1, <3>2
  <2>3. \A u \in A!Station \ {st} : Linked(m, u, Has(u, done))
    BY <1>1, <1>5, <1>8, <1>11, <2>2
  <2> QED BY <1>1, <1>4, <1>9, <2>1, <2>2, <2>3
<1>12. ASSUME Have(st) \in Sat
       PROVE  /\ WellFormed(left) /\ Linked(left, st, Gap) /\ left.links = n.links
              /\ \A u \in A!Station : Asked(left, u) = Asked(n, u)
              /\ \A u \in A!Station \ {st} : Linked(left, u, Has(u, done))
              /\ n.device[st] \in 1..Len(n.links) /\ n.device[st] # Null
  <2>1. Linked(n, st, Have(st))
    BY <1>1, <1>3
  <2>2. /\ WellFormed(left) /\ Linked(left, st, Gap)
        /\ \A u \in A!Station : Asked(left, u) = Asked(n, u)
        /\ \A u \in A!Station \ {st}, w \in Sat \cup {Gap} :
             w # Have(st) /\ Linked(n, u, w) => Linked(left, u, w)
    BY <1>1, <1>12, <2>1, DetachTakes DEF left
  <2>3. \A u \in A!Station \ {st} : Linked(left, u, Has(u, done))
    BY <1>1, <1>5, <1>8, <1>12, <2>2
  <2>4. n.device[st] \in 1..Len(n.links) /\ n.device[st] # Null
    <3>1. Len(n.links) \in Nat
      BY <1>1, NetworkFields DEF WellFormed
    <3> QED BY <1>5, <1>12, <2>1, <3>1, Names DEF Linked
  <2>5. left.links = n.links
    <3>1. n = [links |-> n.links, device |-> n.device, goneSt |-> n.goneSt,
               goneSat |-> n.goneSat, routes |-> n.routes, requests |-> n.requests,
               aborted |-> n.aborted]
      BY <1>1, NetworkFields DEF WellFormed
    <3> QED BY <3>1 DEF left, A!Detach
  <2> QED BY <2>2, <2>3, <2>4, <2>5
<1>13. CASE Have(st) \in Sat /\ Will(st) = Gap /\ m = left
  <2>1. ~Changes(st, time)
    BY <1>5, <1>6, <1>13
  <2> QED BY <1>1, <1>4, <1>9, <1>12, <1>13, <2>1
<1>14. CASE /\ handover[st] /\ Have(st) \in Sat /\ Will(st) \in Sat
            /\ m = A!Connect(left, st, Will(st), n.device[st])
  <2>1. Changes(st, time)
    BY <1>6, <1>14
  <2>2. /\ WellFormed(m) /\ Linked(m, st, Will(st))
        /\ Role[st] = "consumer" => Asked(m, st) = Asked(left, st) \cup {time}
        /\ \A u \in A!Station \ {st} : Asked(m, u) = Asked(left, u)
        /\ \A u \in A!Station \ {st}, w \in Sat \cup {Gap} :
             w # Will(st) /\ Linked(left, u, w) => Linked(m, u, w)
    <3>1. n.device[st] \in 1..Len(left.links) \cup {Null} /\ n.device[st] # Null
      BY <1>12, <1>14
    <3> QED BY <1>5, <1>12, <1>14, <3>1, ConnectGives
  <2>3. \A u \in A!Station \ {st} : Linked(m, u, Has(u, done))
    BY <1>5, <1>8, <1>12, <1>14, <2>2
  <2>4. Role[st] = "consumer" => Asked(m, st) = AskedBy(st, more)
    BY <1>1, <1>4, <1>12, <1>14, <2>1, <2>2
  <2>5. \A u \in A!Station \ {st} : Asked(m, u) = Asked(n, u)
    BY <1>12, <1>14, <2>2
  <2> QED BY <1>9, <2>2, <2>3, <2>4, <2>5
<1>15. /\ ~handover[st] => ~Changes(st, time)
       /\ Have(st) = Gap => ~Changes(st, time)
  BY <1>5, <1>6
<1> QED BY <1>7, <1>10, <1>11, <1>13, <1>14, <1>15

\* Where the stations are in the order of the std::map.
LEMMA OrderOfStations ==
  ASSUME NEW N \in Nat, DOMAIN StationOrder = 1..N,
         \A i, j \in 1..N : StationOrder[i] = StationOrder[j] => i = j
  PROVE  LET first(k) == {StationOrder[i] : i \in 1..k}
         IN  /\ first(0) = {} /\ first(N) = A!Station
             /\ \A k \in 1..N : /\ first(k) = first(k-1) \cup {StationOrder[k]}
                                /\ StationOrder[k] \notin first(k-1)
<1> DEFINE first(k) == {StationOrder[i] : i \in 1..k}
<1>1. first(0) = {} /\ first(N) = A!Station
  BY DEF A!Station
<1>2. ASSUME NEW k \in 1..N
      PROVE  /\ first(k) = first(k-1) \cup {StationOrder[k]}
             /\ StationOrder[k] \notin first(k-1)
  <2>1. \A i : i \in 1..k <=> i \in 1..(k-1) \/ i = k
    OBVIOUS
  <2>2. \A i \in 1..(k-1) : i \in 1..N /\ i # k
    OBVIOUS
  <2>3. first(k) = first(k-1) \cup {StationOrder[k]}
    BY <2>1
  <2> QED BY <2>2, <2>3
<1> QED BY <1>1, <1>2

\* No slot is shared in the midst of Update.
LEMMA NoClash ==
  ASSUME Setting, Apart, NEW N \in Nat, DOMAIN StationOrder = 1..N,
         NEW k \in 1..N, NEW j \in 1..N, j # k
  PROVE  LET st == StationOrder[k]
             u == StationOrder[j]
             s == Has(u, {StationOrder[i] : i \in 1..(k-1)})
         IN  s # Gap /\ u # st => s # Have(st) /\ s # Will(st)
<1> DEFINE st == StationOrder[k]
           u == StationOrder[j]
           s == Has(u, {StationOrder[i] : i \in 1..(k-1)})
<1>1. /\ st \in A!Station /\ u \in A!Station
      /\ access \in [A!Station -> [0..EndTime -> Sat \cup {Gap}]]
      /\ EndTime \in Nat /\ time \in Nat /\ A!Epoch = 0..EndTime /\ Gap \notin Sat
  BY DEF Setting, A!Epoch, A!Station
<1>2. \A t \in 0..EndTime, a, b \in 1..N :
        a # b /\ access[StationOrder[a]][t] # Gap =>
          /\ access[StationOrder[a]][t] # access[StationOrder[b]][t]
          /\ a < b /\ t > 0 =>
               access[StationOrder[a]][t] # access[StationOrder[b]][t-1]
  BY <1>1 DEF Apart
<1>3. \A t \in Nat : (IF t <= EndTime THEN t ELSE EndTime) \in 0..EndTime
  BY <1>1
<1>4. ASSUME NEW t \in Nat, NEW a \in 1..N, NEW b \in 1..N, a # b,
             SatOf(StationOrder[a], t) # Gap
      PROVE  /\ SatOf(StationOrder[a], t) # SatOf(StationOrder[b], t)
             /\ a < b /\ t > 0 => SatOf(StationOrder[a], t) # SatOf(StationOrder[b], t-1)
  <2>1. SatOf(StationOrder[a], t) # SatOf(StationOrder[b], t)
    BY <1>2, <1>3, <1>4 DEF SatOf
  <2>2. CASE t <= EndTime
    <3>1. t > 0 => t - 1 <= EndTime
      BY <1>1, <2>2
    <3> QED BY <1>2, <1>4, <2>1, <2>2, <3>1 DEF SatOf
  <2>3. CASE t > EndTime
    <3>1. (IF t-1 <= EndTime THEN t-1 ELSE EndTime) = EndTime /\ ~(t <= EndTime)
      BY <1>1, <2>3
    <3>2. SatOf(StationOrder[b], t-1) = SatOf(StationOrder[b], t)
      BY <3>1 DEF SatOf
    <3> QED BY <2>1, <3>2
  <2> QED BY <1>1, <2>2, <2>3
<1>5. CASE j < k
  <2>1. u \in {StationOrder[i] : i \in 1..(k-1)}
    BY <1>5
  <2>2. s = SatOf(u, time)
    BY <2>1 DEF Has, Will
  <2>3. s # Gap => s # Will(st)
    BY <1>1, <1>4, <2>2 DEF Will
  <2>4. s # Gap => s # Have(st)
    <3>1. CASE time = 0
      BY <3>1 DEF Have
    <3>2. CASE time > 0
      BY <1>1, <1>4, <1>5, <2>2, <3>2 DEF Have
    <3> QED BY <1>1, <3>1, <3>2
  <2> QED BY <2>3, <2>4
<1>6. CASE j > k /\ u \notin {StationOrder[i] : i \in 1..(k-1)}
  <2>1. s = Have(u)
    BY <1>6 DEF Has
  <2>2. CASE time = 0
    BY <2>1, <2>2 DEF Have
  <2>3. CASE time > 0
    <3>1. time - 1 \in Nat /\ s = SatOf(u, time - 1) /\ Have(st) = SatOf(st, time - 1)
      BY <1>1, <2>1, <2>3 DEF Have
    <3>2. s # Gap => s # Have(st)
      BY <1>4, <3>1
    <3>3. Will(st) # Gap => Will(st) # s
      BY <1>1, <1>4, <1>6, <2>3, <3>1 DEF Will
    <3> QED BY <3>2, <3>3
  <2> QED BY <1>1, <2>2, <2>3
<1>7. CASE j > k /\ u \in {StationOrder[i] : i \in 1..(k-1)}
  <2>1. PICK i \in 1..(k-1) : u = StationOrder[i]
    BY <1>7
  <2>2. i \in 1..N /\ i # k /\ i < k
    OBVIOUS
  <2>3. s = SatOf(u, time)
    BY <1>7 DEF Has, Will
  <2>4. s # Gap => s # Will(st)
    BY <1>1, <1>4, <2>1, <2>2, <2>3 DEF Will
  <2>5. s # Gap => s # Have(st)
    <3>1. CASE time = 0
      BY <3>1 DEF Have
    <3>2. CASE time > 0
      BY <1>1, <1>4, <2>1, <2>2, <2>3, <3>2 DEF Have
    <3> QED BY <1>1, <3>1, <3>2
  <2> QED BY <2>4, <2>5
<1> QED BY <1>5, <1>6, <1>7

\* The first loop of Update treats every station.
LEMMA AllStations ==
  ASSUME Setting, Apart, \A st \in A!Station : OnSchedule(st), InUpdate(net, {}),
         NEW N \in Nat, DOMAIN StationOrder = 1..N,
         \A i, j \in 1..N : StationOrder[i] = StationOrder[j] => i = j
  PROVE  InUpdate(A!FoldLeft(A!Attach, net, StationOrder), A!Station)
<1> DEFINE first(k) == {StationOrder[i] : i \in 1..k}
<1>1. PICK g : /\ g[0] = net
               /\ \A k \in 1..N : g[k] = A!Attach(g[k-1], StationOrder[k])
               /\ A!FoldLeft(A!Attach, net, StationOrder) = g[N]
  BY StationByStation
<1>2. /\ first(0) = {} /\ first(N) = A!Station
      /\ \A k \in 1..N : /\ first(k) = first(k-1) \cup {StationOrder[k]}
                         /\ StationOrder[k] \notin first(k-1)
  BY OrderOfStations
<1>3. ASSUME NEW k \in 1..N, NEW u \in A!Station \ {StationOrder[k]}
      PROVE  Has(u, first(k-1)) # Gap =>
               /\ Has(u, first(k-1)) # Have(StationOrder[k])
               /\ Has(u, first(k-1)) # Will(StationOrder[k])
  <2>1. PICK j \in 1..N : u = StationOrder[j]
    BY DEF A!Station
  <2>2. j # k
    BY <2>1
  <2> QED BY <2>1, <2>2, NoClash
<1>4. \A k \in 1..N : StationOrder[k] \in A!Station
  BY DEF A!Station
<1> DEFINE S == {k \in 0..N : InUpdate(g[k], first(k))}
<1> HIDE DEF first
<1>5. 0 \in S
  BY <1>1, <1>2
<1>6. \A k \in 0..N : k < N /\ k \in S => k+1 \in S
  <2> SUFFICES ASSUME NEW k \in 0..N, k < N, InUpdate(g[k], first(k))
               PROVE  InUpdate(g[k+1], first(k+1))
    OBVIOUS
  <2>1. k+1 \in 1..N /\ (k+1)-1 = k
    OBVIOUS
  <2>2. g[k+1] = A!Attach(g[k], StationOrder[k+1])
    BY <1>1, <2>1
  <2>3. first(k+1) = first(k) \cup {StationOrder[k+1]} /\ StationOrder[k+1] \notin first(k)
    BY <1>2, <2>1
  <2>4. \A u \in A!Station \ {StationOrder[k+1]} :
          Has(u, first(k)) # Gap =>
            /\ Has(u, first(k)) # Have(StationOrder[k+1])
            /\ Has(u, first(k)) # Will(StationOrder[k+1])
    BY <1>3, <2>1
  <2>5. StationOrder[k+1] \in A!Station /\ OnSchedule(StationOrder[k+1])
    BY <1>4, <2>1
  <2>6. InUpdate(A!Attach(g[k], StationOrder[k+1]), first(k) \cup {StationOrder[k+1]})
    BY <2>3, <2>4, <2>5, OneStation
  <2> QED BY <2>2, <2>3, <2>6
<1>7. N \in S
  <2> HIDE DEF S
  <2>1. N \in 0..N
    OBVIOUS
  <2> QED BY <1>5, <1>6, <2>1, AlongInterval
<1> QED BY <1>1, <1>2, <1>7

----------------------------------------------------------------------------
(* The stations' invariant.                                                *)

\* A consumer is woken around its changes from satellite to satellite.
Woken(st) ==
  \A t \in Nat : <<"ResumeAround", st, t>> \in scheduled <=> Changes(st, t) /\ t <= time

StationsInv ==
  /\ Setting /\ Apart
  /\ \A st \in A!Station : OnSchedule(st)
  /\ InUpdate(net, {})
  /\ \A st \in A!Station : Role[st] = "consumer" => Woken(st)
  /\ route \in Joining \/ route = [t \in A!Epoch |-> <<>>]

\* The invariant holds before the first update.
LEMMA StationsInit ==
  ASSUME Interval = 1, Init, Apart
  PROVE  StationsInv
<1>1. /\ A!Init /\ EndTime \in Nat
      /\ route \in Joining \/ route = [t \in A!Epoch |-> <<>>]
  BY UpdateAssumption DEF Init, NoRoutes, A!TimeAssumption
<1>2. Setting
  BY <1>1, Names DEF Setting, A!Init
<1>3. ASSUME NEW st \in A!Station
      PROVE  OnSchedule(st)
  <2> DEFINE att == A!Attachments(st)
  <2>1. /\ Len(att) \in Nat
        /\ \A i \in 1..Len(att) : att[i].time \in Nat /\ att[i].sat = access[st][att[i].time]
        /\ \A i, j \in 1..Len(att) : i < j => att[i].time < att[j].time
        /\ \E i \in 1..Len(att) : att[i].time = 0
    BY <1>2, EntriesOfStation
  <2>2. time = 0 /\ idx[st] = 1 /\ handover[st] = FALSE
    BY <1>1 DEF A!Init
  <2>3. 1 \in 1..Len(att) /\ att[1].time = 0
    <3> HIDE DEF att
    <3>1. PICK i \in 1..Len(att) : att[i].time = 0
      BY <2>1
    <3>2. 1 \in 1..Len(att)
      BY <2>1, <3>1
    <3>3. ~ 1 < i
      BY <2>1, <3>1, <3>2
    <3> QED BY <2>1, <3>1, <3>2, <3>3
  <2>4. \A i \in 1..Len(att) : att[i].time <= 0 <=> i <= 1
    <3> SUFFICES ASSUME NEW i \in 1..Len(att)
                 PROVE  att[i].time <= 0 <=> i <= 1
      OBVIOUS
    <3> HIDE DEF att
    <3>1. CASE i = 1
      BY <2>3, <3>1
    <3>2. CASE i > 1
      <4>1. att[1].time < att[i].time /\ att[i].time \in Nat
        BY <2>1, <2>3, <3>2
      <4> QED BY <2>3, <3>2, <4>1
    <3> QED BY <2>1, <3>1, <3>2
  <2>5. att[1].sat = Will(st)
    BY <1>1, <2>1, <2>2, <2>3 DEF Will, SatOf
  <2>6. 1 \in 1..Len(att)+1
    BY <2>1
  <2> HIDE DEF att
  <2>7. ~ time > 0
    BY <2>2
  <2> QED BY <2>2, <2>4, <2>5, <2>6, <2>7 DEF OnSchedule, att
<1>4. InUpdate(net, {})
  <2>1. /\ net = [links |-> <<>>, device |-> [n \in A!Station \cup Sat |-> Null],
                  goneSt |-> {}, goneSat |-> {}, routes |-> {}, requests |-> {},
                  aborted |-> FALSE]
        /\ time = 0
    BY <1>1 DEF A!Init
  <2>2. WellFormed(net)
    BY <2>1 DEF WellFormed, A!Network
  <2>3. ASSUME NEW st \in A!Station
        PROVE  Linked(net, st, Has(st, {}))
    <3>1. Has(st, {}) = Gap
      BY <2>1 DEF Has, Have
    <3>2. net.device[st] = Null /\ {r \in net.routes : r[2] = st} = {}
      BY <2>1
    <3> QED BY <3>1, <3>2 DEF Linked
  <2>4. \A st \in A!Station : Asked(net, st) = AskedBy(st, {})
    <3>1. \A st \in A!Station : Asked(net, st) = {}
      BY <2>1 DEF Asked
    <3>2. \A st \in A!Station : AskedBy(st, {}) = {}
      BY <2>1 DEF AskedBy
    <3> QED BY <3>1, <3>2
  <2> QED BY <2>2, <2>3, <2>4 DEF InUpdate
<1>5. \A st \in A!Station : Woken(st)
  <2>1. scheduled = {} /\ time = 0
    BY <1>1 DEF A!Init
  <2> QED BY <2>1 DEF Woken, Changes
<1> QED BY <1>1, <1>2, <1>3, <1>4, <1>5 DEF StationsInv

\* The prediction is a handover from satellite to satellite if there is one.
LEMMA PredictsChange ==
  ASSUME Setting, NEW st \in A!Station, OnSchedule(st)
  PROVE  A!IsSatHandover(st, A!Prediction(st, time + 1)) <=> Changes(st, time + 1)
<1> DEFINE att == A!Attachments(st)
           chg == A!Changes(access[st])
           c == idx[st]
           p == A!Prediction(st, time + 1)
<1>1. /\ access[st] \in [0..EndTime -> Sat \cup {Gap}] /\ EndTime \in Nat /\ time \in Nat
      /\ A!Epoch = 0..EndTime
  BY DEF Setting, A!Epoch
<1>2. time + 1 \in chg <=> time + 1 \in 1..EndTime /\ access[st][time+1] # access[st][time]
  BY <1>1 DEF A!Changes
<1>3. A!IsSatHandover(st, p) <=>
        p.handover /\ att[p.idx].sat # Gap /\ att[p.lastIdx].sat # Gap
  BY DEF A!IsSatHandover
<1>4. /\ Len(att) \in Nat
      /\ \A i \in 1..Len(att) : att[i].sat = access[st][att[i].time]
  BY EntriesOfStation
<1>5. c \in 1..Len(att)+1 /\ (c <= Len(att) => att[c].sat = Will(st))
  BY DEF OnSchedule
<1>6. \/ /\ time + 1 \in chg /\ c < Len(att) /\ att[c+1].time = time + 1
         /\ p = [idx |-> c+1, lastIdx |-> c, handover |-> TRUE]
      \/ time + 1 \notin chg /\ p.handover = FALSE
  <2>1. \/ /\ time + 1 \in chg /\ c < Len(att) /\ att[c+1].time = time + 1
           /\ p = [idx |-> c+1, lastIdx |-> c, handover |-> TRUE]
        \/ /\ time + 1 \notin chg
           /\ p = [idx |-> c, lastIdx |-> lastIdx[st], handover |-> FALSE]
        \/ /\ time + 1 \notin chg
           /\ p = [idx |-> Len(att)+1, lastIdx |-> lastIdx[st], handover |-> FALSE]
    BY PredictsNext
  <2> HIDE DEF att, chg, c, p
  <2> QED BY <2>1
<1>7. time + 1 \in 1..EndTime => Will(st) = access[st][time] /\ (time + 1) - 1 = time
  BY <1>1 DEF Will, SatOf
<1>8. Changes(st, time + 1) <=>
        time + 1 \in chg /\ access[st][time+1] # Gap /\ access[st][time] # Gap
  BY <1>1, <1>2, <1>7 DEF Changes
<1> HIDE DEF att, chg, c, p
<1>9. CASE /\ time + 1 \in chg /\ c < Len(att) /\ att[c+1].time = time + 1
           /\ p = [idx |-> c+1, lastIdx |-> c, handover |-> TRUE]
  <2>1. c+1 \in 1..Len(att)
    BY <1>4, <1>5, <1>9
  <2>2. att[c+1].sat = access[st][time+1] /\ att[c].sat = access[st][time]
    BY <1>2, <1>4, <1>5, <1>7, <1>9, <2>1
  <2>3. p.idx = c+1 /\ p.lastIdx = c /\ p.handover
    BY <1>9
  <2> QED BY <1>3, <1>8, <1>9, <2>2, <2>3 DEF p
<1>10. CASE time + 1 \notin chg /\ p.handover = FALSE
  BY <1>3, <1>8, <1>10 DEF p
<1> QED BY <1>6, <1>9, <1>10

\* Update wakes a consumer for the change it predicts, and for no other.
LEMMA WokenNext ==
  ASSUME Setting, A!Update, NEW st \in A!Station, OnSchedule(st), Role[st] = "consumer",
         Woken(st)
  PROVE  Woken(st)'
<1> DEFINE predicted == [u \in A!Station |-> A!Prediction(u, time + 1)]
           wakes == {u \in A!Station : Role[u] = "consumer" /\ A!IsSatHandover(u, predicted[u])}
<1>1. /\ time' = time + 1 /\ access' = access /\ time \in Nat /\ Interval = 1
      /\ scheduled' = scheduled \cup A!AppEvents(predicted) \cup A!AttachEvents(net'.links)
  BY DEF A!Update, Setting
<1>2. \A t : Changes(st, t)' <=> Changes(st, t)
  BY <1>1 DEF Changes
<1>3. \A t : <<"ResumeAround", st, t>> \notin A!AttachEvents(net'.links)
  BY DEF A!AttachEvents
<1>4. \A t : <<"ResumeAround", st, t>> \in A!AppEvents(predicted) <=>
               st \in wakes /\ t = time + 1
  BY <1>1 DEF A!AppEvents
<1>5. st \in wakes <=> Changes(st, time + 1)
  BY PredictsChange
<1> HIDE DEF predicted, wakes
<1>6. \A t \in Nat : <<"ResumeAround", st, t>> \in scheduled' <=>
                       Changes(st, t) /\ (t <= time \/ t = time + 1)
  BY <1>1, <1>3, <1>4, <1>5 DEF Woken
<1>7. \A t \in Nat : <<"ResumeAround", st, t>> \in scheduled' <=> Changes(st, t) /\ t <= time + 1
  BY <1>1, <1>6
<1> QED BY <1>1, <1>2, <1>7 DEF Woken

\* One Update event keeps the invariant.
LEMMA StationsNext ==
  ASSUME StationsInv, [Next]_vars
  PROVE  StationsInv'
<1>1. CASE Next
  <2>1. A!Update /\ Setting /\ Apart
    BY <1>1 DEF Next, Update, StationsInv
  <2>2. /\ time' = time + 1 /\ access' = access /\ time \in Nat
        /\ net' = A!FoldLeft(A!Attach, net, StationOrder)
    BY <2>1 DEF A!Update, Setting
  <2>3. route' = route
    BY <1>1, Ticks, Constants, <2>1 DEF Next, Update, Setting
  <2>4. Setting' /\ Apart'
    BY <2>1, <2>2 DEF Setting, Apart
  <2>5. \A st \in A!Station : OnSchedule(st)'
    BY <2>1, OnScheduleNext DEF StationsInv
  <2>6. InUpdate(net', A!Station)
    <3>1. /\ StationOrder \in Seq(A!Station)
          /\ \A i, j \in DOMAIN StationOrder : StationOrder[i] = StationOrder[j] => i = j
      BY UpdateAssumption DEF A!StationAssumption
    <3>2. Len(StationOrder) \in Nat /\ DOMAIN StationOrder = 1..Len(StationOrder)
      BY <3>1
    <3> QED BY <2>1, <2>2, <3>1, <3>2, AllStations DEF StationsInv
  <2>7. InUpdate(net, {})'
    <3>1. \A st \in A!Station : Has(st, {})' = Has(st, A!Station)
      BY <2>1, <2>2, Satellites DEF Has
    <3>2. \A st \in A!Station : AskedBy(st, {})' = AskedBy(st, A!Station)
      <4>1. \A st \in A!Station, t \in Nat : Changes(st, t)' <=> Changes(st, t)
        BY <2>2 DEF Changes
      <4>2. \A t \in Nat : t < time' <=> t < time \/ t = time
        BY <2>2
      <4> QED BY <4>1, <4>2 DEF AskedBy
    <3>3. \A st \in A!Station : Linked(net, st, Has(st, {}))'
      BY <2>6, <3>1 DEF InUpdate, Linked
    <3>4. WellFormed(net)' /\ \A st \in A!Station : Asked(net, st)' = Asked(net', st)
      BY <2>6 DEF InUpdate, WellFormed, Asked
    <3> QED BY <2>6, <3>2, <3>3, <3>4 DEF InUpdate
  <2>8. \A st \in A!Station : Role[st] = "consumer" => Woken(st)'
    BY <2>1, WokenNext DEF StationsInv
  <2>9. route' \in Joining' \/ route' = [t \in A!Epoch |-> <<>>]
    BY <2>2, <2>3 DEF StationsInv, Joining
  <2> QED BY <2>4, <2>5, <2>7, <2>8, <2>9 DEF StationsInv
<1>2. CASE UNCHANGED vars
  <2>1. UNCHANGED <<access, time, idx, lastIdx, handover, net, scheduled, route>>
    BY <1>2 DEF vars
  <2>2. Setting' /\ Apart' /\ (route' \in Joining' \/ route' = [t \in A!Epoch |-> <<>>])
    BY <2>1 DEF StationsInv, Setting, Apart, Joining
  <2>3. \A st \in A!Station : OnSchedule(st)'
    <3>1. \A st \in A!Station : A!Attachments(st)' = A!Attachments(st)
      BY <2>1 DEF A!Attachments, A!Changes
    <3> QED BY <2>1, <3>1 DEF StationsInv, OnSchedule, Will, Have, SatOf, A!Changes
  <2>4. InUpdate(net, {})'
    BY <2>1 DEF StationsInv, InUpdate, WellFormed, Linked, Has, Have, Will, SatOf, Asked, AskedBy,
                Changes
  <2>5. \A st \in A!Station : Role[st] = "consumer" => Woken(st)'
    BY <2>1 DEF StationsInv, Woken, Changes
  <2> QED BY <2>1, <2>2, <2>3, <2>4, <2>5 DEF StationsInv, Setting, Apart, Joining
<1> QED BY <1>1, <1>2

----------------------------------------------------------------------------
(* The theorems about the stations.                                        *)

\* Update keeps every station's entry, link, route and requests in step with the
\* access satellites Leo.py computed, one event after the other (common.cpp).
THEOREM StationsAsScheduled == Interval = 1 => (Spec /\ Apart => []StationsInv)
<1> SUFFICES ASSUME Interval = 1
             PROVE  Spec /\ Apart => []StationsInv
  OBVIOUS
<1>1. Init /\ Apart => StationsInv
  BY StationsInit
<1>2. StationsInv /\ [Next]_vars => StationsInv'
  BY StationsNext
<1> QED BY <1>1, <1>2, PTL DEF Spec

\* What the invariant says of a station after an update.
LEMMA AfterUpdate ==
  ASSUME StationsInv, time > 0, NEW st \in A!Station
  PROVE  /\ access[st][A!Now] \in Sat \cup {Gap} /\ Gap \notin Sat
         /\ WellFormed(net) /\ Linked(net, st, access[st][A!Now])
         /\ A!Now = IF time - 1 <= EndTime THEN time - 1 ELSE EndTime
<1>1. Setting /\ InUpdate(net, {})
  BY DEF StationsInv
<1>2. A!Now = IF time - 1 <= EndTime THEN time - 1 ELSE EndTime
  BY <1>1 DEF Setting, A!Now
<1>3. access[st][A!Now] = Have(st) /\ Has(st, {}) = Have(st)
  BY <1>2 DEF Has, Have, SatOf
<1>4. A!Now \in A!Epoch
  BY <1>1, <1>2 DEF Setting, A!Epoch
<1>5. access[st][A!Now] \in Sat \cup {Gap} /\ Gap \notin Sat
  BY <1>1, <1>4 DEF Setting
<1> QED BY <1>1, <1>2, <1>3, <1>5 DEF InUpdate

\* After every update each station has a working link to the satellite Leo.py
\* computed for that minute, and none if there is none in range.
THEOREM AllAttached == Interval = 1 => (Spec /\ Apart => []Attached)
<1> SUFFICES ASSUME Interval = 1
             PROVE  Spec /\ Apart => []Attached
  OBVIOUS
<1>1. StationsInv => Attached
  <2> SUFFICES ASSUME StationsInv, time > 0
               PROVE  /\ ~net.aborted
                      /\ \A st \in A!Station :
                           LET id == net.device[st]
                           IN  IF access[st][A!Now] = Gap THEN id = Null
                               ELSE /\ id # Null /\ net.links[id] = <<st, access[st][A!Now]>>
                                    /\ id \notin net.goneSt \cup net.goneSat
                                    /\ net.device[access[st][A!Now]] = id
    BY DEF Attached, A!Attached
  <2>1. ~net.aborted /\ net \in A!Network
    BY DEF StationsInv, InUpdate, WellFormed
  <2>2. \A i \in 1..Len(net.links) : i # Null
    BY <2>1, NetworkFields, Names
  <2> QED BY <2>1, <2>2, AfterUpdate DEF Linked
<1> QED BY <1>1, StationsAsScheduled, PTL

\* After every update the prefix of a station is routed over its present link,
\* and over no other.
THEOREM RoutesFollow == Interval = 1 => (Spec /\ Apart => []RouteFollowsStation)
<1> SUFFICES ASSUME Interval = 1
             PROVE  Spec /\ Apart => []RouteFollowsStation
  OBVIOUS
<1>1. StationsInv => RouteFollowsStation
  BY AfterUpdate DEF RouteFollowsStation, A!RouteFollowsStation, Linked
<1> QED BY <1>1, StationsAsScheduled, PTL

\* A consumer is awake around exactly those handovers at which it requests a
\* tunnel.
THEOREM WokenForHandovers == Interval = 1 => (Spec /\ Apart => []AwakeAtHandover)
<1> SUFFICES ASSUME Interval = 1
             PROVE  Spec /\ Apart => []AwakeAtHandover
  OBVIOUS
<1>1. StationsInv => AwakeAtHandover
  <2> SUFFICES ASSUME StationsInv, NEW st \in A!Station, Role[st] = "consumer"
               PROVE  {t \in 0..A!Now : <<"ResumeAround", st, t>> \in scheduled}
                        = {t \in 0..A!Now : \E id \in DOMAIN net.links :
                                              <<st, id, t>> \in net.requests}
    BY DEF AwakeAtHandover, A!AwakeAtHandover
  <2>1. /\ time \in Nat /\ EndTime \in Nat /\ Interval = 1
        /\ Woken(st) /\ Asked(net, st) = AskedBy(st, {})
    BY DEF StationsInv, Setting, InUpdate
  <2>2. DOMAIN net.links = 1..Len(net.links)
    BY NetworkFields DEF StationsInv, InUpdate, WellFormed
  <2>3. ASSUME NEW t \in 0..A!Now
        PROVE  t \in Nat /\ t < time
    BY <2>1 DEF A!Now
  <2>4. ASSUME NEW t \in 0..A!Now
        PROVE  <<"ResumeAround", st, t>> \in scheduled <=> Changes(st, t)
    BY <2>1, <2>3 DEF Woken
  <2>5. ASSUME NEW t \in 0..A!Now
        PROVE  (\E id \in DOMAIN net.links : <<st, id, t>> \in net.requests) <=> Changes(st, t)
    <3>1. t \in Asked(net, st) <=> \E id \in DOMAIN net.links : <<st, id, t>> \in net.requests
      BY <2>2, <2>3 DEF Asked
    <3>2. t \in AskedBy(st, {}) <=> Changes(st, t)
      BY <2>3 DEF AskedBy
    <3> QED BY <2>1, <3>1, <3>2
  <2> QED BY <2>4, <2>5
<1> QED BY <1>1, StationsAsScheduled, PTL

\* After every update an Interest finds its way from the consumer to the
\* producer: the attachments and the routes, from two files, fit together.
THEOREM PairJoined == Interval = 1 => (Spec /\ Apart => []PathJoinsStations)
<1> SUFFICES ASSUME Interval = 1
             PROVE  Spec /\ Apart => []PathJoinsStations
  OBVIOUS
<1>1. ASSUME StationsInv, PathInstalled
      PROVE  PathJoinsStations
  <2> SUFFICES ASSUME time > 0, R!InForce # <<>>
               PROVE  LET p == R!InForce
                          joined(sat, st) == /\ net.device[st] # Null
                                             /\ net.links[net.device[st]] = <<st, sat>>
                                             /\ net.device[st] \notin net.goneSt \cup net.goneSat
                      IN  /\ joined(Head(p), Consumer) /\ joined(Last(p), Producer)
                          /\ \A i \in 1..Len(p)-1 : <<p[i], p[i+1]>> \in fib
                          /\ <<Last(p), Producer, net.device[Producer]>> \in net.routes
    BY DEF PathJoinsStations
  <2> DEFINE p == R!InForce
  <2>1. /\ time \in Nat /\ EndTime \in Nat /\ A!Epoch = 0..EndTime
        /\ Consumer \in A!Station /\ Producer \in A!Station /\ Role[Producer] # "consumer"
        /\ Path \subseteq Seq(Sat)
    BY <1>1, UpdateAssumption DEF StationsInv, Setting, A!Epoch
  <2>2. A!Now \in A!Epoch /\ p = route[A!Now]
    BY <1>1, <2>1, AfterUpdate DEF R!InForce, R!Now
  <2>3. p \in Path /\ Head(p) = access[Consumer][A!Now] /\ Last(p) = access[Producer][A!Now]
    BY <1>1, <2>2 DEF StationsInv, Joining
  <2>4. Head(p) \in Sat /\ Last(p) \in Sat
    <3>1. p \in Seq(Sat) /\ Len(p) > 0
      BY <2>1, <2>3, UpdateAssumption DEF R!PathAssumption
    <3> HIDE DEF p
    <3>2. Len(p) \in Nat /\ 1 \in DOMAIN p /\ Len(p) \in DOMAIN p
      BY <3>1
    <3> QED BY <3>1, <3>2 DEF Last
  <2>5. /\ Gap \notin Sat
        /\ Linked(net, Consumer, Head(p)) /\ Linked(net, Producer, Last(p))
    BY <1>1, <2>1, <2>3, AfterUpdate
  <2>6. \A i \in 1..Len(net.links) : i # Null
    BY <1>1, NetworkFields, Names DEF StationsInv, InUpdate, WellFormed
  <2>7. <<Last(p), Producer, net.device[Producer]>> \in net.routes
    <3>1. {r \in net.routes : r[2] = Producer} = {<<Last(p), Producer, net.device[Producer]>>}
      BY <2>1, <2>4, <2>5 DEF Linked, A!HasPrefix
    <3> QED BY <3>1
  <2>8. \A i \in 1..Len(p)-1 : <<p[i], p[i+1]>> \in fib
    BY <1>1 DEF PathInstalled
  <2> HIDE DEF p
  <2>9. /\ net.device[Consumer] # Null
        /\ net.links[net.device[Consumer]] = <<Consumer, Head(p)>>
        /\ net.device[Consumer] \notin net.goneSt \cup net.goneSat
    BY <2>4, <2>5, <2>6 DEF Linked
  <2>10. /\ net.device[Producer] # Null
         /\ net.links[net.device[Producer]] = <<Producer, Last(p)>>
         /\ net.device[Producer] \notin net.goneSt \cup net.goneSat
    BY <2>4, <2>5, <2>6 DEF Linked
  <2> QED BY <2>7, <2>8, <2>9, <2>10 DEF p
<1>2. StationsInv /\ PathInstalled => PathJoinsStations
  BY <1>1
<1> QED BY <1>2, StationsAsScheduled, PathIsInstalled, PTL
==============================================================================
