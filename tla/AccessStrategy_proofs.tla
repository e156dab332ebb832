----------------------- MODULE AccessStrategy_proofs -----------------------
(***************************************************************************)
(* Proofs about the access strategies of Leo.py, for constellations of any *)
(* size and any distances.                                                 *)
(***************************************************************************)
EXTENDS AccessStrategy, WellFoundedInduction, SequenceTheorems, TLAPS

----------------------------------------------------------------------------
(* Minima.                                                                 *)

\* A set of naturals that is not empty has a least element.
LEMMA LeastNat ==
  ASSUME NEW T, T \subseteq Nat, T # {}
  PROVE  \E m \in T : \A k \in T : m <= k
<1>1. PICK m \in T : \A k \in T : <<k, m>> \notin OpToRel(<, Nat)
  BY NatLessThanWellFounded, WFMin, Zenon
<1>2. ASSUME NEW k \in T PROVE m <= k
  <2>1. ~(k < m)
    BY <1>1 DEF OpToRel
  <2> QED BY <2>1
<1> QED BY <1>2

\* Some elements have the least value of f, and only they do.
LEMMA LeastValue ==
  ASSUME NEW S, S # {}, NEW f \in [S -> Nat]
  PROVE  \E s \in S : \A u \in S : f[s] <= f[u]
<1> DEFINE T == {f[s] : s \in S}
<1>1. T \subseteq Nat /\ T # {}
  OBVIOUS
<1>2. PICK m \in T : \A k \in T : m <= k
  <2> HIDE DEF T
  <2> QED BY <1>1, LeastNat
<1> QED BY <1>2

\* Satellites are ordered by orbit and then by number.
LEMMA BeforeTotal ==
  ASSUME NEW s \in Sat, NEW u \in Sat
  PROVE  /\ ~Before(s, u) /\ ~Before(u, s) => s = u
         /\ Before(s, u) => ~Before(u, s) /\ s # u
BY DEF Before, Sat, Num

\* Any satellites have one that comes before the others.
LEMMA FirstExists ==
  ASSUME NEW S, S \subseteq Sat, S # {}
  PROVE  \E s \in S : \A u \in S \ {s} : Before(s, u)
<1>1. \A s \in S : s[1] \in Nat /\ s[2] \in Nat
  BY SizeAssumption DEF Sat, Num
<1>2. PICK a \in S : \A u \in S : a[1] <= u[1]
  <2>1. [s \in S |-> s[1]] \in [S -> Nat]
    BY <1>1
  <2>2. \E s \in S : \A u \in S : [t \in S |-> t[1]][s] <= [t \in S |-> t[1]][u]
    BY <2>1, LeastValue
  <2> QED BY <2>2
<1> DEFINE O == {s \in S : s[1] = a[1]}
<1>3. PICK b \in O : \A u \in O : b[2] <= u[2]
  <2>1. [s \in O |-> s[2]] \in [O -> Nat] /\ O # {}
    BY <1>1
  <2>2. \E s \in O : \A u \in O : [t \in O |-> t[2]][s] <= [t \in O |-> t[2]][u]
    BY <2>1, LeastValue
  <2> QED BY <2>2
<1>4. ASSUME NEW u \in S, u # b PROVE Before(b, u)
  <2>1. u \in Sat /\ b \in Sat
    BY <1>3
  <2>2. u[1] \in Nat /\ b[1] \in Nat /\ u[2] \in Nat /\ b[2] \in Nat /\ a[1] \in Nat
    BY <1>1, <1>3
  <2>3. b[1] = a[1] /\ a[1] <= u[1] /\ (u[1] = a[1] => b[2] <= u[2])
    BY <1>2, <1>3
  <2>4. u[1] = b[1] /\ u[2] = b[2] => u = b
    BY <2>1 DEF Sat
  <2> QED BY <1>4, <2>2, <2>3, <2>4 DEF Before
<1> QED BY <1>3, <1>4

----------------------------------------------------------------------------
(* The searches of Leo.py.                                                 *)

Distances == [Sat -> Nat]

LEMMA FirstIsSat == First \in Sat
BY SizeAssumption DEF First, Sat, Num

\* getClosest returns a satellite, and a nearest one if any is visible.
LEMMA ClosestNearest ==
  ASSUME NEW d \in Distances
  PROVE  /\ GetClosest(d) \in Sat
         /\ \A s \in Sat : Visible(d, s) => d[GetClosest(d)] <= d[s]
         /\ (\E s \in Sat : Visible(d, s)) => Visible(d, GetClosest(d))
<1> DEFINE S == {First} \cup {s \in Sat : Visible(d, s)}
<1>1. S \subseteq Sat /\ S # {} /\ d \in [Sat -> Nat] /\ \A s \in S : d[s] \in Nat
  BY FirstIsSat DEF Distances
<1>2. PICK a \in S : \A u \in S : d[a] <= d[u]
  <2>1. [s \in S |-> d[s]] \in [S -> Nat]
    BY <1>1
  <2>2. \E s \in S : \A u \in S : [t \in S |-> d[t]][s] <= [t \in S |-> d[t]][u]
    BY <1>1, <2>1, LeastValue
  <2> QED BY <2>2
<1>3. PICK b \in {s \in S : d[s] = d[a]} : \A u \in {s \in S : d[s] = d[a]} \ {b} : Before(b, u)
  <2> DEFINE T == {s \in S : d[s] = d[a]}
  <2>1. T \subseteq Sat /\ T # {}
    BY <1>1, <1>2
  <2> HIDE DEF T
  <2>2. \E b \in T : \A u \in T \ {b} : Before(b, u)
    BY <2>1, FirstExists
  <2> QED BY <2>2 DEF T
<1>4. b \in S /\ \A u \in S \ {b} : d[b] < d[u] \/ (d[b] = d[u] /\ Before(b, u))
  <2>1. ASSUME NEW u \in S \ {b} PROVE d[b] < d[u] \/ (d[b] = d[u] /\ Before(b, u))
    <3>1. d[b] = d[a] /\ d[a] <= d[u] /\ d[a] \in Nat /\ d[u] \in Nat
      BY <1>1, <1>2
    <3>2. d[u] = d[a] => Before(b, u)
      BY <1>3
    <3> QED BY <3>1, <3>2
  <2> QED BY <2>1
<1>5. GetClosest(d) = CHOOSE s \in S : \A u \in S \ {s} : d[s] < d[u] \/ (d[s] = d[u] /\ Before(s, u))
  BY DEF GetClosest, Nearest
<1> DEFINE g == GetClosest(d)
<1>6. g \in S /\ \A u \in S \ {g} : d[g] < d[u] \/ (d[g] = d[u] /\ Before(g, u))
  <2> HIDE DEF S
  <2> QED BY <1>4, <1>5
<1>7. \A u \in S : d[g] <= d[u]
  BY <1>1, <1>6
<1> HIDE DEF g
<1>8. \A s \in Sat : Visible(d, s) => s \in S
  OBVIOUS
<1>9. \A s \in Sat : Visible(d, s) => Visible(d, g)
  <2>1. ASSUME NEW s \in Sat, Visible(d, s) PROVE d[g] < MAX_DISTANCE
    <3>1. d[g] <= d[s] /\ d[s] < MAX_DISTANCE /\ d[g] \in Nat /\ d[s] \in Nat
      BY <1>1, <1>6, <1>7, <1>8, <2>1 DEF Visible
    <3> QED BY <3>1, DistAssumption
  <2> QED BY <2>1 DEF Visible
<1> QED BY <1>1, <1>6, <1>7, <1>8, <1>9 DEF g

\* The first satellite that getOrbitClosest looks at is the one before.
Predecessor(n) == (n + NUM_SATS_PER_ORBIT - 1) % NUM_SATS_PER_ORBIT

StartsWith(s, a) == s \in Seq(Int) /\ Len(s) >= 1 /\ s[1] = a

LEMMA OrderFirst ==
  ASSUME NEW n \in Num
  PROVE  /\ 1 \in DOMAIN OrderedSatNums(n) /\ OrderedSatNums(n)[1] = Predecessor(n)
         /\ DOMAIN OrderedSatNums(n) \subseteq Nat
         /\ Predecessor(n) \in Num
<1> DEFINE N == NUM_SATS_PER_ORBIT
<1>1. Predecessor(n) = IF n = 0 THEN N - 1 ELSE n - 1
  BY SizeAssumption DEF Predecessor, Num
<1>2. n - 1 \in Int /\ n - 2 \in Int /\ n + 1 \in Int /\ N - 1 \in Int /\ 0 \in Int /\ 1 \in Int
  BY SizeAssumption DEF Num
<1>3. ASSUME NEW i \in Int, NEW j \in Int PROVE Span(i, j) \in Seq(Int)
  <2>1. (IF j > i THEN j - i ELSE 0) \in Nat
    OBVIOUS
  <2>2. PICK k \in Nat : k = IF j > i THEN j - i ELSE 0
    BY <2>1
  <2>3. Span(i, j) = [x \in 1..k |-> i + x - 1]
    BY <2>2 DEF Span
  <2>4. \A x \in 1..k : i + x - 1 \in Int
    BY <2>2
  <2> QED BY <2>2, <2>3, <2>4, SeqDef
<1>4. ASSUME NEW a \in Int PROVE StartsWith(<<a>>, a)
  BY DEF StartsWith
<1>5. ASSUME NEW a, NEW s, StartsWith(s, a), NEW t \in Seq(Int) PROVE StartsWith(s \o t, a)
  <2>1. s \in Seq(Int) /\ Len(s) \in Nat /\ Len(t) \in Nat
    BY <1>5, LenProperties DEF StartsWith
  <2>2. 1 \in 1..Len(s) + Len(t)
    BY <1>5, <2>1 DEF StartsWith
  <2>3. Len(s \o t) = Len(s) + Len(t) /\ (s \o t)[1] = s[1] /\ s \o t \in Seq(Int)
    BY <1>5, <2>1, <2>2, ConcatProperties DEF StartsWith
  <2> QED BY <1>5, <2>1, <2>3 DEF StartsWith
<1>6. ASSUME n = 0 PROVE StartsWith(OrderedSatNums(n), Predecessor(n))
  <2>1. OrderedSatNums(n) = <<N - 1>> \o Span(1, N - 1)
    BY <1>6 DEF OrderedSatNums
  <2>2. StartsWith(<<N - 1>>, N - 1) /\ Span(1, N - 1) \in Seq(Int)
    BY <1>2, <1>3, <1>4
  <2>3. StartsWith(<<N - 1>> \o Span(1, N - 1), N - 1)
    BY <1>5, <2>2
  <2>4. Predecessor(n) = N - 1
    BY <1>1, <1>6
  <2> QED BY <2>1, <2>3, <2>4
<1>7. ASSUME n # 0 /\ n = N - 1 PROVE StartsWith(OrderedSatNums(n), Predecessor(n))
  <2>1. OrderedSatNums(n) = <<n - 1>> \o Span(0, n - 2)
    BY <1>7 DEF OrderedSatNums
  <2>2. StartsWith(<<n - 1>>, n - 1) /\ Span(0, n - 2) \in Seq(Int)
    BY <1>2, <1>3, <1>4
  <2>3. StartsWith(<<n - 1>> \o Span(0, n - 2), n - 1)
    BY <1>5, <2>2
  <2>4. Predecessor(n) = n - 1
    BY <1>1, <1>7
  <2> QED BY <2>1, <2>3, <2>4
<1>8. ASSUME n # 0 /\ n # N - 1 PROVE StartsWith(OrderedSatNums(n), Predecessor(n))
  <2>1. OrderedSatNums(n) = <<n - 1>> \o Span(n + 1, N - 1) \o Span(0, n - 1)
    BY <1>8 DEF OrderedSatNums
  <2>2. StartsWith(<<n - 1>>, n - 1) /\ Span(n + 1, N - 1) \in Seq(Int) /\ Span(0, n - 1) \in Seq(Int)
    BY <1>2, <1>3, <1>4
  <2>3. StartsWith(<<n - 1>> \o Span(n + 1, N - 1), n - 1)
    BY <1>5, <2>2
  <2>4. StartsWith(<<n - 1>> \o Span(n + 1, N - 1) \o Span(0, n - 1), n - 1)
    BY <1>5, <2>2, <2>3
  <2>5. Predecessor(n) = n - 1
    BY <1>1, <1>8
  <2> QED BY <2>1, <2>4, <2>5
<1>9. StartsWith(OrderedSatNums(n), Predecessor(n))
  BY <1>6, <1>7, <1>8
<1>10. Predecessor(n) \in Num
  BY <1>1, SizeAssumption DEF Num
<1> QED BY <1>9, <1>10, LenProperties DEF StartsWith

\* getOrbitClosest returns None or a visible satellite of the same orbit, and
\* not None while the predecessor is visible.
LEMMA OrbitNearest ==
  ASSUME NEW d \in Distances, NEW last \in Sat
  PROVE  LET g == GetOrbitClosest(d, last)
         IN  /\ g # None => g \in Sat /\ g[1] = last[1] /\ Visible(d, g)
             /\ Visible(d, <<last[1], Predecessor(last[2])>>) => g # None
<1> DEFINE order == OrderedSatNums(last[2])
           at(s) == CHOOSE i \in DOMAIN order : order[i] = s[2]
           S == {s \in Sat : /\ s[1] = last[1] /\ Visible(d, s)
                             /\ \E i \in DOMAIN order : order[i] = s[2]}
           nearest(s) == \A u \in S \ {s} : d[s] < d[u] \/ (d[s] = d[u] /\ at(s) < at(u))
           g == GetOrbitClosest(d, last)
<1>1. g = IF S = {} THEN None ELSE CHOOSE s \in S : nearest(s)
  BY DEF GetOrbitClosest, Nearest
<1>2. last[1] \in 0..NUM_ORBITS - 1 /\ last[2] \in Num
  BY DEF Sat
<1>3. 1 \in DOMAIN order /\ order[1] = Predecessor(last[2]) /\ DOMAIN order \subseteq Nat
      /\ Predecessor(last[2]) \in Num
  BY <1>2, OrderFirst
<1>4. ASSUME S # {} PROVE \E s \in S : nearest(s)
  <2>1. \A s \in S : at(s) \in Nat /\ at(s) \in DOMAIN order /\ order[at(s)] = s[2]
    <3> HIDE DEF order
    <3> QED BY <1>3
  <2>2. S \subseteq Sat /\ \A s \in S : d[s] \in Nat /\ s[1] = last[1]
    BY DEF Distances
  <2> HIDE DEF S, at
  <2>3. PICK a \in S : \A u \in S : d[a] <= d[u]
    <3>1. [s \in S |-> d[s]] \in [S -> Nat]
      BY <2>2
    <3>2. \E s \in S : \A u \in S : [t \in S |-> d[t]][s] <= [t \in S |-> d[t]][u]
      BY <1>4, <3>1, LeastValue
    <3> QED BY <3>2
  <2> DEFINE E == {s \in S : d[s] = d[a]}
  <2>4. PICK b \in E : \A u \in E : at(b) <= at(u)
    <3>1. [s \in E |-> at(s)] \in [E -> Nat] /\ E # {}
      BY <2>1
    <3>2. \E s \in E : \A u \in E : [t \in E |-> at(t)][s] <= [t \in E |-> at(t)][u]
      BY <3>1, LeastValue
    <3> QED BY <3>2
  <2>5. ASSUME NEW u \in S, u # b PROVE d[b] < d[u] \/ (d[b] = d[u] /\ at(b) < at(u))
    <3>1. b \in S /\ d[b] = d[a] /\ d[a] <= d[u] /\ d[a] \in Nat /\ d[u] \in Nat
      BY <2>2, <2>3, <2>4
    <3>2. at(u) # at(b)
      <4>1. u[1] = b[1] /\ u \in Sat /\ b \in Sat
        BY <2>2, <3>1
      <4>2. at(u) = at(b) => u[2] = b[2]
        BY <2>1, <3>1
      <4> QED BY <2>5, <4>1, <4>2 DEF Sat
    <3>3. d[u] = d[a] => at(b) <= at(u)
      BY <2>4
    <3>4. at(b) \in Nat /\ at(u) \in Nat
      BY <2>1, <3>1
    <3> QED BY <3>1, <3>2, <3>3, <3>4
  <2> QED BY <2>4, <2>5
<1>5. S # {} => g \in S
  <2> HIDE DEF S, nearest
  <2> QED BY <1>1, <1>4
<1>6. S = {} => g = None
  BY <1>1
<1>7. Visible(d, <<last[1], Predecessor(last[2])>>) => S # {}
  <2>1. <<last[1], Predecessor(last[2])>> \in Sat
    BY <1>2, <1>3 DEF Sat
  <2> HIDE DEF order
  <2> QED BY <1>3, <2>1
<1>8. S \subseteq Sat /\ \A s \in S : s[1] = last[1] /\ Visible(d, s)
  OBVIOUS
<1> HIDE DEF S, g
<1>9. /\ g # None => g \in Sat /\ g[1] = last[1] /\ Visible(d, g)
      /\ Visible(d, <<last[1], Predecessor(last[2])>>) => g # None
  BY <1>5, <1>6, <1>7, <1>8, NoneAssumption
<1> QED BY <1>9 DEF g

----------------------------------------------------------------------------
(* The strategies over the epochs.                                         *)

LEMMA DistType == \A d \in [Sat -> Dist] : d \in Distances
BY DistAssumption DEF Distances

\* What orbitClosestLazy chooses, from no satellite or from one.
LEMMA OrbitLazyChooses ==
  ASSUME NEW d \in Distances, NEW last \in Sat \cup {None}
  PROVE  LET o == OrbitClosestLazy(d, last)
         IN  /\ o \in Sat
             /\ (\E s \in Sat : Visible(d, s)) => Visible(d, o)
             /\ last # None /\ o # last => ~Visible(d, last)
             /\ last # None /\ o[1] # last[1]
                  => ~Visible(d, <<last[1], Predecessor(last[2])>>)
<1>1. CASE last = None
  BY <1>1, ClosestNearest DEF OrbitClosestLazy
<1>2. CASE last # None /\ Visible(d, last)
  BY <1>2 DEF OrbitClosestLazy
<1>3. CASE last # None /\ ~Visible(d, last)
  <2>1. last \in Sat
    BY <1>3
  <2>2. OrbitClosestLazy(d, last) =
          IF GetOrbitClosest(d, last) = None THEN GetClosest(d) ELSE GetOrbitClosest(d, last)
    BY <1>3 DEF OrbitClosestLazy
  <2> QED BY <1>3, <2>1, <2>2, ClosestNearest, OrbitNearest
<1> QED BY <1>1, <1>2, <1>3

\* While a satellite is visible, no satellite is nearer than getClosest's.
LEMMA ClosestOfAll ==
  ASSUME NEW d \in Distances, \E s \in Sat : Visible(d, s), NEW s \in Sat
  PROVE  d[GetClosest(d)] <= d[s]
<1>1. /\ GetClosest(d) \in Sat /\ Visible(d, GetClosest(d))
      /\ Visible(d, s) => d[GetClosest(d)] <= d[s]
  BY ClosestNearest
<1>2. d[GetClosest(d)] \in Nat /\ d[s] \in Nat /\ MAX_DISTANCE \in Nat
  BY <1>1, DistAssumption DEF Distances
<1> QED BY <1>1, <1>2 DEF Visible

\* Strategies of this and of the last epoch.
Chosen ==
  /\ active = GetClosest(dist)
  /\ \E last \in Sat \cup {None} : orbitLazy = OrbitClosestLazy(dist, last)

AccessInv == TypeOK /\ Chosen

LEMMA AccessInit == Init => AccessInv
<1> SUFFICES ASSUME Init PROVE AccessInv
  OBVIOUS
<1>1. dist \in Distances /\ dist \in [Sat -> Dist]
  BY DistType DEF Init
<1>2. active = GetClosest(dist) /\ lazy = None /\ orbitLazy = OrbitClosestLazy(dist, None)
  BY DEF Init, ClosestActive, ClosestLazy
<1>3. active \in Sat /\ orbitLazy \in Sat
  BY <1>1, <1>2, ClosestNearest, OrbitLazyChooses
<1> QED BY <1>1, <1>2, <1>3 DEF AccessInv, Chosen, TypeOK

LEMMA AccessStep == AccessInv /\ [Next]_vars => AccessInv'
<1> SUFFICES ASSUME AccessInv, [Next]_vars PROVE AccessInv'
  OBVIOUS
<1>1. CASE NextEpoch
  <2>1. dist' \in Distances
    BY <1>1, DistType DEF NextEpoch
  <2>2. active' = GetClosest(dist') /\ orbitLazy' = OrbitClosestLazy(dist', orbitLazy)
        /\ orbitLazy \in Sat
    BY <1>1 DEF NextEpoch, ClosestActive, AccessInv, TypeOK
  <2>3. active' \in Sat /\ orbitLazy' \in Sat
    BY <2>1, <2>2, ClosestNearest, OrbitLazyChooses
  <2>4. lazy' \in Sat \cup {None}
    BY <1>1, <2>1, ClosestNearest DEF NextEpoch, ClosestLazy, AccessInv, TypeOK
  <2> QED BY <1>1, <2>2, <2>3, <2>4 DEF NextEpoch, AccessInv, Chosen, TypeOK
<1>2. CASE UNCHANGED vars
  BY <1>2 DEF vars, AccessInv, Chosen, TypeOK
<1> QED BY <1>1, <1>2 DEF Next

\* While a satellite is visible, closestActive has a nearest one.
THEOREM ActiveIsNearest == Spec => []ActiveNearest
<1>1. AccessInv => ActiveNearest
  BY DistType, ClosestOfAll DEF AccessInv, Chosen, TypeOK, ActiveNearest, SomeVisible
<1> QED BY <1>1, AccessInit, AccessStep, PTL DEF Spec

\* While a satellite is visible, orbitClosestLazy has a visible one.
THEOREM OrbitLazyIsVisible == Spec => []OrbitLazyVisible
<1>1. AccessInv => OrbitLazyVisible
  <2> SUFFICES ASSUME AccessInv, SomeVisible PROVE Visible(dist, orbitLazy)
    BY DEF OrbitLazyVisible
  <2>1. dist \in Distances
    BY DistType DEF AccessInv, TypeOK
  <2>2. PICK last \in Sat \cup {None} : orbitLazy = OrbitClosestLazy(dist, last)
    BY DEF AccessInv, Chosen
  <2> QED BY <2>1, <2>2, OrbitLazyChooses DEF SomeVisible
<1> QED BY <1>1, AccessInit, AccessStep, PTL DEF Spec

\* orbitClosestLazy leaves a satellite only when it is out of sight, and its
\* orbit only when the satellite's predecessor is out of sight too.
THEOREM OrbitLazyStays == Spec => OrbitLazyKeeps
<1> DEFINE Keeps ==
      LET before == (orbitLazy[2] + NUM_SATS_PER_ORBIT - 1) % NUM_SATS_PER_ORBIT
      IN  /\ orbitLazy' # orbitLazy => ~Visible(dist', orbitLazy)
          /\ orbitLazy'[1] # orbitLazy[1] => ~Visible(dist', <<orbitLazy[1], before>>)
<1>1. AccessInv /\ NextEpoch => Keeps
  <2> SUFFICES ASSUME AccessInv, NextEpoch PROVE Keeps
    OBVIOUS
  <2>1. /\ dist' \in Distances /\ orbitLazy \in Sat
        /\ orbitLazy' = OrbitClosestLazy(dist', orbitLazy)
    BY DistType DEF NextEpoch, AccessInv, TypeOK
  <2> QED BY <2>1, OrbitLazyChooses, NoneAssumption DEF Predecessor
<1>2. AccessInv /\ [Next]_vars => [Keeps]_vars
  BY <1>1 DEF Next
<1> QED BY <1>2, AccessInit, AccessStep, PTL DEF Spec, OrbitLazyKeeps
=============================================================================
