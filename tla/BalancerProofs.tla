---------------------------- MODULE BalancerProofs ----------------------------
(***************************************************************************)
(* Machine-checked proofs about the balancers, for lists of any length.    *)
(* Induction is done with the least element of a set of counterexamples.   *)
(***************************************************************************)
EXTENDS Balancer, FiniteSetTheorems, WellFoundedInduction, TLAPS

\* A set of natural numbers that is not empty has a least element.
LEMMA LeastNumber ==
  ASSUME NEW T, T \subseteq Nat, T # {}
  PROVE  \E x \in T : \A y \in T : x <= y
<1> DEFINE R == {ss \in Nat \X Nat : ss[1] < ss[2]}
<1>1. IsWellFoundedOn(R, Nat)
  BY NatLessThanWellFounded DEF OpToRel
<1>2. \E x \in T : \A y \in T : ~(<<y, x>> \in R)
  <2> HIDE DEF R
  <2>1. QED
    BY <1>1, WFMin
<1>3. PICK x \in T : \A y \in T : ~(<<y, x>> \in R)
  BY <1>2
<1>4. \A y \in T : ~(y < x)
  BY <1>3
<1>5. QED
  BY <1>3, <1>4

\* A list Select can be given: some nodes, and their counts.
IsList(nodes, S) ==
    /\ nodes \in Seq(S)
    /\ Len(nodes) > 0
    /\ \A n \in S : n.activeTasks \in Nat

-----------------------------------------------------------------------------

\* Round robin, and the balancer called random, return a node of the list.
THEOREM RoundRobinSelects ==
  ASSUME NEW S, NEW nodes, IsList(nodes, S), NEW counter \in Nat
  PROVE  RoundRobin(counter, nodes) \in S /\ Random(counter, nodes) \in S
<1>1. Len(nodes) \in Nat \ {0} /\ \A i \in 1..Len(nodes) : nodes[i] \in S
  BY DEF IsList
<1>2. (counter % Len(nodes)) \in 0..(Len(nodes) - 1)
  BY <1>1
<1>3. (counter % Len(nodes)) + 1 \in 1..Len(nodes)
  BY <1>1, <1>2
<1>4. QED
  BY <1>1, <1>3 DEF RoundRobin, Random

-----------------------------------------------------------------------------

\* A number that is r more than a multiple of m leaves r.
LEMMA Remainder ==
  ASSUME NEW m \in Nat \ {0}, NEW q \in Nat, NEW r \in 0..(m - 1)
  PROVE  (m * q + r) % m = r
<1> DEFINE c == m * q + r
<1>1. c \in Nat /\ c \div m \in Nat /\ c % m \in 0..(m - 1) /\ c = m * (c \div m) + (c % m)
  OBVIOUS
<1>2. QED
  BY <1>1

\* No node of the list is named twice.
Distinct(nodes) == \A i, j \in DOMAIN nodes : nodes[i] = nodes[j] => i = j

\* While the list stays as it is, round robin takes turns: in as many calls in a row as
\* there are nodes each of them is chosen, and none of them twice (the counter has
\* sixty-four bits; where it starts again a turn is cut short).
THEOREM RoundRobinTakesTurns ==
  ASSUME NEW S, NEW nodes, IsList(nodes, S), Distinct(nodes), NEW a \in Nat
  PROVE  /\ \A i \in DOMAIN nodes :
              \E c \in a..(a + Len(nodes) - 1) : RoundRobin(c, nodes) = nodes[i]
         /\ \A b, c \in a..(a + Len(nodes) - 1) :
              RoundRobin(b, nodes) = RoundRobin(c, nodes) => b = c
<1> DEFINE L == Len(nodes)
<1>1. L \in Nat \ {0} /\ DOMAIN nodes = 1..L
  BY DEF IsList
<1> HIDE DEF L
<1>2. \A c \in Nat : c \div L \in Nat /\ c % L \in 0..(L - 1) /\ c = L * (c \div L) + (c % L)
  BY <1>1
<1>3. ASSUME NEW i \in 1..L
      PROVE  \E c \in a..(a + L - 1) : c % L = i - 1
  <2> DEFINE q == a \div L
             r == a % L
  <2>1. q \in Nat /\ r \in 0..(L - 1) /\ a = L * q + r
    BY <1>2
  <2> HIDE DEF q, r
  <2>2. CASE i - 1 >= r
    <3>1. (L * q + (i - 1)) % L = i - 1
      BY <1>1, <1>3, <2>1, Remainder
    <3>2. L * q \in Nat
      BY <1>1, <2>1
    <3>3. L * q + (i - 1) \in a..(a + L - 1)
      BY <1>1, <1>3, <2>1, <2>2, <3>2
    <3>4. QED
      BY <3>1, <3>3
  <2>3. CASE i - 1 < r
    <3>1. (L * (q + 1) + (i - 1)) % L = i - 1
      BY <1>1, <1>3, <2>1, Remainder
    <3>2. L * q \in Nat /\ L * (q + 1) = L * q + L
      BY <1>1, <2>1
    <3>3. L * (q + 1) + (i - 1) \in a..(a + L - 1)
      BY <1>1, <1>3, <2>1, <2>3, <3>2
    <3>4. QED
      BY <3>1, <3>3
  <2>4. QED
    BY <1>1, <2>1, <2>2, <2>3
<1>4. ASSUME NEW b \in Nat, NEW c \in Nat, b % L = c % L, b < c
      PROVE  c >= b + L
  <2> DEFINE r == b % L
  <2>1. PICK x \in Nat : c = L * x + r
    BY <1>2, <1>4
  <2>2. PICK y \in Nat : b = L * y + r
    BY <1>2
  <2>3. r \in Nat /\ L * x \in Nat /\ L * y \in Nat
    BY <1>1, <1>2
  <2> HIDE DEF r
  <2>4. L * x > L * y
    BY <1>4, <2>1, <2>2, <2>3
  <2>5. x >= y + 1
    BY <1>1, <2>4
  <2>6. L * x >= L * (y + 1) /\ L * (y + 1) = L * y + L
    BY <1>1, <2>5
  <2>7. QED
    BY <1>1, <2>1, <2>2, <2>3, <2>6
<1>5. ASSUME NEW b \in Nat, NEW c \in Nat, RoundRobin(b, nodes) = RoundRobin(c, nodes)
      PROVE  b % L = c % L
  <2>1. (b % L) + 1 \in 1..L /\ (c % L) + 1 \in 1..L
    BY <1>1, <1>2
  <2>2. nodes[(b % L) + 1] = nodes[(c % L) + 1]
    BY <1>5 DEF RoundRobin, L
  <2>3. (b % L) + 1 = (c % L) + 1
    BY <1>1, <2>1, <2>2 DEF Distinct
  <2>4. QED
    BY <1>2, <2>3
<1>6. \A i \in DOMAIN nodes : \E c \in a..(a + L - 1) : RoundRobin(c, nodes) = nodes[i]
  <2> TAKE i \in DOMAIN nodes
  <2>1. PICK c \in a..(a + L - 1) : c % L = i - 1
    BY <1>1, <1>3
  <2>2. RoundRobin(c, nodes) = nodes[i]
    BY <1>1, <2>1 DEF RoundRobin, L
  <2>3. QED
    BY <2>2
<1>7. ASSUME NEW b \in a..(a + L - 1), NEW c \in a..(a + L - 1),
             RoundRobin(b, nodes) = RoundRobin(c, nodes)
      PROVE  b = c
  <2>1. b \in Nat /\ c \in Nat /\ ~(c >= b + L) /\ ~(b >= c + L)
    BY <1>1
  <2>2. b % L = c % L
    BY <1>5, <1>7, <2>1
  <2>3. ~(b < c) /\ ~(c < b)
    BY <1>4, <2>1, <2>2
  <2>4. QED
    BY <2>1, <2>3
<1>8. QED
  BY <1>6, <1>7 DEF L

-----------------------------------------------------------------------------

\* The loop over the nodes finds the first of the least loaded.
THEOREM LeastConnectionsSelects ==
  ASSUME NEW S, NEW nodes, IsList(nodes, S)
  PROVE  /\ LeastConnections(nodes) \in S
         /\ \A i \in DOMAIN nodes : LeastConnections(nodes).activeTasks <= nodes[i].activeTasks
<1> DEFINE D == DOMAIN nodes
           tasks(i) == nodes[i].activeTasks
           Best(i) == \A j \in D : tasks(i) <= tasks(j) /\ (tasks(i) = tasks(j) => i <= j)
<1>1. D = 1..Len(nodes) /\ D # {} /\ \A i \in D : nodes[i] \in S /\ tasks(i) \in Nat
  <2>1. D = 1..Len(nodes) /\ 1 \in D /\ \A i \in D : nodes[i] \in S
    BY DEF IsList
  <2>2. QED
    BY <2>1 DEF IsList
<1>2. PICK i \in D : \A j \in D : tasks(i) <= tasks(j)
  <2>1. {tasks(i) : i \in D} \subseteq Nat /\ {tasks(i) : i \in D} # {}
    BY <1>1
  <2>2. PICK x \in {tasks(i) : i \in D} : \A y \in {tasks(i) : i \in D} : x <= y
    BY <2>1, LeastNumber
  <2>3. QED
    BY <2>2
<1>3. PICK k \in {j \in D : tasks(j) = tasks(i)} : \A j \in {l \in D : tasks(l) = tasks(i)} : k <= j
  <2>1. {j \in D : tasks(j) = tasks(i)} \subseteq Nat
    BY <1>1
  <2>2. i \in {j \in D : tasks(j) = tasks(i)}
    BY <1>2
  <2>3. QED
    BY <2>1, <2>2, LeastNumber
<1>4. Best(k)
  BY <1>1, <1>2, <1>3
<1>5. \E j \in D : Best(j)
  BY <1>3, <1>4
<1>6. LeastConnections(nodes) = nodes[CHOOSE j \in D : Best(j)]
  BY DEF LeastConnections
<1> DEFINE b == CHOOSE j \in D : Best(j)
<1>7. b \in D /\ Best(b)
  BY <1>5
<1>8. QED
  BY <1>1, <1>6, <1>7

-----------------------------------------------------------------------------
(* The weighted balancer.                                                  *)

\* What the recursive function of CapacityTo is.
IsCapacityTo(nodes, f, m) ==
    f = [i \in 0..m |-> IF i = 0 THEN 0 ELSE f[i - 1] + AvailableCapacity(nodes[i])]

\* There is such a function for the first m nodes, for every m.
LEMMA CapacityExists ==
  ASSUME NEW nodes, NEW m \in Nat
  PROVE  \E f : IsCapacityTo(nodes, f, m)
<1> DEFINE Bad == {k \in Nat : ~\E f : IsCapacityTo(nodes, f, k)}
<1>1. SUFFICES ASSUME Bad # {} PROVE FALSE
  OBVIOUS
<1>2. PICK k \in Bad : \A y \in Bad : k <= y
  BY <1>1, LeastNumber
<1>3. CASE k = 0
  <2> DEFINE g == [i \in 0..0 |-> 0]
  <2>1. IsCapacityTo(nodes, g, 0)
    BY DEF IsCapacityTo
  <2>2. QED
    BY <1>2, <1>3, <2>1
<1>4. CASE k # 0
  <2>1. k - 1 \in Nat /\ k - 1 \notin Bad
    BY <1>2, <1>4
  <2>2. PICK f : IsCapacityTo(nodes, f, k - 1)
    BY <2>1
  <2> DEFINE c(i) == AvailableCapacity(nodes[i])
             g == [i \in 0..k |-> IF i = k THEN f[k - 1] + c(k) ELSE f[i]]
  <2>3. f = [i \in 0..(k - 1) |-> IF i = 0 THEN 0 ELSE f[i - 1] + c(i)]
    BY <2>2 DEF IsCapacityTo
  <2>4. \A i \in 0..(k - 1) : f[i] = IF i = 0 THEN 0 ELSE f[i - 1] + c(i)
    BY <2>3
  <2> HIDE DEF c
  <2>5. \A i \in 0..k : g[i] = IF i = 0 THEN 0 ELSE g[i - 1] + c(i)
    <3> TAKE i \in 0..k
    <3>1. CASE i = k
      BY <1>2, <1>4, <3>1
    <3>2. CASE i # k
      <4>1. i \in 0..(k - 1) /\ g[i] = f[i]
        BY <1>2, <3>2
      <4>2. i # 0 => i - 1 \in 0..(k - 1) /\ g[i - 1] = f[i - 1]
        BY <1>2, <3>2
      <4>3. QED
        BY <2>4, <4>1, <4>2
    <3>3. QED
      BY <3>1, <3>2
  <2> DEFINE h == [i \in 0..k |-> IF i = 0 THEN 0 ELSE g[i - 1] + c(i)]
  <2>6. g = h
    BY <2>5
  <2>7. IsCapacityTo(nodes, g, k)
    BY <2>6 DEF IsCapacityTo, c
  <2>8. QED
    BY <1>2, <2>7
<1>5. QED
  BY <1>3, <1>4

\* The capacity of the first i nodes is that of those before and that of the i-th.
LEMMA CapacityUnfolds ==
  ASSUME NEW nodes, Len(nodes) \in Nat
  PROVE  /\ CapacityTo(nodes)[0] = 0
         /\ \A i \in 1..Len(nodes) :
              CapacityTo(nodes)[i] = CapacityTo(nodes)[i - 1] + AvailableCapacity(nodes[i])
<1>1. \E f : IsCapacityTo(nodes, f, Len(nodes))
  BY CapacityExists
<1>2. CapacityTo(nodes) = CHOOSE f : IsCapacityTo(nodes, f, Len(nodes))
  BY DEF CapacityTo, IsCapacityTo
<1>3. IsCapacityTo(nodes, CapacityTo(nodes), Len(nodes))
  BY <1>1, <1>2
<1>4. QED
  BY <1>3 DEF IsCapacityTo

\* Capacities, and their sums, are whole numbers, below zero for a node over its limit.
LEMMA CapacityIsInt ==
  ASSUME NodeTasks \in Nat, NEW S, NEW nodes, IsList(nodes, S)
  PROVE  \A i \in 0..Len(nodes) : CapacityTo(nodes)[i] \in Int
<1> DEFINE sum == CapacityTo(nodes)
           Bad == {i \in 0..Len(nodes) : sum[i] \notin Int}
<1>1. Len(nodes) \in Nat /\ \A i \in 1..Len(nodes) : AvailableCapacity(nodes[i]) \in Int
  <2>1. Len(nodes) \in Nat /\ \A i \in 1..Len(nodes) : nodes[i] \in S
    BY DEF IsList
  <2>2. QED
    BY <2>1 DEF IsList, AvailableCapacity
<1>2. /\ sum[0] = 0
      /\ \A i \in 1..Len(nodes) : sum[i] = sum[i - 1] + AvailableCapacity(nodes[i])
  BY <1>1, CapacityUnfolds
<1> HIDE DEF sum
<1>3. SUFFICES ASSUME Bad # {} PROVE FALSE
  BY DEF sum
<1>4. PICK k \in Bad : \A y \in Bad : k <= y
  <2>1. Bad \subseteq Nat
    BY <1>1
  <2>2. QED
    BY <1>3, <2>1, LeastNumber
<1>5. k # 0 /\ k \in 1..Len(nodes) /\ k - 1 \in 0..Len(nodes)
  BY <1>1, <1>2, <1>4
<1>6. sum[k - 1] \in Int
  BY <1>1, <1>4, <1>5
<1>7. QED
  BY <1>1, <1>2, <1>4, <1>5, <1>6

\* The weighted choice is a node of the list.  When the capacities add up to more than
\* nothing it is one with room, also next to nodes above their limit and wherever the
\* counter is; the fallback behind the loop is not needed then.
THEOREM WeightedSelects ==
  ASSUME NodeTasks \in Nat, NEW S, NEW nodes, IsList(nodes, S), NEW counter \in Nat
  PROVE  /\ Weighted(counter, nodes) \in S
         /\ TotalWeight(nodes) > 0 =>
              Hits(counter, nodes) # {} /\ AvailableCapacity(Weighted(counter, nodes)) > 0
<1> DEFINE sum == CapacityTo(nodes)
           t == Target(counter, nodes)
           L == Len(nodes)
           H == Hits(counter, nodes)
           First == CHOOSE i \in H : \A j \in H : i <= j
<1>1. L \in Nat \ {0} /\ DOMAIN nodes = 1..L /\ \A i \in 1..L : nodes[i] \in S
  BY DEF IsList
<1>2. \A i \in 1..L : AvailableCapacity(nodes[i]) \in Int
  BY <1>1 DEF IsList, AvailableCapacity
<1>3. /\ sum[0] = 0
      /\ \A i \in 1..L : sum[i] = sum[i - 1] + AvailableCapacity(nodes[i])
      /\ \A i \in 0..L : sum[i] \in Int
  BY <1>1, CapacityUnfolds, CapacityIsInt
<1>4. H = {i \in 1..L : t < sum[i]}
  BY <1>1 DEF Hits
<1>5. TotalWeight(nodes) = sum[L]
  BY DEF TotalWeight
<1>6. H # {} => First \in H /\ \A j \in H : First <= j
  <2>1. H \subseteq Nat
    BY <1>4
  <2> HIDE DEF H
  <2>2. QED
    BY <2>1, LeastNumber
<1>7. Weighted(counter, nodes) \in S
  <2>1. RoundRobin(counter, nodes) \in S
    BY RoundRobinSelects
  <2>2. H # {} => nodes[First] \in S
    BY <1>1, <1>4, <1>6
  <2>3. nodes[1] \in S
    BY <1>1
  <2>4. QED
    BY <2>1, <2>2, <2>3 DEF Weighted
<1>8. ASSUME TotalWeight(nodes) > 0
      PROVE  H # {} /\ AvailableCapacity(Weighted(counter, nodes)) > 0
  <2>1. t \in Nat /\ t < sum[L]
    BY <1>1, <1>3, <1>5, <1>8 DEF Target
  <2>2. L \in H
    BY <1>1, <1>4, <2>1
  <2>3. First \in 1..L /\ t < sum[First] /\ \A j \in H : First <= j
    BY <1>4, <1>6, <2>2
  <2>4. Weighted(counter, nodes) = nodes[First]
    BY <1>8, <1>3, <1>5, <1>1, <2>2 DEF Weighted
  <2> HIDE DEF sum, t, First
  <2>5. sum[First - 1] <= t
    <3>1. CASE First = 1
      BY <1>3, <2>1, <3>1
    <3>2. CASE First # 1
      <4>1. First - 1 \in 1..L /\ First - 1 \notin H
        BY <1>1, <2>3, <3>2
      <4>2. QED
        BY <1>3, <1>4, <2>1, <4>1
    <3>3. QED
      BY <3>1, <3>2
  <2>6. AvailableCapacity(nodes[First]) > 0
    BY <1>1, <1>2, <1>3, <2>1, <2>3, <2>5
  <2>7. QED
    BY <2>2, <2>4, <2>6
<1>9. QED
  BY <1>7, <1>8

\* The targets for which the weighted loop stops at the i-th node.
Share(i, nodes) == CapacityTo(nodes)[i - 1]..(CapacityTo(nodes)[i] - 1)

\* Among nodes none of which is above its limit, and while their loads stay as they are,
\* the weighted balancer shares by room: of as many calls in a row as the nodes have room
\* for tasks, a node gets those whose targets are in its share, which is as large as its
\* own room.
THEOREM WeightedTakesShares ==
  ASSUME NodeTasks \in Nat, NEW S, NEW nodes, IsList(nodes, S), Distinct(nodes),
         \A i \in DOMAIN nodes : nodes[i].activeTasks <= NodeTasks,
         TotalWeight(nodes) > 0,
         NEW i \in DOMAIN nodes
  PROVE  /\ \A counter \in Nat :
              Weighted(counter, nodes) = nodes[i] <=>
                (counter % TotalWeight(nodes)) \in Share(i, nodes)
         /\ Share(i, nodes) \subseteq 0..(TotalWeight(nodes) - 1)
         /\ Cardinality(Share(i, nodes)) = AvailableCapacity(nodes[i])
<1> DEFINE sum == CapacityTo(nodes)
           L == Len(nodes)
           room(j) == AvailableCapacity(nodes[j])
           total == TotalWeight(nodes)
<1>1. L \in Nat \ {0} /\ DOMAIN nodes = 1..L /\ i \in 1..L /\ \A j \in 1..L : nodes[j] \in S
  BY DEF IsList
<1>2. \A j \in 1..L : room(j) \in Nat
  <2>1. \A j \in 1..L : nodes[j].activeTasks \in Nat /\ nodes[j].activeTasks <= NodeTasks
    BY <1>1 DEF IsList
  <2>2. QED
    BY <2>1 DEF AvailableCapacity
<1>3. /\ sum[0] = 0
      /\ \A j \in 1..L : sum[j] = sum[j - 1] + room(j)
      /\ \A j \in 0..L : sum[j] \in Int
      /\ total = sum[L]
  BY <1>1, CapacityUnfolds, CapacityIsInt DEF TotalWeight
<1>4. Share(i, nodes) = sum[i - 1]..(sum[i] - 1)
  BY DEF Share
<1>5. \A counter \in Nat : Hits(counter, nodes) = {j \in 1..L : counter % total < sum[j]}
  BY <1>1 DEF Hits, Target
<1>6. Distinct(nodes)
  OBVIOUS
<1>7. \A counter : Weighted(counter, nodes) =
        IF Hits(counter, nodes) = {} THEN nodes[1]
        ELSE nodes[CHOOSE j \in Hits(counter, nodes) : \A k \in Hits(counter, nodes) : j <= k]
  BY <1>1, <1>3 DEF Weighted
<1>8. total \in Nat \ {0}
  BY <1>1, <1>3
<1> HIDE DEF sum, L, room, total
\* The sums grow along the list.
<1>9. \A j, k \in 0..L : j <= k => sum[j] <= sum[k]
  <2> SUFFICES ASSUME NEW j \in 0..L PROVE \A k \in 0..L : j <= k => sum[j] <= sum[k]
    OBVIOUS
  <2> DEFINE Bad == {k \in 0..L : j <= k /\ ~(sum[j] <= sum[k])}
  <2>1. SUFFICES ASSUME Bad # {} PROVE FALSE
    OBVIOUS
  <2>2. PICK k \in Bad : \A y \in Bad : k <= y
    <3>1. Bad \subseteq Nat
      BY <1>1
    <3>2. QED
      BY <2>1, <3>1, LeastNumber
  <2>3. k # j /\ k \in 1..L /\ k - 1 \in 0..L /\ j <= k - 1
    BY <1>1, <1>3, <2>2
  <2>4. sum[j] <= sum[k - 1]
    BY <1>1, <2>2, <2>3
  <2>5. QED
    BY <1>1, <1>2, <1>3, <2>2, <2>3, <2>4
<1>10. i - 1 \in 0..L /\ sum[i] = sum[i - 1] + room(i) /\ 0 <= sum[i - 1] /\ sum[i] <= total
  <2>1. i - 1 \in 0..L /\ 0 \in 0..L /\ L \in 0..L /\ i \in 0..L
    BY <1>1
  <2>2. QED
    BY <1>1, <1>3, <1>9, <2>1
<1>11. ASSUME NEW counter \in Nat
       PROVE  Weighted(counter, nodes) = nodes[i] <=> counter % total \in Share(i, nodes)
  <2> DEFINE t == counter % total
             H == Hits(counter, nodes)
             First == CHOOSE j \in H : \A k \in H : j <= k
  <2>1. t \in Nat /\ t < total
    BY <1>8
  <2>2. H = {j \in 1..L : t < sum[j]}
    BY <1>5
  <2>3. L \in H
    BY <1>1, <1>3, <2>1, <2>2
  <2>4. First \in H /\ \A k \in H : First <= k
    <3>1. H \subseteq Nat
      BY <1>1, <2>2
    <3> HIDE DEF H
    <3>2. QED
      BY <2>3, <3>1, LeastNumber
  <2>5. Weighted(counter, nodes) = nodes[First]
    BY <1>7, <2>3
  <2> HIDE DEF t, H, First
  <2>6. Weighted(counter, nodes) = nodes[i] <=> First = i
    BY <1>1, <1>6, <2>2, <2>4, <2>5 DEF Distinct
  <2>7. ASSUME First = i PROVE sum[i - 1] <= t /\ t < sum[i]
    <3>1. t < sum[i]
      BY <2>2, <2>4, <2>7
    <3>2. i # 1 => i - 1 \in 1..L /\ i - 1 \notin H
      BY <1>1, <2>4, <2>7
    <3>3. QED
      BY <1>1, <1>3, <1>10, <2>1, <2>2, <3>1, <3>2
  <2>8. ASSUME sum[i - 1] <= t, t < sum[i] PROVE First = i
    <3>1. i \in H
      BY <1>1, <2>2, <2>8
    <3>2. ASSUME First < i PROVE FALSE
      <4>1. First \in 0..L /\ First <= i - 1
        BY <1>1, <2>2, <2>4, <3>2
      <4>2. sum[First] <= sum[i - 1] /\ sum[First] \in Int /\ sum[i - 1] \in Int
        BY <1>3, <1>9, <1>10, <4>1
      <4>3. QED
        BY <2>1, <2>2, <2>4, <2>8, <4>2
    <3>3. QED
      BY <1>1, <2>2, <2>4, <3>1, <3>2
  <2>9. sum[i - 1] \in Int /\ sum[i] \in Int
    BY <1>1, <1>3, <1>10
  <2>10. (t \in Share(i, nodes)) <=> (sum[i - 1] <= t /\ t < sum[i])
    BY <1>4, <2>1, <2>9
  <2>11. QED
    BY <2>6, <2>7, <2>8, <2>10 DEF t
<1>12. sum[i - 1] \in Nat /\ sum[i] \in Nat
  <2>1. sum[i - 1] \in Int /\ room(i) \in Nat
    BY <1>1, <1>2, <1>3, <1>10
  <2>2. QED
    BY <1>10, <2>1
<1>13. Share(i, nodes) \subseteq 0..(total - 1)
  BY <1>4, <1>8, <1>10, <1>12
<1>14. Cardinality(Share(i, nodes)) = room(i)
  <2>1. room(i) \in Nat
    BY <1>1, <1>2
  <2>2. Cardinality(sum[i - 1]..(sum[i] - 1)) =
          IF sum[i - 1] > sum[i] - 1 THEN 0 ELSE (sum[i] - 1) - sum[i - 1] + 1
    <3>1. sum[i - 1] \in Int /\ sum[i] - 1 \in Int
      BY <1>12
    <3>2. QED
      BY <3>1, FS_Interval
  <2>3. QED
    BY <1>4, <1>10, <1>12, <2>1, <2>2
<1>15. QED
  BY <1>11, <1>13, <1>14 DEF total, room
==============================================================================
