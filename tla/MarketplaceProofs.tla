--------------------------- MODULE MarketplaceProofs ---------------------------
(***************************************************************************)
(* The plots always partition the Pod line, for every number of accounts,  *)
(* length of the line and choice of the other constants.                   *)
(***************************************************************************)
EXTENDS Marketplace, LibTransferProofs

PlotsTypeOK == plots \in [Accounts -> [Index -> Index]]

(***************************************************************************)
(* Lemmas about plots                                                      *)
(***************************************************************************)

\* Where MovePods writes: the recipient's new plot, what is left of the
\* sender's before the cut, and what is left after it.
LEMMA MovePodsAt ==
    ASSUME PlotsTypeOK, NEW from \in Accounts, NEW to \in Accounts, from # to,
           NEW id \in Index, NEW start \in Nat, NEW amount \in Nat,
           start + amount <= plots[from][id]
    PROVE  /\ MovePods(from, to, id, start, amount) \in [Accounts -> [Index -> Index]]
           /\ \A x \in Accounts, i \in Index :
                 MovePods(from, to, id, start, amount)[x][i] =
                   IF x = to
                   THEN IF i = id + start THEN amount ELSE plots[x][i]
                   ELSE IF x = from
                   THEN IF i = id + start + amount /\ start + amount # plots[from][id]
                        THEN plots[from][id] - (start + amount)
                        ELSE IF i = id THEN start ELSE plots[x][i]
                   ELSE plots[x][i]
<1> DEFINE size == plots[from][id]
           p == InsertPlot(plots, to, id + start, amount)
           cut == [p EXCEPT ![from][id] = start]
           q == MovePods(from, to, id, start, amount)
<1>1. /\ size \in Index /\ MaxPods \in Nat /\ start \in Index /\ amount \in Index
      /\ size - (start + amount) \in Index
  <2>1. MaxPods \in Nat /\ size \in Index
      BY FieldAssumption DEF PlotsTypeOK
  <2> QED
      BY <2>1 DEF Index
<1>2. /\ p \in [Accounts -> [Index -> Index]]
      /\ \A x \in Accounts, i \in Index :
            p[x][i] = IF x = to /\ i = id + start THEN amount ELSE plots[x][i]
    BY <1>1 DEF InsertPlot, PlotsTypeOK
<1>3. p[from][id] = size
    BY <1>2
<1>4. q = IF start + amount = size THEN cut
          ELSE [cut EXCEPT ![from][id + (start + amount)] = size - (start + amount)]
    BY <1>3 DEF MovePods, RemovePlot
<1> HIDE DEF p, q, size
<1>5. /\ cut \in [Accounts -> [Index -> Index]]
      /\ \A x \in Accounts, i \in Index :
            cut[x][i] = IF x = from /\ i = id THEN start ELSE p[x][i]
    BY <1>1, <1>2
<1> HIDE DEF cut
<1>6. /\ q \in [Accounts -> [Index -> Index]]
      /\ \A x \in Accounts, i \in Index :
            q[x][i] = IF start + amount # size /\ x = from /\ i = id + start + amount
                      THEN size - (start + amount) ELSE cut[x][i]
  <2>1. id + (start + amount) = id + start + amount
      BY DEF Index
  <2>2. CASE start + amount = size
      BY <1>4, <1>5, <2>2
  <2>3. CASE start + amount # size
    <3>1. q = [cut EXCEPT ![from][id + start + amount] = size - (start + amount)]
        BY <1>4, <2>1, <2>3
    <3> QED
        BY <1>1, <1>5, <2>3, <3>1
  <2> QED
      BY <2>2, <2>3
<1>7. ASSUME NEW x \in Accounts, NEW i \in Index
      PROVE  q[x][i] = IF x = to
                       THEN IF i = id + start THEN amount ELSE plots[x][i]
                       ELSE IF x = from
                       THEN IF i = id + start + amount /\ start + amount # size
                            THEN size - (start + amount)
                            ELSE IF i = id THEN start ELSE plots[x][i]
                       ELSE plots[x][i]
  <2>1. /\ p[x][i] = IF x = to /\ i = id + start THEN amount ELSE plots[x][i]
        /\ cut[x][i] = IF x = from /\ i = id THEN start ELSE p[x][i]
        /\ q[x][i] = IF start + amount # size /\ x = from /\ i = id + start + amount
                     THEN size - (start + amount) ELSE cut[x][i]
      BY <1>2, <1>5, <1>6, Zenon
  <2>2. CASE x = to
      BY <2>1, <2>2
  <2>3. CASE x # to /\ x = from
      BY <2>1, <2>3
  <2>4. CASE x # to /\ x # from
      BY <2>1, <2>4
  <2> QED
      BY <2>2, <2>3, <2>4
<1> QED
    BY <1>6, <1>7 DEF q, size

\* Moving Pods of a plot keeps the partition, if something of the plot is at
\* or after the cut.
LEMMA MovePodsPartition ==
    ASSUME PlotsTypeOK, PlotsPartitionLine, pods \in Index, harvestable \in Index,
           NEW from \in Accounts, NEW to \in Accounts, from # to,
           NEW id \in Index, NEW start \in Nat, NEW amount \in Nat,
           start + amount <= plots[from][id], start < plots[from][id],
           plots' = MovePods(from, to, id, start, amount),
           pods' = pods, harvestable' = harvestable
    PROVE  PlotsTypeOK' /\ PlotsPartitionLine'
<1> DEFINE size == plots[from][id]
<1>1. /\ MaxPods \in Nat /\ size \in Index /\ id + size <= pods
      /\ harvestable <= pods /\ pods <= MaxPods
  <2>1. MaxPods \in Nat /\ size \in Index
      BY FieldAssumption DEF PlotsTypeOK
  <2>2. size > 0
      BY <2>1 DEF Index
  <2> QED
      BY <2>1, <2>2 DEF Index, PlotsPartitionLine, PlotsInLine
<1>2. \A x \in Accounts, i \in Index : plots[x][i] \in Index
    BY DEF PlotsTypeOK
<1>3. PlotsTypeOK'
    BY MovePodsAt DEF PlotsTypeOK
<1>3a. \A x \in Accounts, i \in Index : plots'[x][i] \in Index
    BY <1>3 DEF PlotsTypeOK
<1>4. \A x \in Accounts, i \in Index :
         plots'[x][i] =
            IF x = to
            THEN IF i = id + start THEN amount ELSE plots[x][i]
            ELSE IF x = from
            THEN IF i = id + start + amount /\ start + amount # size
                 THEN size - (start + amount)
                 ELSE IF i = id THEN start ELSE plots[x][i]
            ELSE plots[x][i]
    BY MovePodsAt
<1>5. \A x, y \in Accounts : \A i, j \in Index :
         (plots[x][i] > 0 /\ plots[y][j] > 0 /\ (x # y \/ i # j))
            => (i + plots[x][i] <= j \/ j + plots[y][j] <= i)
    BY DEF PlotsPartitionLine, PlotsDisjoint
\* The two slots written besides id were empty.
<1>6. id + start \in Index /\ plots[to][id + start] = 0
  <2>1. id + start \in Index
      BY <1>1 DEF Index
  <2> QED
      BY <1>1, <1>2, <1>5, <2>1 DEF Index
<1>7. start + amount # size =>
         /\ id + start + amount \in Index
         /\ start + amount > 0 => plots[from][id + start + amount] = 0
  <2>1. start + amount # size => id + start + amount \in Index
      BY <1>1 DEF Index
  <2> QED
      BY <1>1, <1>2, <1>5, <2>1 DEF Index
\* A new plot is an old plot, or one of the three parts of plot id.
<1> DEFINE Part(x, i) ==
        \/ x = to /\ i = id + start /\ plots'[x][i] = amount
        \/ x = from /\ i = id + start + amount /\ plots'[x][i] = size - (start + amount)
        \/ x = from /\ i = id /\ plots'[x][i] = start
<1>8. \A x \in Accounts, i \in Index : plots'[x][i] > 0 =>
         \/ Part(x, i)
         \/ plots'[x][i] = plots[x][i] /\ (x # from \/ i # id)
    BY <1>4
<1>9. \A x, y \in Accounts : \A i, j \in Index :
         (plots'[x][i] > 0 /\ plots'[y][j] > 0 /\ (x # y \/ i # j) /\ Part(x, i))
            => (i + plots'[x][i] <= j \/ j + plots'[y][j] <= i)
  <2> SUFFICES ASSUME NEW x \in Accounts, NEW y \in Accounts, NEW i \in Index, NEW j \in Index,
                      plots'[x][i] > 0, plots'[y][j] > 0, x # y \/ i # j, Part(x, i)
               PROVE  i + plots'[x][i] <= j \/ j + plots'[y][j] <= i
    <3> HIDE DEF Part
    <3> QED
        BY ZenonT(30)
  <2>1. id <= i /\ i + plots'[x][i] <= id + size
      BY <1>1 DEF Index
  <2>2. CASE Part(y, j)
      BY <1>1, <2>2 DEF Index
  <2>3. CASE plots'[y][j] = plots[y][j] /\ (y # from \/ j # id)
    <3>1. id + size <= j \/ j + plots[y][j] <= id
        BY <1>1, <1>2, <1>5, <2>3 DEF Index
    <3>2. i \in Nat /\ j \in Nat /\ id \in Nat /\ size \in Nat
          /\ plots'[x][i] \in Nat /\ plots[y][j] \in Nat
        BY <1>1, <1>2, <1>3a DEF Index
    <3> HIDE DEF Part, size
    <3> QED
        BY <2>1, <2>3, <3>1, <3>2
  <2> QED
      BY <1>8, <2>2, <2>3
<1>10. PlotsDisjoint'
  <2> SUFFICES ASSUME NEW x \in Accounts, NEW y \in Accounts, NEW i \in Index, NEW j \in Index,
                      plots'[x][i] > 0, plots'[y][j] > 0, x # y \/ i # j
               PROVE  i + plots'[x][i] <= j \/ j + plots'[y][j] <= i
      BY DEF PlotsDisjoint
  <2>1. CASE Part(x, i)
    <3> HIDE DEF Part
    <3> QED
        BY <1>9, <2>1
  <2>2. CASE Part(y, j)
    <3> HIDE DEF Part
    <3> QED
        BY <1>9, <2>2
  <2>3. CASE plots'[x][i] = plots[x][i] /\ plots'[y][j] = plots[y][j]
      BY <1>5, <2>3
  <2> HIDE DEF Part
  <2> QED
      BY <1>8, <2>1, <2>2, <2>3
<1>11. PlotsInLine'
  <2> SUFFICES ASSUME NEW x \in Accounts, NEW i \in Index, plots'[x][i] > 0
               PROVE  i + plots'[x][i] <= pods
      BY DEF PlotsInLine
  <2>1. CASE Part(x, i)
      BY <1>1, <2>1 DEF Index
  <2>2. CASE plots'[x][i] = plots[x][i]
      BY <2>2 DEF PlotsPartitionLine, PlotsInLine
  <2> QED
      BY <1>8, <2>1, <2>2
<1>12. LineCovered'
  <2> SUFFICES ASSUME NEW k \in Index, harvestable <= k, k < pods
               PROVE  \E x \in Accounts : \E i \in 0 .. k :
                          i <= k /\ k < i + plots'[x][i]
      BY DEF LineCovered, PodsOf, Covers
  <2>1. PICK x \in Accounts, i \in 0 .. k : i <= k /\ k < i + plots[x][i]
      BY DEF PlotsPartitionLine, LineCovered, PodsOf, Covers
  <2>2. i \in Index
      BY <1>1, <2>1 DEF Index
  <2>3. CASE x = from /\ i = id
    <3>1. CASE k < id + start
      <4>1. start > 0 /\ id # id + start + amount
          BY <2>1, <2>3, <3>1 DEF Index
      <4>2. plots'[from][id] = start
          BY <1>4, <4>1
      <4> QED
          BY <2>1, <2>3, <3>1, <4>2
    <3>2. CASE id + start <= k /\ k < id + start + amount
      <4>1. plots'[to][id + start] = amount /\ id + start \in 0 .. k
          BY <1>4, <1>6, <3>2 DEF Index
      <4> QED
          BY <3>2, <4>1
    <3>3. CASE id + start + amount <= k
      <4>1. start + amount # size
          BY <2>1, <2>3, <3>3, <1>1 DEF Index
      <4>2. plots'[from][id + start + amount] = size - (start + amount)
          BY <1>4, <1>7, <4>1
      <4>3. id + start + amount \in 0 .. k
          BY <3>3 DEF Index
      <4>4. k < id + start + amount + (size - (start + amount))
          BY <2>1, <2>3, <1>1 DEF Index
      <4> QED
          BY <3>3, <4>2, <4>3, <4>4
    <3> QED
        BY <3>1, <3>2, <3>3 DEF Index
  <2>4. CASE x # from \/ i # id
    <3>1. plots[x][i] > 0
        BY <2>1, <2>2, <1>2 DEF Index
    <3>2. plots'[x][i] = plots[x][i]
        BY <1>1, <1>4, <1>5, <1>6, <1>7, <2>2, <2>4, <3>1
    <3> QED
        BY <2>1, <3>2
  <2> QED
      BY <2>3, <2>4
<1> QED
    BY <1>1, <1>3, <1>10, <1>11, <1>12 DEF PlotsPartitionLine

\* Moving Pods of plot id leaves every other plot that is not empty alone.
LEMMA MovePodsElsewhere ==
    ASSUME PlotsTypeOK, PlotsPartitionLine, pods \in Index, harvestable \in Index,
           NEW from \in Accounts, NEW to \in Accounts, from # to,
           NEW id \in Index, NEW start \in Nat, NEW amount \in Nat,
           start + amount <= plots[from][id], start < plots[from][id],
           plots' = MovePods(from, to, id, start, amount),
           NEW x \in Accounts, NEW i \in Index, i # id, plots[x][i] > 0
    PROVE  plots'[x][i] = plots[x][i]
<1>1. plots'[x][i] =
         IF x = to
         THEN IF i = id + start THEN amount ELSE plots[x][i]
         ELSE IF x = from
         THEN IF i = id + start + amount /\ start + amount # plots[from][id]
              THEN plots[from][id] - (start + amount)
              ELSE IF i = id THEN start ELSE plots[x][i]
         ELSE plots[x][i]
    BY MovePodsAt
<1>2. plots[x][i] \in Nat /\ plots[from][id] \in Nat /\ i \in Nat /\ id \in Nat
  <2>1. MaxPods \in Nat /\ plots[x][i] \in Index /\ plots[from][id] \in Index
      BY FieldAssumption DEF PlotsTypeOK
  <2> QED
      BY <2>1 DEF Index
<1>3. id + plots[from][id] <= i \/ i + plots[x][i] <= id
    BY <1>2 DEF PlotsPartitionLine, PlotsDisjoint
<1> QED
    BY <1>1, <1>2, <1>3

(***************************************************************************)
(* The inductive invariant.  Types need the partition (the price function  *)
(* of an order is read at the places of Pods in line), the partition needs *)
(* the types, and a listing stays backed because it lists some Pods, so    *)
(* that its plot is not one of the empty slots written by other moves.     *)
(***************************************************************************)
ListingsListPods ==
    \A index \in Index : podListings[index] # NoListing => podListings[index].amount > 0

IInv ==
    /\ TypeOK
    /\ PlotsPartitionLine
    /\ ListingsListPods
    /\ ListingBacked
    /\ MoonsSolvent

\* The types of the parts of a state, one by one.
LEMMA Types ==
    ASSUME TypeOK
    PROVE  /\ MaxPods \in Nat /\ MaxUint32 \in Nat /\ IsFiniteSet(Accounts)
           /\ pods \in Nat /\ pods <= MaxPods
           /\ harvestable \in Nat /\ harvestable <= MaxPods /\ harvested \in Nat
           /\ soil \in Nat /\ yield \in Nat /\ bank \in Banks
           /\ PlotsTypeOK
           /\ \A x \in Accounts, i \in Index :
                 plots[x][i] \in Nat /\ plots[x][i] <= MaxPods
           /\ \A i \in Index : i \in Nat /\ i <= MaxPods
<1>1. MaxPods \in Nat /\ MaxUint32 \in Nat /\ IsFiniteSet(Accounts)
    BY FieldAssumption
<1>2. PlotsTypeOK /\ \A x \in Accounts, i \in Index : plots[x][i] \in Index
    BY DEF TypeOK, FieldTypeOK, PlotsTypeOK
<1> QED
    BY <1>1, <1>2 DEF TypeOK, FieldTypeOK, Index

\* A set of order ids is finite, so what is escrowed has a sum.
LEMMA OrderIdsFinite == IsFiniteSet(OrderIds)
<1> DEFINE T == Accounts \X OrderPricings \X MaxPlaces \X MinFills
           T1 == (Accounts \X OrderPricings) \X (MaxPlaces \X MinFills)
           g == [t \in T1 |-> [account |-> t[1][1], pricing |-> t[1][2],
                               maxPlace |-> t[2][1], minFill |-> t[2][2]]]
<1>1. /\ IsFiniteSet(Accounts) /\ IsFiniteSet(OrderPricings)
      /\ IsFiniteSet(MaxPlaces) /\ IsFiniteSet(MinFills)
    BY FieldAssumption, MarketAssumption
<1>2. IsFiniteSet(Accounts \X OrderPricings) /\ IsFiniteSet(MaxPlaces \X MinFills)
    BY <1>1, FS_Product, Zenon
<1>3. IsFiniteSet(T1)
    BY <1>2, FS_Product, Zenon
<1>4. g \in Surjection(T1, OrderIds)
  <2>1. ASSUME NEW t \in T1
        PROVE  g[t] \in OrderIds
      BY DEF OrderIds
  <2>2. ASSUME NEW id \in OrderIds
        PROVE  \E t \in T1 : g[t] = id
    <3> DEFINE t == <<<<id.account, id.pricing>>, <<id.maxPlace, id.minFill>>>>
    <3>1. t \in T1
        BY DEF OrderIds
    <3>2. g[t] = id
        BY <3>1 DEF OrderIds
    <3> QED
        BY <3>1, <3>2
  <2>3. g \in [T1 -> OrderIds]
      BY <2>1
  <2> HIDE DEF g, T1
  <2> QED
      BY <2>2, <2>3, Zenon DEF Surjection
<1> HIDE DEF g, T1
<1> QED
    BY <1>3, <1>4, FS_Surjection, Zenon

\* The Moons in the orders are a natural number.
LEMMA OrdersSum ==
    ASSUME TypeOK
    PROVE  Sum(podOrders) \in Nat
<1>1. DOMAIN podOrders = OrderIds /\ \A id \in OrderIds : podOrders[id] \in Nat
    BY DEF TypeOK
<1> QED
    BY <1>1, OrderIdsFinite, SumType

\* Solvency by the surplus of the bank.
LEMMA SolventSurplus ==
    ASSUME TypeOK
    PROVE  /\ MoonsSolvent <=> Surplus(bank) = Sum(podOrders) + harvestable - harvested
           /\ Sum(podOrders) \in Nat
           /\ Surplus(bank) \in Int
<1>1. Sum(bank.internal) \in Nat /\ bank.held \in Nat
  <2>1. /\ DOMAIN bank.internal = Accounts
        /\ \A x \in Accounts : bank.internal[x] \in Nat
        /\ bank.held \in Nat
      BY DEF TypeOK, FieldTypeOK, Banks
  <2> QED
      BY <2>1, Types, SumType
<1>2. Sum(podOrders) \in Nat /\ harvestable \in Nat /\ harvested \in Nat
    BY OrdersSum, Types
<1> QED
    BY <1>1, <1>2 DEF MoonsSolvent, Surplus

\* A step is solvent if its bank covers the orders and the Pods harvestable exactly.
LEMMA SolventAfter ==
    ASSUME TypeOK', Surplus(bank') = Sum(podOrders') + harvestable' - harvested'
    PROVE  MoonsSolvent'
<1>1. Sum(bank'.internal) \in Nat /\ bank'.held \in Nat
  <2>1. /\ DOMAIN bank'.internal = Accounts
        /\ \A x \in Accounts : bank'.internal[x] \in Nat
        /\ bank'.held \in Nat
      BY DEF TypeOK, FieldTypeOK, Banks
  <2> QED
      BY <2>1, FieldAssumption, SumType
<1>2. Sum(podOrders') \in Nat
  <2>1. DOMAIN podOrders' = OrderIds /\ \A id \in OrderIds : podOrders'[id] \in Nat
      BY DEF TypeOK
  <2> QED
      BY <2>1, OrderIdsFinite, SumType
<1>3. harvestable' \in Nat /\ harvested' \in Nat
    BY DEF TypeOK, FieldTypeOK, Index
<1> QED
    BY <1>1, <1>2, <1>3 DEF MoonsSolvent, Surplus

(***************************************************************************)
(* The steps of the Field                                                  *)
(***************************************************************************)
LEMMA NatArithmetic ==
    ASSUME NEW m \in Nat, NEW w \in Nat
    PROVE  m + (m * w) \div 100 \in Nat
<1>1. m * w \in Nat
    OBVIOUS
<1> QED
    BY <1>1

\* sow keeps the invariant.
LEMMA SowStep ==
    ASSUME IInv, NEW c \in Accounts, NEW amount \in Nat, NEW minAmount \in Nat,
           NEW mode \in FromModes, NEW now \in 0 .. MaxUint32,
           SowWithMin(c, amount, minAmount, mode, now),
           UNCHANGED <<podOrders, podAllowances>>
    PROVE  IInv'
<1> USE DEF IInv
<1> DEFINE asked == SowAmount(amount)
           sown == Received(bank, asked, c, mode)
           newPods == MoonsToPods(sown, yield)
<1>1. asked \in Nat /\ asked <= soil
    BY Types DEF SowAmount, Lesser
<1>2. sown \in Nat /\ sown <= asked
    BY <1>1, Types, PullBounds
<1>3. newPods \in Nat
    BY <1>2, Types, NatArithmetic DEF MoonsToPods
<1>4. /\ pods + newPods <= MaxPods /\ pods' = pods + newPods
      /\ plots' = [plots EXCEPT ![c][pods] = newPods]
      /\ harvestable' = harvestable /\ harvested' = harvested /\ yield' = yield
      /\ podListings' = podListings /\ soil' = soil - sown
      /\ podOrders' = podOrders /\ podAllowances' = podAllowances
      /\ nextSowTime' \in {nextSowTime, now}
    BY DEF SowWithMin, SowNoSoil, SaveSowTime
<1>5. bank' \in Banks /\ Surplus(bank') = Surplus(bank)
  <2>1. CanBurn(bank, asked, c, mode) /\ bank' = BurnToken(bank, asked, c, mode)
      BY DEF SowWithMin
  <2> HIDE DEF asked
  <2> QED
      BY <1>1, <2>1, Types, BurnTokenLemma
<1> HIDE DEF asked, sown, newPods
<1>6. /\ plots' \in [Accounts -> [Index -> Index]]
      /\ \A x \in Accounts, i \in Index :
            plots'[x][i] = IF x = c /\ i = pods THEN newPods ELSE plots[x][i]
  <2>1. newPods \in Index /\ pods \in Index
      BY <1>3, <1>4, Types DEF Index
  <2> QED
      BY <1>4, <2>1, Types DEF PlotsTypeOK
<1>7. TypeOK'
  <2>1. soil' \in Nat /\ pods' \in Index /\ nextSowTime' \in 0 .. MaxUint32
    <3>1. soil \in Nat /\ pods \in Index /\ nextSowTime \in 0 .. MaxUint32
        BY Types DEF TypeOK, FieldTypeOK
    <3> QED
        BY <1>1, <1>2, <1>3, <1>4, <3>1 DEF Index
  <2> QED
      BY <1>4, <1>5, <1>6, <2>1 DEF TypeOK, FieldTypeOK
<1>8. \A x \in Accounts, i \in Index : plots[x][i] > 0 => i + plots[x][i] <= pods
    BY DEF PlotsPartitionLine, PlotsInLine
\* The slot the new plot is put in was empty.
<1>9. \A x \in Accounts, i \in Index : plots[x][i] > 0 => plots'[x][i] = plots[x][i]
    BY <1>6, <1>8, Types
<1>10. PlotsDisjoint'
  <2> SUFFICES ASSUME NEW x \in Accounts, NEW y \in Accounts, NEW i \in Index, NEW j \in Index,
                      plots'[x][i] > 0, plots'[y][j] > 0, x # y \/ i # j
               PROVE  i + plots'[x][i] <= j \/ j + plots'[y][j] <= i
      BY DEF PlotsDisjoint
  <2>1. CASE plots'[x][i] = plots[x][i] /\ plots'[y][j] = plots[y][j]
      BY <2>1 DEF PlotsPartitionLine, PlotsDisjoint
  <2>2. CASE x = c /\ i = pods
      BY <1>6, <1>8, <2>2
  <2>3. CASE y = c /\ j = pods
      BY <1>6, <1>8, <2>3
  <2> QED
      BY <1>6, <2>1, <2>2, <2>3
<1>11. PlotsInLine'
    BY <1>3, <1>4, <1>6, <1>8, Types DEF PlotsInLine
<1>12. LineCovered'
  <2> SUFFICES ASSUME NEW k \in Index, harvestable <= k, k < pods + newPods
               PROVE  \E x \in Accounts : \E i \in 0 .. k : i <= k /\ k < i + plots'[x][i]
      BY <1>4 DEF LineCovered, PodsOf, Covers
  <2>1. CASE k < pods
    <3>1. PICK x \in Accounts, i \in 0 .. k : i <= k /\ k < i + plots[x][i]
        BY <2>1 DEF PlotsPartitionLine, LineCovered, PodsOf, Covers
    <3>2. i \in Index
        BY <3>1, Types DEF Index
    <3>3. plots[x][i] > 0
        BY <3>1, <3>2, Types
    <3> QED
        BY <1>9, <3>1, <3>2, <3>3
  <2>2. CASE pods <= k
    <3>1. pods \in 0 .. k /\ pods \in Index
        BY <2>2, Types DEF Index
    <3>2. plots'[c][pods] = newPods
        BY <1>6, <3>1
    <3> QED
        BY <2>2, <3>1, <3>2
  <2> QED
      BY <2>1, <2>2, Types DEF Index
<1>13. PlotsPartitionLine'
  <2>1. harvestable <= pods
      BY DEF PlotsPartitionLine
  <2> QED
      BY <1>3, <1>4, <1>10, <1>11, <1>12, <2>1, Types DEF PlotsPartitionLine
<1>14. ListingsListPods'
    BY <1>4 DEF ListingsListPods
<1>15. ListingBacked'
  <2> SUFFICES ASSUME NEW i \in Index, podListings[i] # NoListing
               PROVE  \E x \in Accounts :
                         plots'[x][i] >= podListings[i].start + podListings[i].amount
      BY <1>4 DEF ListingBacked
  <2>1. PICK x \in Accounts : plots[x][i] >= podListings[i].start + podListings[i].amount
      BY DEF ListingBacked
  <2>2. podListings[i].amount > 0 /\ podListings[i] \in Listings
      BY DEF ListingsListPods, TypeOK
  <2>3. podListings[i].start \in Index /\ podListings[i].amount \in Index
      BY <2>2 DEF Listings
  <2>4. plots[x][i] > 0
      BY <2>1, <2>2, <2>3, Types
  <2> QED
      BY <1>9, <2>1, <2>4
<1>16. MoonsSolvent'
  <2>1. Surplus(bank') = Sum(podOrders') + harvestable' - harvested'
      BY <1>4, <1>5, SolventSurplus
  <2> QED
      BY <1>7, <2>1, SolventAfter
<1> QED
    BY <1>7, <1>13, <1>14, <1>15, <1>16

\* Listings stay backed while no plot with a listing changes.
LEMMA BackedStep ==
    ASSUME IInv, \A i \in Index : podListings'[i] # NoListing =>
                    /\ podListings'[i] = podListings[i]
                    /\ \A x \in Accounts : plots[x][i] > 0 => plots'[x][i] = plots[x][i]
    PROVE  ListingsListPods' /\ ListingBacked'
<1> USE DEF IInv
<1>1. ASSUME NEW i \in Index, podListings'[i] # NoListing
      PROVE  /\ podListings'[i].amount > 0
             /\ \E x \in Accounts :
                   plots'[x][i] >= podListings'[i].start + podListings'[i].amount
  <2>1. podListings[i] # NoListing /\ podListings'[i] = podListings[i]
      BY <1>1
  <2>2. PICK x \in Accounts : plots[x][i] >= podListings[i].start + podListings[i].amount
      BY <2>1 DEF ListingBacked
  <2>3. podListings[i].amount > 0 /\ podListings[i] \in Listings
      BY <2>1 DEF ListingsListPods, TypeOK
  <2>4. podListings[i].start \in Nat /\ podListings[i].amount \in Nat
      BY <2>3, Types DEF Listings
  <2>5. plots[x][i] > 0
      BY <2>2, <2>3, <2>4, Types
  <2> QED
      BY <1>1, <2>1, <2>2, <2>3, <2>5
<1> QED
    BY <1>1 DEF ListingsListPods, ListingBacked

\* Nothing but the front of the line, which may advance, has changed.
LEMMA PartitionKept ==
    ASSUME IInv, plots' = plots, pods' = pods, harvestable' \in Index,
           harvestable <= harvestable', harvestable' <= pods
    PROVE  PlotsPartitionLine'
<1>1. PlotsDisjoint' /\ PlotsInLine'
    BY DEF IInv, PlotsPartitionLine, PlotsDisjoint, PlotsInLine
<1>2. LineCovered'
  <2> SUFFICES ASSUME NEW k \in Index, harvestable' <= k, k < pods
               PROVE  \E x \in Accounts : \E i \in 0 .. k : i <= k /\ k < i + plots[x][i]
      BY DEF LineCovered, PodsOf, Covers
  <2>1. harvestable <= k
      BY Types DEF IInv, Index
  <2> QED
      BY <2>1 DEF IInv, PlotsPartitionLine, LineCovered, PodsOf, Covers
<1> QED
    BY <1>1, <1>2 DEF PlotsPartitionLine

\* A new Season keeps the invariant.
LEMMA SeasonStep ==
    ASSUME IInv, Season
    PROVE  IInv'
<1> USE DEF IInv
<1>1. PICK newHarvestable \in Index, newSoil \in SoilAmounts, newYield \in Yields :
         Sunrise(newHarvestable, newSoil, newYield)
    BY DEF Season
<1>2. /\ harvestable + newHarvestable <= pods
      /\ harvestable' = harvestable + newHarvestable
      /\ bank' = [bank EXCEPT !.held = bank.held + newHarvestable]
      /\ soil' = newSoil /\ yield' = newYield /\ nextSowTime' \in {nextSowTime, MaxUint32}
      /\ pods' = pods /\ harvested' = harvested /\ plots' = plots
      /\ podListings' = podListings /\ podOrders' = podOrders
      /\ podAllowances' = podAllowances
    BY <1>1 DEF Sunrise, RewardToHarvestable, Season
<1>3. newHarvestable \in Nat /\ newSoil \in Nat /\ newYield \in Nat
    BY Types, FieldAssumption
<1>4. bank' \in Banks /\ bank'.held = bank.held + newHarvestable
      /\ bank'.internal = bank.internal /\ bank.held \in Nat
    BY <1>2, <1>3, Types DEF Banks
<1>5. Surplus(bank') = Surplus(bank) + newHarvestable
  <2>1. Sum(bank.internal) \in Nat
    <3>1. DOMAIN bank.internal = Accounts /\ \A x \in Accounts : bank.internal[x] \in Nat
        BY Types DEF Banks
    <3> QED
        BY <3>1, Types, SumType
  <2> QED
      BY <1>3, <1>4, <2>1 DEF Surplus
<1>6. TypeOK'
  <2>1. harvestable' \in Index /\ nextSowTime' \in 0 .. MaxUint32
    <3>1. /\ harvestable \in Index /\ pods \in Index /\ nextSowTime \in 0 .. MaxUint32
          /\ MaxPods \in Nat /\ MaxUint32 \in Nat
        BY Types, FieldAssumption DEF TypeOK, FieldTypeOK
    <3>2. nextSowTime' \in 0 .. MaxUint32
        BY <1>2, <3>1
    <3> QED
        BY <1>2, <1>3, <3>1, <3>2 DEF Index
  <2> QED
      BY <1>2, <1>3, <1>4, <2>1 DEF TypeOK, FieldTypeOK
<1>7. PlotsPartitionLine'
  <2>1. harvestable' \in Index /\ harvestable <= harvestable' /\ harvestable' <= pods
      BY <1>2, <1>3, <1>6, Types DEF TypeOK, FieldTypeOK
  <2> QED
      BY <1>2, <2>1, PartitionKept
<1>8. ListingsListPods' /\ ListingBacked'
    BY <1>2, BackedStep
<1>9. MoonsSolvent'
  <2>1. Surplus(bank') = Sum(podOrders') + harvestable' - harvested'
      BY <1>2, <1>3, <1>5, SolventSurplus, Types
  <2> QED
      BY <1>6, <2>1, SolventAfter
<1> QED
    BY <1>6, <1>7, <1>8, <1>9

\* What a harvest leaves of the plots: only one of them reaches past the front
\* of the line, no plot begins there yet, and its rest comes to be that plot.
LEMMA HarvestedPlots ==
    ASSUME IInv, NEW c \in Accounts, NEW ids \in SUBSET Index,
           \A id \in ids : id < harvestable /\ plots[c][id] > 0,
           plots' = PlotsAfterHarvest(c, ids)
    PROVE  /\ plots' \in [Accounts -> [Index -> Index]]
           /\ \A x \in Accounts, i \in Index :
                 plots'[x][i] =
                    IF x # c THEN plots[x][i]
                    ELSE IF i \in ids THEN 0
                    ELSE IF i = harvestable /\ \E id \in ids : Straddles(c, id)
                    THEN LET some == CHOOSE id \in ids : Straddles(c, id)
                         IN  some + plots[c][some] - harvestable
                    ELSE plots[x][i]
           /\ \A id \in ids : Straddles(c, id) =>
                 /\ id = CHOOSE some \in ids : Straddles(c, some)
                 /\ id + plots[c][id] - harvestable \in Index
                 /\ id + plots[c][id] - harvestable > 0
                 /\ harvestable \in Index /\ plots[c][harvestable] = 0
<1> USE DEF IInv
<1> DEFINE Rest(id) == id + plots[c][id] - harvestable
           some == CHOOSE id \in ids : Straddles(c, id)
<1>1. /\ \A id \in ids : id < harvestable /\ plots[c][id] > 0
      /\ plots' = PlotsAfterHarvest(c, ids)
    OBVIOUS
<1>2. \A x, y \in Accounts : \A i, j \in Index :
         (plots[x][i] > 0 /\ plots[y][j] > 0 /\ (x # y \/ i # j))
            => (i + plots[x][i] <= j \/ j + plots[y][j] <= i)
    BY DEF PlotsPartitionLine, PlotsDisjoint
<1>3. ASSUME NEW id \in ids, Straddles(c, id)
      PROVE  /\ some = id /\ harvestable \in Index
             /\ Rest(id) \in Index /\ Rest(id) > 0 /\ plots[c][harvestable] = 0
  <2>1. some \in ids /\ Straddles(c, some)
      BY <1>3, Zenon
  <2>2. some = id
    <3> HIDE DEF some
    <3> QED
        BY <1>1, <1>2, <1>3, <2>1, Types DEF Straddles
  <2>3. harvestable \in Index
      BY DEF TypeOK, FieldTypeOK
  <2>4. plots[c][harvestable] = 0
      BY <1>1, <1>2, <1>3, <2>3, Types DEF Straddles
  <2>5. Rest(id) \in Index /\ Rest(id) > 0
      BY <1>1, <1>3, Types DEF Straddles, Index
  <2> QED
      BY <2>2, <2>3, <2>4, <2>5
<1>4. /\ plots' \in [Accounts -> [Index -> Index]]
      /\ \A x \in Accounts, i \in Index :
            plots'[x][i] =
               IF x # c THEN plots[x][i]
               ELSE IF i \in ids THEN 0
               ELSE IF i = harvestable /\ \E id \in ids : Straddles(c, id)
               THEN Rest(some) ELSE plots[x][i]
  <2> DEFINE new == [i \in Index |->
                        IF i \in ids THEN 0
                        ELSE IF i = harvestable /\ \E id \in ids : Straddles(c, id)
                        THEN Rest(some) ELSE plots[c][i]]
  <2>1. plots' = [plots EXCEPT ![c] = new]
      BY <1>1 DEF PlotsAfterHarvest
  <2>2. new \in [Index -> Index]
    <3> SUFFICES ASSUME NEW i \in Index
                 PROVE  (IF i \in ids THEN 0
                         ELSE IF i = harvestable /\ \E id \in ids : Straddles(c, id)
                         THEN Rest(some) ELSE plots[c][i]) \in Index
        OBVIOUS
    <3>1. 0 \in Index /\ plots[c][i] \in Index
        BY Types DEF PlotsTypeOK, Index
    <3>2. (\E id \in ids : Straddles(c, id)) => Rest(some) \in Index
        BY <1>3, Zenon
    <3> HIDE DEF some, Rest
    <3> QED
        BY <3>1, <3>2
  <2>3. plots \in [Accounts -> [Index -> Index]]
      BY Types DEF PlotsTypeOK
  <2>4. /\ plots' \in [Accounts -> [Index -> Index]]
        /\ \A x \in Accounts : plots'[x] = IF x = c THEN new ELSE plots[x]
    <3> HIDE DEF new
    <3> QED
        BY <2>1, <2>2, <2>3
  <2> HIDE DEF some, Rest
  <2> QED
      BY <2>4
<1> QED
  <2> HIDE DEF some
  <2>1. \A id \in ids : Straddles(c, id) => /\ id = some
                                            /\ Rest(id) \in Index /\ Rest(id) > 0
                                            /\ harvestable \in Index
                                            /\ plots[c][harvestable] = 0
      BY <1>3
  <2> QED
      BY <1>4, <2>1 DEF some

\* harvest keeps the invariant.
LEMMA HarvestStep ==
    ASSUME IInv, NEW c \in Accounts, NEW ids \in SUBSET Index, NEW mode \in ToModes,
           Harvest(c, ids, mode), UNCHANGED <<podOrders, podAllowances>>
    PROVE  IInv'
<1> USE DEF IInv
<1> DEFINE total == TotalHarvest(c, ids)
           Rest(id) == id + plots[c][id] - harvestable
           some == CHOOSE id \in ids : Straddles(c, id)
<1>1. /\ \A id \in ids : id < harvestable /\ plots[c][id] > 0
      /\ plots' = PlotsAfterHarvest(c, ids)
      /\ podListings' = ListingsAfterHarvest(ids)
      /\ harvested' = harvested + total
      /\ CanSend(bank, total, mode) /\ bank' = SendToken(bank, total, c, mode)
      /\ soil' = soil /\ yield' = yield /\ nextSowTime' = nextSowTime
      /\ pods' = pods /\ harvestable' = harvestable
      /\ podOrders' = podOrders /\ podAllowances' = podAllowances
    BY DEF Harvest, weatherVars
<1>2. total \in Nat
  <2> DEFINE g == [id \in ids |-> HarvestablePods(c, id)]
  <2>1. IsFiniteSet(ids)
    <3>1. 0 \in Int /\ MaxPods \in Int
        BY Types
    <3>2. IsFiniteSet(Index)
        BY <3>1, FS_Interval, Zenon DEF Index
    <3> QED
        BY <3>2, FS_Subset, Zenon
  <2>2. \A id \in ids : HarvestablePods(c, id) \in Nat
      BY <1>1, Types DEF HarvestablePods, Lesser
  <2>3. DOMAIN g = ids /\ \A id \in DOMAIN g : g[id] \in Nat
      BY <2>2
  <2>4. Sum(g) \in Nat
    <3> HIDE DEF g
    <3> QED
        BY <2>1, <2>3, SumType
  <2> QED
      BY <2>4 DEF TotalHarvest
<1>3. bank' \in Banks /\ Surplus(bank') = Surplus(bank) - total
  <2> HIDE DEF total
  <2> QED
      BY <1>1, <1>2, Types, SendTokenLemma
\* Only one plot straddles the front of the line, and none begins there then.
<1>4. \A x, y \in Accounts : \A i, j \in Index :
         (plots[x][i] > 0 /\ plots[y][j] > 0 /\ (x # y \/ i # j))
            => (i + plots[x][i] <= j \/ j + plots[y][j] <= i)
    BY DEF PlotsPartitionLine, PlotsDisjoint
<1>5. ASSUME NEW id \in ids, Straddles(c, id)
      PROVE  /\ some = id /\ harvestable \in Index
             /\ Rest(id) \in Index /\ Rest(id) > 0 /\ plots[c][harvestable] = 0
    BY <1>1, <1>5, HarvestedPlots
<1>6. /\ plots' \in [Accounts -> [Index -> Index]]
      /\ \A x \in Accounts, i \in Index :
            plots'[x][i] =
               IF x # c THEN plots[x][i]
               ELSE IF i \in ids THEN 0
               ELSE IF i = harvestable /\ \E id \in ids : Straddles(c, id)
               THEN Rest(some) ELSE plots[x][i]
    BY <1>1, HarvestedPlots
<1> HIDE DEF total
<1>7. TypeOK'
  <2>1. podListings' \in [Index -> Listings \union {NoListing}]
      BY <1>1 DEF ListingsAfterHarvest, TypeOK
  <2>2. harvested' \in Nat
      BY <1>1, <1>2, Types
  <2> QED
      BY <1>1, <1>3, <1>6, <2>1, <2>2 DEF TypeOK, FieldTypeOK
\* Every new plot is an old one or what is left of the straddling one.
<1>8. ASSUME NEW x \in Accounts, NEW i \in Index, plots'[x][i] > 0
      PROVE  \/ plots'[x][i] = plots[x][i] /\ ~(x = c /\ i \in ids)
             \/ /\ x = c /\ i = harvestable /\ some \in ids /\ Straddles(c, some)
                /\ plots'[x][i] = Rest(some)
  <2>1. (\E id \in ids : Straddles(c, id)) => some \in ids /\ Straddles(c, some)
      BY Zenon
  <2> HIDE DEF some, Rest
  <2> QED
      BY <1>6, <1>8, <2>1
<1>9. PlotsDisjoint'
  <2> SUFFICES ASSUME NEW x \in Accounts, NEW y \in Accounts, NEW i \in Index, NEW j \in Index,
                      plots'[x][i] > 0, plots'[y][j] > 0, x # y \/ i # j
               PROVE  i + plots'[x][i] <= j \/ j + plots'[y][j] <= i
      BY DEF PlotsDisjoint
  <2> DEFINE Kept(z, k) == plots'[z][k] = plots[z][k] /\ ~(z = c /\ k \in ids)
             Left(z, k) == /\ z = c /\ k = harvestable /\ some \in ids /\ Straddles(c, some)
                           /\ plots'[z][k] = Rest(some)
  <2>1. (Kept(x, i) \/ Left(x, i)) /\ (Kept(y, j) \/ Left(y, j))
      BY <1>8
  <2> HIDE DEF some
  <2>2. CASE Kept(x, i) /\ Kept(y, j)
      BY <1>4, <2>2
  <2>3. ASSUME NEW z \in Accounts, NEW k \in Index, Kept(z, k), plots'[z][k] > 0,
               some \in ids, Straddles(c, some)
        PROVE  harvestable + Rest(some) <= k \/ k + plots'[z][k] <= harvestable
    <3>1. some + plots[c][some] <= k \/ k + plots[z][k] <= some
        BY <1>1, <1>4, <2>3
    <3> QED
        BY <1>1, <2>3, <3>1, Types
  <2>4. CASE Kept(x, i) /\ Left(y, j)
      BY <2>3, <2>4
  <2>5. CASE Left(x, i) /\ Kept(y, j)
      BY <2>3, <2>5
  <2>6. ~(Left(x, i) /\ Left(y, j))
      OBVIOUS
  <2> HIDE DEF Kept, Left
  <2> QED
      BY <2>1, <2>2, <2>4, <2>5, <2>6
<1>10. PlotsInLine'
  <2> SUFFICES ASSUME NEW x \in Accounts, NEW i \in Index, plots'[x][i] > 0
               PROVE  i + plots'[x][i] <= pods
      BY <1>1 DEF PlotsInLine
  <2>1. \A y \in Accounts, j \in Index : plots[y][j] > 0 => j + plots[y][j] <= pods
      BY DEF PlotsPartitionLine, PlotsInLine
  <2> HIDE DEF some
  <2> QED
      BY <1>1, <1>8, <2>1, Types
<1>11. LineCovered'
  <2> SUFFICES ASSUME NEW k \in Index, harvestable <= k, k < pods
               PROVE  \E x \in Accounts : \E i \in 0 .. k : i <= k /\ k < i + plots'[x][i]
      BY <1>1 DEF LineCovered, PodsOf, Covers
  <2>1. PICK x \in Accounts, i \in 0 .. k : i <= k /\ k < i + plots[x][i]
      BY DEF PlotsPartitionLine, LineCovered, PodsOf, Covers
  <2>2. i \in Index
      BY <2>1, Types DEF Index
  <2>3. CASE x = c /\ i \in ids
    <3>1. Straddles(c, i)
        BY <2>1, <2>3, <1>1, Types DEF Straddles
    <3>2. some = i /\ harvestable \in Index /\ harvestable \notin ids
        BY <1>1, <1>5, <2>3, <3>1, Types
    <3>3. plots'[c][harvestable] = Rest(i)
      <4> HIDE DEF some, Rest
      <4> QED
          BY <1>6, <2>3, <3>1, <3>2
    <3>4. harvestable \in 0 .. k /\ k < harvestable + Rest(i)
        BY <2>1, <2>2, <2>3, Types
    <3> HIDE DEF Rest
    <3> QED
        BY <3>3, <3>4
  <2>4. CASE ~(x = c /\ i \in ids)
    <3>1. plots[x][i] > 0
        BY <2>1, <2>2, Types
    <3>2. ~(x = c /\ i = harvestable /\ \E id \in ids : Straddles(c, id))
        BY <1>5, <3>1, Types
    <3>3. plots'[x][i] = plots[x][i]
      <4> HIDE DEF some, Rest
      <4> QED
          BY <1>6, <2>2, <2>4, <3>2
    <3> QED
        BY <2>1, <3>3
  <2> QED
      BY <2>3, <2>4
<1>12. PlotsPartitionLine'
  <2>1. harvestable <= pods
      BY DEF PlotsPartitionLine
  <2> QED
      BY <1>1, <1>9, <1>10, <1>11, <2>1 DEF PlotsPartitionLine
<1>13. ListingsListPods' /\ ListingBacked'
  <2> SUFFICES ASSUME NEW i \in Index, podListings'[i] # NoListing
               PROVE  /\ podListings'[i] = podListings[i]
                      /\ \A x \in Accounts : plots[x][i] > 0 => plots'[x][i] = plots[x][i]
      BY BackedStep
  <2>1. i \notin ids /\ podListings'[i] = podListings[i]
      BY <1>1 DEF ListingsAfterHarvest
  <2>2. ASSUME NEW x \in Accounts, plots[x][i] > 0
        PROVE  plots'[x][i] = plots[x][i]
    <3>1. ~(x = c /\ i = harvestable /\ \E id \in ids : Straddles(c, id))
        BY <1>5, <2>2, Types
    <3> HIDE DEF some, Rest
    <3> QED
        BY <1>6, <2>1, <3>1
  <2> QED
      BY <2>1, <2>2
<1>14. MoonsSolvent'
  <2>1. Surplus(bank') = Sum(podOrders') + harvestable' - harvested'
      BY <1>1, <1>2, <1>3, SolventSurplus, Types
  <2> QED
      BY <1>7, <2>1, SolventAfter
<1> QED
    BY <1>7, <1>12, <1>13, <1>14

(***************************************************************************)
(* The steps of the Marketplace                                            *)
(***************************************************************************)

\* Cancelling a listing along with its plot deletes it and nothing else.
LEMMA CancelListing ==
    ASSUME TypeOK, NEW c \in Accounts, NEW id \in Index, CancelListingOf(c, id)
    PROVE  /\ podListings' \in [Index -> Listings \union {NoListing}]
           /\ podListings'[id] = NoListing
           /\ \A i \in Index : i # id => podListings'[i] = podListings[i]
    BY DEF CancelListingOf, Delist, TypeOK

\* The part of the invariant about plots and listings, after a move of Pods
\* of a plot that goes with its listing.
LEMMA MoveStep ==
    ASSUME IInv, NEW from \in Accounts, NEW to \in Accounts, from # to,
           NEW id \in Index, NEW start \in Nat, NEW amount \in Nat,
           start + amount <= plots[from][id], start < plots[from][id],
           plots' = MovePods(from, to, id, start, amount),
           CancelListingOf(from, id), pods' = pods, harvestable' = harvestable
    PROVE  /\ PlotsTypeOK' /\ PlotsPartitionLine'
           /\ podListings' \in [Index -> Listings \union {NoListing}]
           /\ ListingsListPods' /\ ListingBacked'
<1> USE DEF IInv
<1>1. PlotsTypeOK /\ pods \in Index /\ harvestable \in Index
    BY Types DEF TypeOK, FieldTypeOK
<1>2. PlotsTypeOK' /\ PlotsPartitionLine'
    BY <1>1, MovePodsPartition
<1>3. /\ podListings' \in [Index -> Listings \union {NoListing}]
      /\ podListings'[id] = NoListing
      /\ \A i \in Index : i # id => podListings'[i] = podListings[i]
    BY CancelListing
<1>4. ASSUME NEW i \in Index, podListings'[i] # NoListing
      PROVE  /\ podListings'[i] = podListings[i]
             /\ \A x \in Accounts : plots[x][i] > 0 => plots'[x][i] = plots[x][i]
  <2>1. i # id /\ podListings'[i] = podListings[i]
      BY <1>3, <1>4
  <2> QED
      BY <1>1, <2>1, MovePodsElsewhere
<1> QED
    BY <1>2, <1>3, <1>4, BackedStep

\* transferPlot keeps the invariant.
LEMMA TransferPlotStep ==
    ASSUME IInv, NEW c \in Accounts, NEW sender \in Accounts, NEW recipient \in Accounts,
           NEW id \in Index, NEW start \in Index, NEW end \in Index,
           TransferPlot(c, sender, recipient, id, start, end)
    PROVE  IInv'
<1> USE DEF IInv
<1>1. /\ end > start /\ plots[sender][id] >= end /\ SpendPods(c, sender, end - start)
      /\ CancelListingOf(sender, id) /\ sender # recipient
      /\ plots' = MovePods(sender, recipient, id, start, end - start)
      /\ soil' = soil /\ yield' = yield /\ nextSowTime' = nextSowTime
      /\ pods' = pods /\ harvestable' = harvestable /\ harvested' = harvested
      /\ bank' = bank /\ podOrders' = podOrders
    BY DEF TransferPlot, weatherVars
<1>2. /\ start \in Nat /\ end - start \in Nat /\ start + (end - start) <= plots[sender][id]
      /\ start < plots[sender][id]
    BY <1>1, Types
<1>3. /\ PlotsTypeOK' /\ PlotsPartitionLine'
      /\ podListings' \in [Index -> Listings \union {NoListing}]
      /\ ListingsListPods' /\ ListingBacked'
    BY <1>1, <1>2, MoveStep
<1>4. podAllowances' \in [Accounts -> [Accounts -> Nat]]
  <2>1. podAllowances \in [Accounts -> [Accounts -> Nat]]
      BY DEF TypeOK
  <2>2. CASE podAllowances' = podAllowances
      BY <2>1, <2>2
  <2>3. CASE /\ podAllowances[sender][c] >= end - start
             /\ podAllowances' = [podAllowances EXCEPT ![sender][c] =
                                     podAllowances[sender][c] - (end - start)]
    <3>1. podAllowances[sender][c] - (end - start) \in Nat
        BY <1>2, <2>1, <2>3
    <3> QED
        BY <2>1, <2>3, <3>1
  <2> QED
      BY <1>1, <2>2, <2>3 DEF SpendPods
<1>5. TypeOK'
    BY <1>1, <1>3, <1>4 DEF TypeOK, FieldTypeOK, PlotsTypeOK
<1>6. MoonsSolvent'
    BY <1>1 DEF MoonsSolvent
<1> QED
    BY <1>3, <1>5, <1>6

\* A listing of Pods the caller has.
LEMMA CreatePodListingStep ==
    ASSUME IInv, NEW c \in Accounts, NEW index \in Index, NEW listing \in Listings,
           CreatePodListing(c, index, listing)
    PROVE  IInv'
<1> USE DEF IInv
<1>1. /\ plots[c][index] >= listing.start + listing.amount /\ listing.amount > 0
      /\ podListings' = [podListings EXCEPT ![index] = listing]
      /\ UNCHANGED <<weatherVars, lineVars, bank, podOrders, podAllowances>>
    BY DEF CreatePodListing
<1>2. /\ soil' = soil /\ yield' = yield /\ nextSowTime' = nextSowTime
      /\ pods' = pods /\ harvestable' = harvestable /\ harvested' = harvested
      /\ plots' = plots /\ bank' = bank /\ podOrders' = podOrders
      /\ podAllowances' = podAllowances
    BY <1>1 DEF weatherVars, lineVars
<1>3. podListings' \in [Index -> Listings \union {NoListing}]
    BY <1>1 DEF TypeOK
<1>4. TypeOK'
    BY <1>2, <1>3 DEF TypeOK, FieldTypeOK
<1>5. PlotsPartitionLine'
    BY <1>2, PartitionKept, Types DEF TypeOK, FieldTypeOK, PlotsPartitionLine
<1>6. \A i \in Index : podListings'[i] = IF i = index THEN listing ELSE podListings[i]
    BY <1>1 DEF TypeOK
<1>7. ListingsListPods'
    BY <1>1, <1>6 DEF ListingsListPods
<1>8. ListingBacked'
    BY <1>1, <1>2, <1>6 DEF ListingBacked
<1>9. MoonsSolvent'
    BY <1>2 DEF MoonsSolvent
<1> QED
    BY <1>4, <1>5, <1>7, <1>8, <1>9

\* cancelPodListing keeps the invariant.
LEMMA CancelPodListingStep ==
    ASSUME IInv, NEW c \in Accounts, NEW index \in Index, CancelPodListing(c, index)
    PROVE  IInv'
<1> USE DEF IInv
<1>1. /\ podListings' = [podListings EXCEPT ![index] = NoListing]
      /\ soil' = soil /\ yield' = yield /\ nextSowTime' = nextSowTime
      /\ pods' = pods /\ harvestable' = harvestable /\ harvested' = harvested
      /\ plots' = plots /\ bank' = bank /\ podOrders' = podOrders
      /\ podAllowances' = podAllowances
    BY DEF CancelPodListing, Delist, weatherVars, lineVars
<1>2. TypeOK'
    BY <1>1 DEF TypeOK, FieldTypeOK
<1>3. PlotsPartitionLine'
    BY <1>1, PartitionKept, Types DEF TypeOK, FieldTypeOK, PlotsPartitionLine
<1>4. \A i \in Index : podListings'[i] # NoListing => podListings'[i] = podListings[i]
    BY <1>1 DEF TypeOK
<1>5. ListingsListPods' /\ ListingBacked'
    BY <1>1, <1>4, BackedStep
<1>6. MoonsSolvent'
    BY <1>1 DEF MoonsSolvent
<1> QED
    BY <1>2, <1>3, <1>5, <1>6

\* approvePods keeps the invariant.
LEMMA ApprovePodsStep ==
    ASSUME IInv, NEW c \in Accounts, NEW spender \in Accounts, NEW amount \in Nat,
           ApprovePods(c, spender, amount)
    PROVE  IInv'
<1> USE DEF IInv
<1>1. /\ podAllowances' = [podAllowances EXCEPT ![c][spender] = amount]
      /\ soil' = soil /\ yield' = yield /\ nextSowTime' = nextSowTime
      /\ pods' = pods /\ harvestable' = harvestable /\ harvested' = harvested
      /\ plots' = plots /\ bank' = bank /\ podOrders' = podOrders
      /\ podListings' = podListings
    BY DEF ApprovePods, fieldVars, weatherVars, lineVars
<1>2. TypeOK'
    BY <1>1 DEF TypeOK, FieldTypeOK
<1>3. PlotsPartitionLine'
    BY <1>1, PartitionKept, Types DEF TypeOK, FieldTypeOK, PlotsPartitionLine
<1>4. ListingsListPods' /\ ListingBacked'
    BY <1>1, BackedStep
<1>5. MoonsSolvent'
    BY <1>1 DEF MoonsSolvent
<1> QED
    BY <1>2, <1>3, <1>4, <1>5

\* A price is a natural number wherever it is read.
LEMMA PriceNat ==
    ASSUME NEW pricing \in Pricings, NEW place, pricing.kind = "Dynamic" => place \in Index
    PROVE  PriceAt(pricing, place) \in Nat
<1>1. CASE pricing.kind = "Fixed"
    BY <1>1, MarketAssumption DEF PriceAt, Pricings
<1>2. CASE pricing.kind = "Dynamic"
    BY <1>2, MarketAssumption DEF PriceAt, Pricings
<1> QED
    BY <1>1, <1>2 DEF Pricings

\* A listing is filled in part or as a whole.
LEMMA FilledPods ==
    ASSUME NEW moons \in Nat, NEW price \in Nat, price > 0, NEW listed \in Nat,
           PodsBought(moons, price) <= listed
    PROVE  /\ PodsFromFill(moons, price, listed) \in Nat
           /\ PodsFromFill(moons, price, listed) <= listed
<1>1. moons * PriceUnit \in Nat /\ price \in Nat \ {0}
    BY MarketAssumption
<1>2. PodsBought(moons, price) \in Nat
  <2> DEFINE m == moons * PriceUnit
  <2>1. m \in Nat
      BY <1>1
  <2> HIDE DEF m
  <2>2. m \div price \in Nat
      BY <1>1, <2>1, DivNat
  <2> QED
      BY <2>2 DEF PodsBought, m
<1> QED
    BY <1>2 DEF PodsFromFill

\* The Pods that a fill of a listing takes.
Filled(c, index, moonAmount, mode) ==
    PodsFromFill(Received(bank, moonAmount, c, mode),
                 PriceAt(podListings[index].pricing,
                         (index + podListings[index].start) - harvestable),
                 podListings[index].amount)

\* What a fill of a listing takes is some of the Pods listed, which the
\* seller's plot has.
LEMMA FillAmount ==
    ASSUME IInv, NEW c \in Accounts, NEW seller \in Accounts, NEW index \in Index,
           NEW moonAmount \in Nat, NEW mode \in FromModes,
           FillPodListing(c, seller, index, moonAmount, mode)
    PROVE  /\ podListings[index] \in Listings
           /\ Filled(c, index, moonAmount, mode) \in Nat
           /\ Filled(c, index, moonAmount, mode) <= podListings[index].amount
           /\ podListings[index].start + Filled(c, index, moonAmount, mode)
                <= plots[seller][index]
           /\ podListings[index].start < plots[seller][index]
           /\ index + plots[seller][index] <= pods
           /\ index + podListings[index].start \in Index
<1> USE DEF IInv
<1> DEFINE listing == podListings[index]
           from == index + listing.start
           moons == Received(bank, moonAmount, c, mode)
           price == PriceAt(listing.pricing, from - harvestable)
           size == plots[seller][index]
           amount == Filled(c, index, moonAmount, mode)
<1>1. /\ listing # NoListing
      /\ size >= listing.start + listing.amount /\ listing.amount > 0
      /\ PlaceExists(listing.pricing, from) /\ price > 0
      /\ PodsBought(moons, price) <= listing.amount
    BY DEF FillPodListing
<1>2. listing \in Listings
    BY <1>1 DEF TypeOK
<1>3. amount = PodsFromFill(moons, price, listing.amount)
    BY DEF Filled
<1> HIDE DEF listing
<1>4. /\ listing.start \in Nat /\ listing.amount \in Nat /\ listing.pricing \in Pricings
      /\ size \in Nat /\ index + size <= pods
    BY <1>1, <1>2, Types DEF Listings, Index, PlotsPartitionLine, PlotsInLine
<1>5. from \in Index
    BY <1>1, <1>4, Types DEF Index
<1>6. price \in Nat
  <2>1. listing.pricing.kind = "Dynamic" => from - harvestable \in Index
      BY <1>1, <1>5, Types DEF PlaceExists, Index
  <2> QED
      BY <1>4, <2>1, PriceNat
<1>7. moons \in Nat
    BY Types, PullBounds
<1>8. amount \in Nat /\ amount <= listing.amount
  <2> HIDE DEF price, moons, amount
  <2> QED
      BY <1>1, <1>3, <1>4, <1>6, <1>7, FilledPods
<1> HIDE DEF amount
<1>9. listing.start + amount <= size /\ listing.start < size
    BY <1>1, <1>4, <1>8
<1> QED
    BY <1>2, <1>4, <1>5, <1>8, <1>9 DEF listing, amount

\* fillPodListing keeps the invariant.
LEMMA FillPodListingStep ==
    ASSUME IInv, NEW c \in Accounts, NEW seller \in Accounts, NEW index \in Index,
           NEW moonAmount \in Nat, NEW mode \in FromModes,
           FillPodListing(c, seller, index, moonAmount, mode)
    PROVE  IInv'
<1> USE DEF IInv
<1> DEFINE listing == podListings[index]
           from == index + listing.start
           moons == Received(bank, moonAmount, c, mode)
           price == PriceAt(listing.pricing, from - harvestable)
           amount == PodsFromFill(moons, price, listing.amount)
           size == plots[seller][index]
           next == index + listing.start + amount
           rest == [listing EXCEPT !.start = 0, !.amount = listing.amount - amount]
<1>1. /\ listing # NoListing
      /\ CanTransfer(bank, moonAmount, c, mode, listing.mode)
      /\ bank' = TransferToken(bank, moonAmount, c, seller, mode, listing.mode)
      /\ size >= listing.start + listing.amount /\ listing.amount > 0
      /\ PlaceExists(listing.pricing, from) /\ price > 0
      /\ PodsBought(moons, price) <= listing.amount
      /\ podListings' = RelistRest(index, listing, amount)
      /\ seller # c
      /\ plots' = MovePods(seller, c, index, listing.start, amount)
    BY DEF FillPodListing
<1>2. /\ soil' = soil /\ yield' = yield /\ nextSowTime' = nextSowTime
      /\ pods' = pods /\ harvestable' = harvestable /\ harvested' = harvested
      /\ podOrders' = podOrders /\ podAllowances' = podAllowances
    BY DEF FillPodListing, weatherVars
<1>3. listing \in Listings
    BY <1>1 DEF TypeOK
<1> HIDE DEF listing
<1>4. /\ listing.start \in Nat /\ listing.amount \in Nat /\ listing.pricing \in Pricings
      /\ listing.mode \in ToModes /\ size \in Nat /\ index + size <= pods
      /\ listing.amount \in Index
    BY <1>1, <1>3, Types DEF Listings, Index, PlotsPartitionLine, PlotsInLine
<1>8. amount \in Nat /\ amount <= listing.amount
    BY FillAmount, Zenon DEF Filled, listing
<1>9. bank' \in Banks /\ Surplus(bank') = Surplus(bank)
    BY <1>1, <1>4, Types, TransferTokenLemma
<1> HIDE DEF moons, price, amount, from
<1>10. /\ listing.start + amount <= size /\ listing.start < size
       /\ PlotsTypeOK /\ pods \in Index /\ harvestable \in Index
    BY <1>1, <1>4, <1>8, Types DEF TypeOK, FieldTypeOK
<1>11. PlotsTypeOK' /\ PlotsPartitionLine'
    BY <1>1, <1>2, <1>4, <1>8, <1>10, MovePodsPartition
<1>12. /\ rest \in Listings /\ next \in Index
       /\ rest.start = 0 /\ rest.amount = listing.amount - amount
  <2>1. 0 \in Index /\ listing.amount - amount \in Index
      BY <1>4, <1>8, Types DEF Index
  <2>2. rest \in Listings /\ rest.start = 0 /\ rest.amount = listing.amount - amount
      BY <1>3, <2>1 DEF Listings
  <2>3. next \in Index
      BY <1>1, <1>4, <1>8, Types DEF Index
  <2> QED
      BY <2>2, <2>3
<1>13. podListings' = IF listing.amount > amount
                      THEN [Delist(index) EXCEPT ![next] = rest] ELSE Delist(index)
    BY <1>1 DEF RelistRest
<1> HIDE DEF rest
<1>14. /\ podListings' \in [Index -> Listings \union {NoListing}]
       /\ \A i \in Index : podListings'[i] =
             IF listing.amount > amount /\ i = next THEN rest
             ELSE IF i = index THEN NoListing ELSE podListings[i]
  <2>1. /\ Delist(index) \in [Index -> Listings \union {NoListing}]
        /\ \A i \in Index : Delist(index)[i] =
              IF i = index THEN NoListing ELSE podListings[i]
      BY DEF Delist, TypeOK
  <2> HIDE DEF next
  <2> QED
      BY <1>12, <1>13, <2>1
\* The rest of the listing begins where the rest of the plot does.
<1>15. listing.amount > amount => plots'[seller][next] = size - (listing.start + amount)
  <2> SUFFICES ASSUME listing.amount > amount
               PROVE  plots'[seller][next] = size - (listing.start + amount)
      OBVIOUS
  <2>1. listing.start + amount # size
      BY <1>1, <1>4, <1>8
  <2>2. MovePods(seller, c, index, listing.start, amount)[seller][next] =
           IF seller = c
           THEN IF next = index + listing.start THEN amount ELSE plots[seller][next]
           ELSE IF seller = seller
           THEN IF next = index + listing.start + amount /\ listing.start + amount # size
                THEN size - (listing.start + amount)
                ELSE IF next = index THEN listing.start ELSE plots[seller][next]
           ELSE plots[seller][next]
    <3> HIDE DEF next
    <3> QED
        BY <1>1, <1>4, <1>8, <1>10, <1>12, MovePodsAt
  <2> QED
      BY <1>1, <2>1, <2>2
<1>16. ASSUME NEW i \in Index, podListings'[i] # NoListing
       PROVE  /\ podListings'[i].amount > 0
              /\ \E x \in Accounts :
                    plots'[x][i] >= podListings'[i].start + podListings'[i].amount
  <2>1. CASE listing.amount > amount /\ i = next
    <3>1. podListings'[i] = rest
        BY <1>14, <2>1
    <3>2. plots'[seller][i] = size - (listing.start + amount)
        BY <1>15, <2>1
    <3>3. size - (listing.start + amount) >= 0 + (listing.amount - amount)
        BY <1>1, <1>4, <1>8
    <3>4. podListings'[i].amount > 0
        BY <1>4, <1>8, <1>12, <2>1, <3>1
    <3>5. plots'[seller][i] >= podListings'[i].start + podListings'[i].amount
        BY <1>12, <3>1, <3>2, <3>3
    <3> QED
        BY <3>4, <3>5
  <2>2. CASE ~(listing.amount > amount /\ i = next)
    <3>1. i # index /\ podListings'[i] = podListings[i] /\ podListings[i] # NoListing
        BY <1>14, <1>16, <2>2
    <3>2. PICK x \in Accounts :
             plots[x][i] >= podListings[i].start + podListings[i].amount
        BY <3>1 DEF ListingBacked
    <3>3. podListings[i].amount > 0 /\ podListings[i] \in Listings
        BY <3>1 DEF ListingsListPods, TypeOK
    <3>4. podListings[i].start \in Nat /\ podListings[i].amount \in Nat
        BY <3>3, Types DEF Listings
    <3>5. plots[x][i] > 0
        BY <3>2, <3>3, <3>4, Types
    <3>6. plots'[x][i] = plots[x][i]
        BY <1>1, <1>4, <1>8, <1>10, <3>1, <3>5, MovePodsElsewhere
    <3> QED
        BY <3>1, <3>2, <3>3, <3>6
  <2> QED
      BY <2>1, <2>2
<1>17. ListingsListPods' /\ ListingBacked'
    BY <1>16 DEF ListingsListPods, ListingBacked
<1>18. TypeOK'
    BY <1>2, <1>9, <1>11, <1>14 DEF TypeOK, FieldTypeOK, PlotsTypeOK
<1>19. MoonsSolvent'
  <2>1. Surplus(bank') = Sum(podOrders') + harvestable' - harvested'
      BY <1>2, <1>9, SolventSurplus
  <2> QED
      BY <1>18, <2>1, SolventAfter
<1> QED
    BY <1>11, <1>17, <1>18, <1>19

\* What one update of an order does to what is escrowed.
LEMMA OrdersUpdate ==
    ASSUME TypeOK, NEW id \in OrderIds, NEW v \in Nat,
           podOrders' = [podOrders EXCEPT ![id] = v]
    PROVE  /\ podOrders' \in [OrderIds -> Nat]
           /\ podOrders[id] \in Nat
           /\ Sum(podOrders') = Sum(podOrders) - podOrders[id] + v
<1>1. podOrders \in [OrderIds -> Nat]
    BY DEF TypeOK
<1>2. Sum([podOrders EXCEPT ![id] = v]) = Sum(podOrders) - podOrders[id] + v
    BY <1>1, OrderIdsFinite, SumUpdate
<1> QED
    BY <1>1, <1>2

\* createPodOrder keeps the invariant.
LEMMA CreatePodOrderStep ==
    ASSUME IInv, NEW c \in Accounts, NEW id \in OrderIds, NEW moonAmount \in Nat,
           NEW mode \in FromModes, CreatePodOrder(c, id, moonAmount, mode)
    PROVE  IInv'
<1> USE DEF IInv
<1> DEFINE received == Received(bank, moonAmount, c, mode)
           pulled == ReceiveToken(bank, moonAmount, c, mode)
<1>1. /\ CanReceive(bank, moonAmount, c, mode)
      /\ bank' = SendToken(pulled, podOrders[id], c, "INTERNAL")
      /\ podOrders' = [podOrders EXCEPT ![id] = received]
      /\ soil' = soil /\ yield' = yield /\ nextSowTime' = nextSowTime
      /\ pods' = pods /\ harvestable' = harvestable /\ harvested' = harvested
      /\ plots' = plots /\ podListings' = podListings /\ podAllowances' = podAllowances
    BY DEF CreatePodOrder, weatherVars, lineVars
<1>2. received \in Nat
    BY Types, PullBounds
<1>3. pulled \in Banks /\ Surplus(pulled) = Surplus(bank) + received
    BY <1>1, Types, ReceiveTokenLemma
<1> HIDE DEF received, pulled
<1>4. /\ podOrders' \in [OrderIds -> Nat] /\ podOrders[id] \in Nat
      /\ Sum(podOrders') = Sum(podOrders) - podOrders[id] + received
    BY <1>1, <1>2, OrdersUpdate
<1>5. bank' \in Banks /\ Surplus(bank') = Surplus(pulled) - podOrders[id]
  <2>1. "INTERNAL" \in ToModes /\ CanSend(pulled, podOrders[id], "INTERNAL")
      BY DEF ToModes, CanSend
  <2> QED
      BY <1>1, <1>3, <1>4, <2>1, Types, SendTokenLemma
<1>6. TypeOK'
    BY <1>1, <1>4, <1>5 DEF TypeOK, FieldTypeOK
<1>7. PlotsPartitionLine'
    BY <1>1, PartitionKept, Types DEF TypeOK, FieldTypeOK, PlotsPartitionLine
<1>8. ListingsListPods' /\ ListingBacked'
    BY <1>1, BackedStep
<1>9. MoonsSolvent'
  <2>1. Surplus(bank') = Sum(podOrders') + harvestable' - harvested'
      BY <1>1, <1>2, <1>3, <1>4, <1>5, SolventSurplus, Types
  <2> QED
      BY <1>6, <2>1, SolventAfter
<1> QED
    BY <1>6, <1>7, <1>8, <1>9

\* cancelPodOrder keeps the invariant.
LEMMA CancelPodOrderStep ==
    ASSUME IInv, NEW c \in Accounts, NEW id \in OrderIds, NEW mode \in ToModes,
           CancelPodOrder(c, id, mode)
    PROVE  IInv'
<1> USE DEF IInv
<1>1. /\ CanSend(bank, podOrders[id], mode)
      /\ bank' = SendToken(bank, podOrders[id], c, mode)
      /\ podOrders' = [podOrders EXCEPT ![id] = 0]
      /\ soil' = soil /\ yield' = yield /\ nextSowTime' = nextSowTime
      /\ pods' = pods /\ harvestable' = harvestable /\ harvested' = harvested
      /\ plots' = plots /\ podListings' = podListings /\ podAllowances' = podAllowances
    BY DEF CancelPodOrder, weatherVars, lineVars
<1>2. /\ podOrders' \in [OrderIds -> Nat] /\ podOrders[id] \in Nat
      /\ Sum(podOrders') = Sum(podOrders) - podOrders[id] + 0
    BY <1>1, OrdersUpdate
<1>3. bank' \in Banks /\ Surplus(bank') = Surplus(bank) - podOrders[id]
    BY <1>1, <1>2, Types, SendTokenLemma
<1>4. TypeOK'
    BY <1>1, <1>2, <1>3 DEF TypeOK, FieldTypeOK
<1>5. PlotsPartitionLine'
    BY <1>1, PartitionKept, Types DEF TypeOK, FieldTypeOK, PlotsPartitionLine
<1>6. ListingsListPods' /\ ListingBacked'
    BY <1>1, BackedStep
<1>7. MoonsSolvent'
  <2>1. Surplus(bank') = Sum(podOrders') + harvestable' - harvested'
      BY <1>1, <1>2, <1>3, SolventSurplus, Types
  <2> QED
      BY <1>4, <2>1, SolventAfter
<1> QED
    BY <1>4, <1>5, <1>6, <1>7

\* The price function is read at the places of the Pods bought only.
LEMMA OrderCostNat ==
    ASSUME NEW pricing \in Pricings, NEW place \in Int, NEW amount \in Nat,
           pricing.kind = "Dynamic" => place \in Nat, MaxPods \in Nat,
           place + amount - 1 <= MaxPods
    PROVE  OrderCost(pricing, place, amount) \in Nat
<1> DEFINE g == [k \in place .. place + amount - 1 |-> pricing.price[k]]
<1>1. PriceUnit \in Nat \ {0}
    BY MarketAssumption
<1>2. CASE pricing.kind = "Fixed"
  <2> DEFINE m == amount * pricing.price
  <2>1. m \in Nat
    <3>1. pricing.price \in Nat
        BY <1>2, MarketAssumption DEF Pricings
    <3> QED
        BY <3>1
  <2> HIDE DEF m
  <2>2. m \div PriceUnit \in Nat
      BY <1>1, <2>1, DivNat
  <2> QED
      BY <1>2, <2>2 DEF OrderCost, m
<1>3. CASE pricing.kind = "Dynamic"
  <2>1. pricing.price \in [Index -> Nat]
      BY <1>3, MarketAssumption DEF Pricings
  <2>2. DOMAIN g = place .. place + amount - 1 /\ \A k \in DOMAIN g : g[k] \in Nat
      BY <1>3, <2>1 DEF Index
  <2>3. IsFiniteSet(place .. place + amount - 1)
    <3>1. place \in Int /\ place + amount - 1 \in Int
        OBVIOUS
    <3> QED
        BY <3>1, FS_Interval, Zenon
  <2>4. Sum(g) \in Nat
    <3> HIDE DEF g
    <3> QED
        BY <2>2, <2>3, SumType
  <2>5. OrderCost(pricing, place, amount) = Sum(g) \div PriceUnit
      BY <1>3 DEF OrderCost
  <2> HIDE DEF g
  <2>6. Sum(g) \div PriceUnit \in Nat
      BY <1>1, <2>4, DivNat
  <2> QED
      BY <2>5, <2>6
<1> QED
    BY <1>2, <1>3 DEF Pricings

\* fillPodOrder keeps the invariant.
LEMMA FillPodOrderStep ==
    ASSUME IInv, NEW c \in Accounts, NEW id \in OrderIds, NEW index \in Index,
           NEW start \in Index, NEW amount \in Nat, amount > 0, NEW mode \in ToModes,
           FillPodOrder(c, id, index, start, amount, mode)
    PROVE  IInv'
<1> USE DEF IInv
<1> DEFINE place == index + start - harvestable
           cost == OrderCost(id.pricing, place, amount)
           size == plots[c][index]
<1>1. /\ size >= start + amount /\ PlaceExists(id.pricing, index + start)
      /\ podOrders[id] >= cost
      /\ podOrders' = [podOrders EXCEPT ![id] = podOrders[id] - cost]
      /\ CanSend(bank, cost, mode) /\ bank' = SendToken(bank, cost, c, mode)
      /\ CancelListingOf(c, index) /\ c # id.account
      /\ plots' = MovePods(c, id.account, index, start, amount)
      /\ soil' = soil /\ yield' = yield /\ nextSowTime' = nextSowTime
      /\ pods' = pods /\ harvestable' = harvestable /\ harvested' = harvested
      /\ podAllowances' = podAllowances
    BY DEF FillPodOrder, weatherVars
<1>2. /\ start \in Nat /\ size \in Nat /\ start < size /\ id.account \in Accounts
      /\ id.pricing \in Pricings
    BY <1>1, Types, MarketAssumption DEF OrderIds
<1>3. index + size <= pods
  <2>1. size > 0
      BY <1>2, Types
  <2> QED
      BY <2>1 DEF PlotsPartitionLine, PlotsInLine
<1>4. cost \in Nat
  <2>1. /\ place \in Int /\ place + amount - 1 <= MaxPods
        /\ id.pricing.kind = "Dynamic" => place \in Nat
      BY <1>1, <1>2, <1>3, Types DEF PlaceExists
  <2> HIDE DEF place
  <2> QED
      BY <1>2, <2>1, Types, OrderCostNat
<1> HIDE DEF cost
<1>5. podOrders[id] - cost \in Nat /\ podOrders[id] \in Nat
    BY <1>1, <1>4 DEF TypeOK
<1>6. /\ podOrders' \in [OrderIds -> Nat]
      /\ Sum(podOrders') = Sum(podOrders) - podOrders[id] + (podOrders[id] - cost)
    BY <1>1, <1>5, OrdersUpdate
<1>7. bank' \in Banks /\ Surplus(bank') = Surplus(bank) - cost
    BY <1>1, <1>4, Types, SendTokenLemma
<1>8. /\ PlotsTypeOK' /\ PlotsPartitionLine'
      /\ podListings' \in [Index -> Listings \union {NoListing}]
      /\ ListingsListPods' /\ ListingBacked'
    BY <1>1, <1>2, MoveStep
<1>9. TypeOK'
    BY <1>1, <1>6, <1>7, <1>8 DEF TypeOK, FieldTypeOK, PlotsTypeOK
<1>10. MoonsSolvent'
  <2>1. Surplus(bank') = Sum(podOrders') + harvestable' - harvested'
      BY <1>1, <1>4, <1>5, <1>6, <1>7, SolventSurplus, Types
  <2> QED
      BY <1>9, <2>1, SolventAfter
<1> QED
    BY <1>8, <1>9, <1>10

(***************************************************************************)
(* The theorems                                                            *)
(***************************************************************************)
LEMMA InitIInv ==
    ASSUME Init
    PROVE  IInv
<1> USE FieldAssumption, MarketAssumption
<1>1. /\ soil \in SoilAmounts /\ pods = 0 /\ harvestable = 0 /\ harvested = 0
      /\ plots = [a \in Accounts |-> [i \in Index |-> 0]]
      /\ yield = 1 /\ nextSowTime = MaxUint32
      /\ podListings = [i \in Index |-> NoListing]
      /\ bank = [wallet |-> [a \in Accounts |-> InitialMoons],
                 internal |-> [a \in Accounts |-> 0], held |-> 0]
      /\ podOrders = [id \in OrderIds |-> 0]
      /\ podAllowances = [a \in Accounts |-> [b \in Accounts |-> 0]]
    BY DEF Init, FieldInit
<1>2. TypeOK
  <2>1. 0 \in Index
      BY DEF Index
  <2>2. bank \in Banks
      BY <1>1 DEF Banks
  <2>3. plots \in [Accounts -> [Index -> Index]]
      BY <1>1, <2>1
  <2> QED
      BY <1>1, <2>1, <2>2, <2>3 DEF TypeOK, FieldTypeOK
<1>3. PlotsPartitionLine
    BY <1>1 DEF PlotsPartitionLine, PlotsDisjoint, PlotsInLine, LineCovered, Index
<1>4. ListingsListPods /\ ListingBacked
    BY <1>1 DEF ListingsListPods, ListingBacked
<1>5. MoonsSolvent
  <2>1. Sum(podOrders) = 0
      BY <1>1, SumZero
  <2>2. Sum(bank.internal) = 0
    <3>1. bank.internal = [a \in Accounts |-> 0]
        BY <1>1
    <3> QED
        BY <3>1, SumZero
  <2>3. bank.held = 0
      BY <1>1
  <2> QED
      BY <1>1, <2>1, <2>2, <2>3 DEF MoonsSolvent
<1> QED
    BY <1>2, <1>3, <1>4, <1>5 DEF IInv

\* A step that changes nothing keeps the invariant.
LEMMA StutterStep ==
    ASSUME IInv, UNCHANGED vars
    PROVE  IInv'
<1>1. /\ soil' = soil /\ yield' = yield /\ nextSowTime' = nextSowTime
      /\ pods' = pods /\ harvestable' = harvestable /\ harvested' = harvested
      /\ plots' = plots /\ bank' = bank /\ podOrders' = podOrders
      /\ podListings' = podListings /\ podAllowances' = podAllowances
    BY DEF vars, fieldVars, weatherVars, lineVars
<1>2. TypeOK'
    BY <1>1 DEF IInv, TypeOK, FieldTypeOK
<1>3. PlotsPartitionLine'
    BY <1>1, PartitionKept, Types DEF IInv, TypeOK, FieldTypeOK, PlotsPartitionLine
<1>4. ListingsListPods' /\ ListingBacked'
    BY <1>1, BackedStep
<1>5. MoonsSolvent'
    BY <1>1 DEF IInv, MoonsSolvent
<1> QED
    BY <1>2, <1>3, <1>4, <1>5 DEF IInv

\* Every call and every sunrise keeps the invariant, if no order is filled
\* with zero Pods.
LEMMA NextIInv ==
    ASSUME 0 \notin FillAmounts, IInv, [Next]_vars
    PROVE  IInv'
<1> USE FieldAssumption, MarketAssumption
<1>0. Listed \subseteq Index /\ \A x \in Accounts : PlotsOf(x) \subseteq Index
    BY DEF Listed, PlotsOf
<1>1. CASE Season
    BY <1>1, SeasonStep
<1>2. ASSUME NEW c \in Accounts, FieldCall(c)
      PROVE  IInv'
  <2>1. CASE \E amount, minAmount \in SowAmounts, mode \in FromModes, now \in 0 .. MaxUint32 :
                SowWithMin(c, amount, minAmount, mode, now)
      BY <1>2, <2>1, SowStep DEF FieldCall
  <2>2. CASE \E ids \in SUBSET Index, mode \in ToModes : Harvest(c, ids, mode)
      BY <1>2, <2>2, HarvestStep DEF FieldCall
  <2> QED
      BY <1>0, <1>2, <2>1, <2>2 DEF FieldCall
<1>3. ASSUME NEW c \in Accounts, TransferCall(c)
      PROVE  IInv'
    BY <1>0, <1>3, TransferPlotStep, ApprovePodsStep DEF TransferCall
<1>4. ASSUME NEW c \in Accounts, ListingCall(c)
      PROVE  IInv'
  <2>1. ASSUME NEW index \in Index, NEW start \in Index, NEW amount \in Index,
               NEW pricing \in ListingPricings, NEW maxHarvestable \in MaxHarvestables,
               NEW minFill \in MinFills, NEW mode \in ToModes,
               CreatePodListing(c, index,
                   [start |-> start, amount |-> amount, pricing |-> pricing,
                    maxHarvestable |-> maxHarvestable, minFill |-> minFill, mode |-> mode])
        PROVE  IInv'
    <3> DEFINE listing == [start |-> start, amount |-> amount, pricing |-> pricing,
                           maxHarvestable |-> maxHarvestable, minFill |-> minFill,
                           mode |-> mode]
    <3>1. listing \in Listings
        BY DEF Listings
    <3> HIDE DEF listing
    <3>2. CreatePodListing(c, index, listing)
        BY <2>1 DEF listing
    <3> QED
        BY <3>1, <3>2, CreatePodListingStep
  <2>2. CASE \E index \in Index : CancelPodListing(c, index)
      BY <2>2, CancelPodListingStep
  <2>3. CASE \E seller \in Accounts, index \in Index, moonAmount \in MoonAmounts,
                mode \in FromModes : FillPodListing(c, seller, index, moonAmount, mode)
      BY <2>3, FillPodListingStep
  <2> QED
      BY <1>0, <1>4, <2>1, <2>2, <2>3 DEF ListingCall
<1>5. ASSUME NEW c \in Accounts, OrderCall(c)
      PROVE  IInv'
  <2>1. CASE \E id \in OrderIds, moonAmount \in MoonAmounts, mode \in FromModes :
                CreatePodOrder(c, id, moonAmount, mode)
      BY <2>1, CreatePodOrderStep
  <2>2. CASE \E id \in OrderIds, mode \in ToModes : CancelPodOrder(c, id, mode)
      BY <2>2, CancelPodOrderStep
  <2>3. ASSUME NEW id \in OrderIds, NEW index \in Index, NEW start \in Index,
               NEW amount \in FillAmounts, NEW mode \in ToModes,
               FillPodOrder(c, id, index, start, amount, mode)
        PROVE  IInv'
    <3>1. amount \in Nat /\ amount > 0
        OBVIOUS
    <3> QED
        BY <2>3, <3>1, FillPodOrderStep
  <2> QED
      BY <1>0, <1>5, <2>1, <2>2, <2>3 DEF OrderCall
<1>6. CASE UNCHANGED vars
    BY <1>6, StutterStep
<1> QED
    BY <1>1, <1>2, <1>3, <1>4, <1>5, <1>6 DEF Next, Call

\* The inductive invariant holds throughout, as long as no order is filled
\* with zero Pods.
THEOREM Invariant ==
    ASSUME 0 \notin FillAmounts
    PROVE  Spec => []IInv
<1>1. Init => IInv
    BY InitIInv
<1>2. IInv /\ [Next]_vars => IInv'
    BY NextIInv
<1> QED
    BY <1>1, <1>2, PTL DEF Spec

\* Every state has its types: no slot of the Field is negative, past the end
\* of the line or too large for its plot, and no balance goes below zero.
THEOREM TypeCorrect ==
    ASSUME 0 \notin FillAmounts
    PROVE  Spec => []TypeOK
<1>1. IInv => TypeOK
    BY DEF IInv
<1> QED
    BY <1>1, Invariant, PTL

\* Whatever sequence of sows, harvests, listings, fills, transfers and
\* sunrises: no Pod is in two plots and no Pod in line is in none
\* (insertPlot and removePlot write slots that are empty or their own).
THEOREM LineIsPartitioned ==
    ASSUME 0 \notin FillAmounts
    PROVE  Spec => []PlotsPartitionLine
<1>1. IInv => PlotsPartitionLine
    BY DEF IInv
<1> QED
    BY <1>1, Invariant, PTL

\* The diamond always holds exactly the Moons it owes: internal balances,
\* escrowed orders, and Pods that are harvestable and not harvested.
THEOREM Solvent ==
    ASSUME 0 \notin FillAmounts
    PROVE  Spec => []MoonsSolvent
<1>1. IInv => MoonsSolvent
    BY DEF IInv
<1> QED
    BY <1>1, Invariant, PTL

\* Every listing is backed by a plot that has the Pods listed.
THEOREM ListingsAreBacked ==
    ASSUME 0 \notin FillAmounts
    PROVE  Spec => []ListingBacked
<1>1. IInv => ListingBacked
    BY DEF IInv
<1> QED
    BY <1>1, Invariant, PTL
===============================================================================
