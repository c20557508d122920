------------------------------ MODULE PodLineProofs ------------------------------
(***************************************************************************)
(* What every step does to the plots, and what follows from it: no Pod is  *)
(* made or lost or taken from an account, sellers are paid, buyers get     *)
(* what they pay for, a listing dies with the ownership of its plot, and   *)
(* the Field and the Marketplace implement the Pod line.                   *)
(***************************************************************************)
EXTENDS MarketplaceProofs

(***************************************************************************)
(* The four things that a step does to plots                               *)
(***************************************************************************)
SowsPods(c, n) ==
    /\ n \in Nat /\ pods + n <= MaxPods
    /\ plots' = [plots EXCEPT ![c][pods] = n]
    /\ pods' = pods + n
    /\ UNCHANGED <<harvestable, harvested, podListings>>

HarvestsPods(c, ids) ==
    /\ \A id \in ids : id < harvestable /\ plots[c][id] > 0
    /\ plots' = PlotsAfterHarvest(c, ids)
    /\ podListings' = ListingsAfterHarvest(ids)
    /\ harvested' = harvested + TotalHarvest(c, ids)
    /\ UNCHANGED <<pods, harvestable>>

\* Some of the Pods of plot id, and the listing of id goes, unless none of them
\* leave and the listing goes to the rest of the plot, which is all of it.
MovesPods(from, to, id, start, amount) ==
    /\ from # to
    /\ start \in Nat /\ amount \in Nat
    /\ start + amount <= plots[from][id] /\ start < plots[from][id]
    /\ plots' = MovePods(from, to, id, start, amount)
    /\ podListings'[id] = NoListing \/ start + amount = 0
    /\ UNCHANGED <<pods, harvestable, harvested>>

KeepsPlots ==
    /\ harvestable <= harvestable' /\ harvestable' <= pods
    /\ UNCHANGED <<plots, pods, harvested>>

\* transferPlot moves the Pods that it names.
LEMMA TransferMoves ==
    ASSUME IInv, NEW c \in Accounts, NEW sender \in Accounts, NEW recipient \in Accounts,
           NEW id \in Index, NEW start \in Index, NEW end \in Index,
           TransferPlot(c, sender, recipient, id, start, end)
    PROVE  /\ start \in Nat /\ end - start \in Nat
           /\ MovesPods(sender, recipient, id, start, end - start)
<1>1. TypeOK
    BY DEF IInv
<1>2. /\ start \in Nat /\ end - start \in Nat
      /\ start + (end - start) <= plots[sender][id] /\ start < plots[sender][id]
    BY <1>1, Types DEF TransferPlot
<1>3. podListings'[id] = NoListing
    BY <1>1, CancelListing DEF TransferPlot
<1> QED
    BY <1>2, <1>3 DEF TransferPlot, MovesPods

\* The fill of a listing moves the first Pods listed.
LEMMA FillListingMoves ==
    ASSUME IInv, NEW c \in Accounts, NEW seller \in Accounts, NEW index \in Index,
           NEW moonAmount \in MoonAmounts, NEW mode \in FromModes,
           FillPodListing(c, seller, index, moonAmount, mode)
    PROVE  /\ podListings[index].start \in Nat
           /\ Filled(c, index, moonAmount, mode) \in Nat
           /\ MovesPods(seller, c, index, podListings[index].start,
                        Filled(c, index, moonAmount, mode))
<1> DEFINE listing == podListings[index]
           amount == Filled(c, index, moonAmount, mode)
<1>0. TypeOK /\ moonAmount \in Nat
    BY MarketAssumption DEF IInv
<1>1. /\ listing \in Listings /\ amount \in Nat /\ amount <= listing.amount
      /\ listing.start + amount <= plots[seller][index]
      /\ listing.start < plots[seller][index]
      /\ index + plots[seller][index] <= pods
    BY <1>0, FillAmount
<1>2. /\ seller # c
      /\ podListings' = RelistRest(index, listing, amount)
      /\ plots' = MovePods(seller, c, index, listing.start, amount)
      /\ UNCHANGED <<pods, harvestable, harvested>>
    BY DEF FillPodListing, Filled
<1> HIDE DEF amount
<1>3. listing.start \in Nat
    BY <1>1, FieldAssumption DEF Listings, Index
<1>4. podListings'[index] = NoListing \/ listing.start + amount = 0
  <2>1. CASE index + listing.start + amount = index
      BY <1>1, <1>3, <2>1, FieldAssumption DEF Index
  <2>2. CASE index + listing.start + amount # index
    <3>1. podListings \in [Index -> Listings \union {NoListing}]
        BY <1>0 DEF TypeOK
    <3> QED
        BY <1>2, <2>2, <3>1 DEF RelistRest, Delist
  <2> QED
      BY <2>1, <2>2
<1>5. MovesPods(seller, c, index, listing.start, amount)
    BY <1>1, <1>2, <1>3, <1>4 DEF MovesPods
<1> QED
    BY <1>1, <1>3, <1>5 DEF amount

\* The fill of an order moves the Pods that its filler names to its account.
LEMMA FillOrderMoves ==
    ASSUME 0 \notin FillAmounts, IInv, NEW c \in Accounts, NEW id \in OrderIds,
           NEW index \in Index, NEW start \in Index, NEW amount \in FillAmounts,
           NEW mode \in ToModes, FillPodOrder(c, id, index, start, amount, mode)
    PROVE  /\ id.account \in Accounts /\ start \in Nat /\ amount \in Nat
           /\ MovesPods(c, id.account, index, start, amount)
<1>0. TypeOK /\ amount \in Nat /\ amount # 0
    BY MarketAssumption DEF IInv
<1>1. /\ id.account \in Accounts /\ c # id.account
      /\ start \in Nat /\ amount > 0
      /\ start + amount <= plots[c][index] /\ start < plots[c][index]
    BY <1>0, Types DEF FillPodOrder, OrderIds
<1>2. podListings'[index] = NoListing
    BY <1>0, CancelListing DEF FillPodOrder
<1>3. MovesPods(c, id.account, index, start, amount)
    BY <1>0, <1>1, <1>2 DEF FillPodOrder, MovesPods
<1> QED
    BY <1>0, <1>1, <1>3

\* A step does one of the four.
LEMMA PlotSteps ==
    ASSUME 0 \notin FillAmounts, IInv, [Next]_vars
    PROVE  \/ \E c \in Accounts, n \in Nat : SowsPods(c, n)
           \/ \E c \in Accounts, ids \in SUBSET Index : HarvestsPods(c, ids)
           \/ \E from, to \in Accounts, id \in Index, start, amount \in Nat :
                 MovesPods(from, to, id, start, amount)
           \/ KeepsPlots
<1> USE FieldAssumption, MarketAssumption
<1> DEFINE Goal ==
           \/ \E c \in Accounts, n \in Nat : SowsPods(c, n)
           \/ \E c \in Accounts, ids \in SUBSET Index : HarvestsPods(c, ids)
           \/ \E from, to \in Accounts, id \in Index, start, amount \in Nat :
                 MovesPods(from, to, id, start, amount)
           \/ KeepsPlots
<1>0. /\ Listed \subseteq Index /\ \A x \in Accounts : PlotsOf(x) \subseteq Index
      /\ TypeOK /\ PlotsPartitionLine /\ harvestable <= pods /\ harvestable \in Nat
  <2>1. TypeOK /\ PlotsPartitionLine
      BY DEF IInv
  <2> QED
      BY <2>1, Types DEF Listed, PlotsOf, PlotsPartitionLine
<1>1. CASE Season
  <2>1. PICK n \in Index : RewardToHarvestable(n) /\ UNCHANGED <<pods, harvested, plots>>
      BY <1>1 DEF Season, Sunrise
  <2>2. KeepsPlots
      BY <1>0, <2>1 DEF RewardToHarvestable, KeepsPlots, Index
  <2> QED
      BY <2>2
<1>2. ASSUME NEW c \in Accounts, FieldCall(c)
      PROVE  Goal
  <2>1. ASSUME NEW amount \in SowAmounts, NEW minAmount \in SowAmounts,
               NEW mode \in FromModes, NEW now \in 0 .. MaxUint32,
               SowWithMin(c, amount, minAmount, mode, now)
        PROVE  Goal
    <3> DEFINE sown == Received(bank, SowAmount(amount), c, mode)
               n == MoonsToPods(sown, yield)
    <3>1. SowAmount(amount) \in Nat
        BY <1>0, Types DEF SowAmount, Lesser
    <3>2. sown \in Nat
        BY <1>0, <3>1, Types, PullBounds
    <3>3. n \in Nat
      <4> HIDE DEF sown
      <4> QED
          BY <1>0, <3>2, Types, NatArithmetic DEF MoonsToPods
    <3>4. SowsPods(c, n)
        BY <2>1, <3>3 DEF SowWithMin, SowNoSoil, SowsPods
    <3> HIDE DEF n
    <3> QED
        BY <3>3, <3>4
  <2>2. CASE \E ids \in SUBSET Index, mode \in ToModes : Harvest(c, ids, mode)
    <3>1. PICK ids \in SUBSET Index : HarvestsPods(c, ids)
        BY <2>2 DEF Harvest, HarvestsPods
    <3> QED
        BY <3>1
  <2> QED
      BY <1>0, <1>2, <2>1, <2>2 DEF FieldCall
<1>3. ASSUME NEW c \in Accounts, TransferCall(c)
      PROVE  Goal
  <2>1. ASSUME NEW sender \in Accounts, NEW recipient \in Accounts, NEW id \in Index,
               NEW start \in Index, NEW end \in Index,
               TransferPlot(c, sender, recipient, id, start, end)
        PROVE  Goal
      BY <2>1, TransferMoves
  <2>2. CASE \E spender \in Accounts, amount \in Allowances : ApprovePods(c, spender, amount)
    <3>1. KeepsPlots
        BY <1>0, <2>2 DEF ApprovePods, fieldVars, lineVars, KeepsPlots
    <3> QED
        BY <3>1
  <2> QED
      BY <1>0, <1>3, <2>1, <2>2 DEF TransferCall
<1>4. ASSUME NEW c \in Accounts, ListingCall(c)
      PROVE  Goal
  <2>1. ASSUME UNCHANGED lineVars
        PROVE  Goal
    <3>1. KeepsPlots
        BY <1>0, <2>1 DEF lineVars, KeepsPlots
    <3> QED
        BY <3>1
  <2>2. ASSUME NEW index, NEW listing, CreatePodListing(c, index, listing)
        PROVE  Goal
      BY <2>1, <2>2 DEF CreatePodListing
  <2>3. ASSUME NEW index \in Index, CancelPodListing(c, index)
        PROVE  Goal
      BY <2>1, <2>3 DEF CancelPodListing
  <2>4. ASSUME NEW seller \in Accounts, NEW index \in Index, NEW moonAmount \in MoonAmounts,
               NEW mode \in FromModes, FillPodListing(c, seller, index, moonAmount, mode)
        PROVE  Goal
      BY <2>4, FillListingMoves
  <2> QED
      BY <1>0, <1>4, <2>2, <2>3, <2>4 DEF ListingCall
<1>5. ASSUME NEW c \in Accounts, OrderCall(c)
      PROVE  Goal
  <2>1. ASSUME UNCHANGED lineVars
        PROVE  Goal
    <3>1. KeepsPlots
        BY <1>0, <2>1 DEF lineVars, KeepsPlots
    <3> QED
        BY <3>1
  <2>2. CASE \E id \in OrderIds, moonAmount \in MoonAmounts, mode \in FromModes :
                CreatePodOrder(c, id, moonAmount, mode)
      BY <2>1, <2>2 DEF CreatePodOrder
  <2>3. CASE \E id \in OrderIds, mode \in ToModes : CancelPodOrder(c, id, mode)
      BY <2>1, <2>3 DEF CancelPodOrder
  <2>4. ASSUME NEW id \in OrderIds, NEW index \in Index, NEW start \in Index,
               NEW amount \in FillAmounts, NEW mode \in ToModes,
               FillPodOrder(c, id, index, start, amount, mode)
        PROVE  Goal
      BY <2>4, FillOrderMoves
  <2> QED
      BY <1>0, <1>5, <2>2, <2>3, <2>4 DEF OrderCall
<1>6. CASE UNCHANGED vars
  <2>1. KeepsPlots
      BY <1>0, <1>6 DEF vars, fieldVars, lineVars, KeepsPlots
  <2> QED
      BY <2>1
<1> HIDE DEF Goal
<1>7. Goal
  <2>1. CASE \E c \in Accounts : Call(c)
      BY <1>2, <1>3, <1>4, <1>5, <2>1 DEF Call
  <2>2. CASE Season
      BY <1>1, <2>2 DEF Goal
  <2> QED
      BY <1>6, <2>1, <2>2 DEF Next, Goal
<1> QED
    BY <1>7 DEF Goal

(***************************************************************************)
(* The Pods in all plots                                                   *)
(***************************************************************************)
Slots   == Accounts \X Index
Flat(p) == [slot \in Slots |-> p[slot[1]][slot[2]]]
InPlots(p) == Sum(Flat(p))

\* There are finitely many slots and indices of a Plot.
LEMMA SlotsFinite == IsFiniteSet(Index) /\ IsFiniteSet(Slots)
<1>1. 0 \in Int /\ MaxPods \in Int /\ IsFiniteSet(Accounts)
    BY FieldAssumption
<1>2. IsFiniteSet(Index)
    BY <1>1, FS_Interval, Zenon DEF Index
<1> QED
    BY <1>1, <1>2, FS_Product, Zenon DEF Slots

\* Writing one plot changes the Pods in all plots by the change of that plot.
LEMMA WritePlot ==
    ASSUME NEW p \in [Accounts -> [Index -> Nat]], NEW a \in Accounts, NEW i \in Index,
           NEW v \in Nat
    PROVE  /\ [p EXCEPT ![a][i] = v] \in [Accounts -> [Index -> Nat]]
           /\ InPlots([p EXCEPT ![a][i] = v]) = InPlots(p) - p[a][i] + v
           /\ InPlots(p) \in Nat
<1> DEFINE q == [p EXCEPT ![a][i] = v]
<1>1. /\ q \in [Accounts -> [Index -> Nat]]
      /\ \A x \in Accounts, j \in Index :
            q[x][j] = IF x = a /\ j = i THEN v ELSE p[x][j]
    OBVIOUS
<1>2. /\ Flat(p) \in [Slots -> Nat] /\ <<a, i>> \in Slots /\ Flat(p)[<<a, i>>] = p[a][i]
      /\ \A slot \in Slots : slot[1] \in Accounts /\ slot[2] \in Index
    BY DEF Flat, Slots
<1> HIDE DEF q
<1>3. Flat(q) = [Flat(p) EXCEPT ![<<a, i>>] = v]
  <2>1. ASSUME NEW slot \in Slots
        PROVE  q[slot[1]][slot[2]] = [Flat(p) EXCEPT ![<<a, i>>] = v][slot]
    <3>1. slot = <<slot[1], slot[2]>> /\ slot[1] \in Accounts /\ slot[2] \in Index
        BY DEF Slots
    <3>2. q[slot[1]][slot[2]] =
             IF slot[1] = a /\ slot[2] = i THEN v ELSE p[slot[1]][slot[2]]
        BY <1>1, <3>1
    <3>3. [Flat(p) EXCEPT ![<<a, i>>] = v][slot] =
             IF slot = <<a, i>> THEN v ELSE p[slot[1]][slot[2]]
        BY <1>2 DEF Flat
    <3>4. slot = <<a, i>> <=> slot[1] = a /\ slot[2] = i
        BY <3>1
    <3> QED
        BY <3>2, <3>3, <3>4
  <2>2. Flat(q) = [slot \in Slots |-> q[slot[1]][slot[2]]]
      BY DEF Flat
  <2>3. [Flat(p) EXCEPT ![<<a, i>>] = v] =
            [slot \in Slots |-> [Flat(p) EXCEPT ![<<a, i>>] = v][slot]]
      BY <1>2
  <2> QED
      BY <2>1, <2>2, <2>3, Zenon
<1>4. Sum(Flat(q)) = Sum(Flat(p)) - Flat(p)[<<a, i>>] + v
  <2> DEFINE f == Flat(p)
             at == <<a, i>>
  <2>1. f \in [Slots -> Nat] /\ at \in Slots /\ Flat(q) = [f EXCEPT ![at] = v]
      BY <1>2, <1>3
  <2> HIDE DEF f, at
  <2>2. Sum([f EXCEPT ![at] = v]) = Sum(f) - f[at] + v
    <3>1. IsFiniteSet(Slots) /\ f \in [Slots -> Nat] /\ at \in Slots
        BY <2>1, SlotsFinite
    <3> QED
        BY <3>1, SumUpdate
  <2> QED
      BY <2>1, <2>2 DEF f, at
<1>5. Sum(Flat(p)) \in Nat
  <2>1. DOMAIN Flat(p) = Slots /\ \A slot \in Slots : Flat(p)[slot] \in Nat
      BY <1>2
  <2> QED
      BY <2>1, SlotsFinite, SumType
<1> QED
    BY <1>1, <1>2, <1>4, <1>5 DEF q, InPlots

\* A move leaves as many Pods in the plots as there were.
LEMMA MoveKeepsPods ==
    ASSUME IInv, NEW from \in Accounts, NEW to \in Accounts, NEW id \in Index,
           NEW start \in Nat, NEW amount \in Nat, MovesPods(from, to, id, start, amount)
    PROVE  InPlots(plots') = InPlots(plots)
<1> DEFINE size == plots[from][id]
           p == InsertPlot(plots, to, id + start, amount)
           cut == [p EXCEPT ![from][id] = start]
<1>1. TypeOK /\ PlotsPartitionLine /\ PlotsTypeOK
    BY Types DEF IInv
<1>2. /\ plots \in [Accounts -> [Index -> Nat]]
      /\ size \in Nat /\ id \in Nat /\ id + size <= MaxPods /\ size > 0
      /\ start + amount <= size /\ start < size /\ from # to
  <2>1. /\ plots \in [Accounts -> [Index -> Index]] /\ Index \subseteq Nat
        /\ size \in Nat /\ id \in Nat
      BY <1>1, Types DEF PlotsTypeOK, Index
  <2>2. start + amount <= size /\ start < size /\ from # to
      BY DEF MovesPods
  <2>3. size > 0
      BY <2>1, <2>2
  <2>4. id + size <= MaxPods
      BY <1>1, <2>1, <2>3, Types DEF PlotsPartitionLine, PlotsInLine
  <2> QED
      BY <2>1, <2>2, <2>3, <2>4
<1>3. id + start \in Index /\ plots[to][id + start] = 0
  <2>1. id + start \in Index
    <3> HIDE DEF size
    <3> QED
        BY <1>2, FieldAssumption DEF Index
  <2>2. plots[to][id + start] \in Nat
      BY <1>2, <2>1
  <2> QED
      BY <1>1, <1>2, <2>1, <2>2 DEF PlotsPartitionLine, PlotsDisjoint
<1>4. /\ p \in [Accounts -> [Index -> Nat]]
      /\ InPlots(p) = InPlots(plots) - 0 + amount
      /\ InPlots(plots) \in Nat
  <2> DEFINE at == id + start
  <2>1. at \in Index /\ plots[to][at] = 0 /\ p = [plots EXCEPT ![to][at] = amount]
      BY <1>3 DEF InsertPlot
  <2> HIDE DEF at, p
  <2>2. plots \in [Accounts -> [Index -> Nat]]
      BY <1>2
  <2>3. /\ [plots EXCEPT ![to][at] = amount] \in [Accounts -> [Index -> Nat]]
        /\ InPlots([plots EXCEPT ![to][at] = amount]) = InPlots(plots) - plots[to][at] + amount
        /\ InPlots(plots) \in Nat
      BY <2>1, <2>2, WritePlot, Zenon
  <2> QED
      BY <2>1, <2>3
<1>5. /\ p[from][id] = size
      /\ \A i \in Index : p[from][i] = plots[from][i]
    BY <1>2 DEF InsertPlot
<1>6. plots' = IF start + amount = size THEN cut
               ELSE [cut EXCEPT ![from][id + (start + amount)] = size - (start + amount)]
    BY <1>5 DEF MovesPods, MovePods, RemovePlot
<1> HIDE DEF p
<1>7. /\ cut \in [Accounts -> [Index -> Nat]]
      /\ InPlots(cut) = InPlots(p) - size + start
      /\ InPlots(p) \in Nat
  <2>1. /\ cut \in [Accounts -> [Index -> Nat]]
        /\ InPlots(cut) = InPlots(p) - p[from][id] + start
        /\ InPlots(p) \in Nat
      BY <1>4, WritePlot
  <2> QED
      BY <1>5, <2>1
<1>8. \A i \in Index : cut[from][i] = IF i = id THEN start ELSE plots[from][i]
    BY <1>4, <1>5
<1> HIDE DEF cut
<1>9. CASE start + amount = size
    BY <1>2, <1>4, <1>6, <1>7, <1>9
<1>10. CASE start + amount # size
  <2> DEFINE next == id + (start + amount)
             rest == size - (start + amount)
  <2>1. next \in Index /\ rest \in Nat
    <3> HIDE DEF size
    <3> QED
        BY <1>2, <1>10, FieldAssumption DEF Index
  <2>2. cut[from][next] = IF next = id THEN start ELSE 0
    <3>1. CASE next = id
        BY <1>8, <3>1, <2>1
    <3>2. CASE next # id
      <4>1. plots[from][next] \in Nat
          BY <1>2, <2>1
      <4>2. plots[from][next] = 0
          BY <1>1, <1>2, <1>10, <2>1, <3>2, <4>1 DEF PlotsPartitionLine, PlotsDisjoint
      <4> QED
          BY <1>8, <2>1, <3>2, <4>2
    <3> QED
        BY <3>1, <3>2
  <2>3. /\ [cut EXCEPT ![from][next] = rest] \in [Accounts -> [Index -> Nat]]
        /\ InPlots([cut EXCEPT ![from][next] = rest]) = InPlots(cut) - cut[from][next] + rest
        /\ InPlots(cut) \in Nat
    <3>1. cut \in [Accounts -> [Index -> Nat]]
        BY <1>7
    <3> HIDE DEF next, rest
    <3> QED
        BY <2>1, <3>1, WritePlot, Zenon
  <2>4. cut[from][next] = 0
      BY <1>2, <2>2
  <2>5. InPlots(plots') = InPlots(cut) - 0 + rest
      BY <1>6, <1>10, <2>3, <2>4
  <2> QED
      BY <1>2, <1>4, <1>7, <2>1, <2>3, <2>5
<1> QED
    BY <1>9, <1>10

\* A new plot at the end of the line.
LEMMA SowAddsPods ==
    ASSUME IInv, NEW c \in Accounts, NEW n \in Nat, SowsPods(c, n)
    PROVE  /\ InPlots(plots') = InPlots(plots) + n
           /\ pods \in Index /\ plots[c][pods] = 0
<1>1. TypeOK /\ PlotsPartitionLine
    BY DEF IInv
<1>2. pods \in Index /\ plots[c][pods] \in Nat /\ plots \in [Accounts -> [Index -> Nat]]
  <2>1. plots \in [Accounts -> [Index -> Index]] /\ Index \subseteq Nat
      BY <1>1, Types DEF PlotsTypeOK, Index
  <2>2. pods \in Index
      BY <1>1 DEF TypeOK, FieldTypeOK
  <2> QED
      BY <2>1, <2>2
<1>3. plots[c][pods] = 0
    BY <1>1, <1>2, Types DEF PlotsPartitionLine, PlotsInLine
<1>4. /\ [plots EXCEPT ![c][pods] = n] \in [Accounts -> [Index -> Nat]]
      /\ InPlots([plots EXCEPT ![c][pods] = n]) = InPlots(plots) - plots[c][pods] + n
      /\ InPlots(plots) \in Nat
    BY <1>2, WritePlot, Zenon
<1> QED
    BY <1>2, <1>3, <1>4 DEF SowsPods

\* A harvest takes as many Pods out of the plots as it adds to harvested.
LEMMA HarvestTakesPods ==
    ASSUME IInv, NEW c \in Accounts, NEW ids \in SUBSET Index, HarvestsPods(c, ids)
    PROVE  /\ InPlots(plots') + TotalHarvest(c, ids) = InPlots(plots)
           /\ InPlots(plots') \in Nat /\ TotalHarvest(c, ids) \in Nat
<1> DEFINE taken(id) == HarvestablePods(c, id)
           left == [x \in Accounts |-> [i \in Index |->
                       IF x = c /\ i \in ids THEN plots[x][i] - taken(i) ELSE plots[x][i]]]
           h == [slot \in Slots |-> IF slot[1] = c /\ slot[2] \in ids
                                    THEN taken(slot[2]) ELSE 0]
           e == [id \in ids |-> <<c, id>>]
           Rest(id) == id + plots[c][id] - harvestable
<1>1. /\ TypeOK /\ \A id \in ids : id < harvestable /\ plots[c][id] > 0
      /\ plots' = PlotsAfterHarvest(c, ids)
    BY DEF IInv, HarvestsPods
<1>2. IsFiniteSet(ids)
    BY SlotsFinite, FS_Subset, Zenon
<1>3. \A id \in ids : /\ taken(id) \in Nat /\ plots[c][id] - taken(id) \in Nat
                      /\ plots[c][id] \in Nat
                      /\ Straddles(c, id) => plots[c][id] - taken(id) = Rest(id)
                      /\ ~Straddles(c, id) => plots[c][id] - taken(id) = 0
  <2> SUFFICES ASSUME NEW id \in ids
               PROVE  /\ taken(id) \in Nat /\ plots[c][id] - taken(id) \in Nat
                      /\ plots[c][id] \in Nat
                      /\ Straddles(c, id) => plots[c][id] - taken(id) = Rest(id)
                      /\ ~Straddles(c, id) => plots[c][id] - taken(id) = 0
      BY Zenon
  <2>1. id \in Nat /\ plots[c][id] \in Nat /\ harvestable \in Nat /\ id < harvestable
      BY <1>1, Types
  <2> QED
      BY <2>1 DEF HarvestablePods, Lesser, Straddles
<1> HIDE DEF taken
<1>4. left \in [Accounts -> [Index -> Nat]] /\ plots \in [Accounts -> [Index -> Nat]]
  <2>1. \A x \in Accounts, i \in Index : plots[x][i] \in Nat
      BY <1>1, Types
  <2>2. plots \in [Accounts -> [Index -> Nat]]
      BY <1>1, <2>1, Types DEF PlotsTypeOK
  <2> QED
      BY <1>3, <2>1, <2>2
\* What is left and what is taken are what there was.
<1>5. InPlots(plots) = InPlots(left) + Sum(h) /\ InPlots(left) \in Nat /\ Sum(h) \in Nat
  <2>1. Flat(left) \in [Slots -> Nat] /\ h \in [Slots -> Nat]
      BY <1>3, <1>4 DEF Flat, Slots
  <2>2. Flat(plots) = [slot \in Slots |-> Flat(left)[slot] + h[slot]]
    <3>1. ASSUME NEW slot \in Slots
          PROVE  plots[slot[1]][slot[2]] = Flat(left)[slot] + h[slot]
      <4>1. slot[1] \in Accounts /\ slot[2] \in Index
          BY DEF Slots
      <4>2. plots[slot[1]][slot[2]] \in Nat
          BY <1>4, <4>1
      <4>3. Flat(left)[slot] = left[slot[1]][slot[2]]
          BY DEF Flat
      <4> QED
          BY <1>3, <4>1, <4>2, <4>3
    <3> HIDE DEF left, h
    <3> QED
        BY <3>1 DEF Flat
  <2> HIDE DEF left, h
  <2>3. Sum(Flat(plots)) = Sum(Flat(left)) + Sum(h)
    <3> DEFINE f == Flat(left)
    <3>1. IsFiniteSet(Slots) /\ f \in [Slots -> Nat] /\ h \in [Slots -> Nat]
        BY <2>1, SlotsFinite
    <3> HIDE DEF f
    <3>2. Sum([slot \in Slots |-> f[slot] + h[slot]]) = Sum(f) + Sum(h)
        BY <3>1, SumPlus, Zenon
    <3> QED
        BY <2>2, <3>2 DEF f
  <2>4. Sum(Flat(left)) \in Nat /\ Sum(h) \in Nat
      BY <2>1, SlotsFinite, SumType
  <2> QED
      BY <2>3, <2>4 DEF InPlots
<1>6. Sum(h) = TotalHarvest(c, ids)
  <2>1. e \in Injection(ids, Slots)
    <3>1. e \in [ids -> Slots]
        BY DEF Slots
    <3>2. \A x, y \in ids : e[x] = e[y] => x = y
        OBVIOUS
    <3> HIDE DEF e
    <3> QED
        BY <3>1, <3>2 DEF Injection, IsInjective
  <2>2. h \in [Slots -> Nat]
      BY <1>3
  <2>3. \A slot \in Slots : h[slot] # 0 => \E id \in ids : slot = e[id]
    <3> SUFFICES ASSUME NEW slot \in Slots, h[slot] # 0
                 PROVE  \E id \in ids : slot = e[id]
        BY Zenon
    <3>1. slot[1] = c /\ slot[2] \in ids
        OBVIOUS
    <3>2. slot = e[slot[2]]
        BY <3>1 DEF Slots
    <3> HIDE DEF e, h
    <3> QED
        BY <3>1, <3>2
  <2>4. \A id \in ids : h[e[id]] = taken(id)
      BY DEF Slots
  <2> HIDE DEF e, h
  <2>5. Sum(h) = Sum([id \in ids |-> h[e[id]]])
      BY <1>2, <2>1, <2>2, <2>3, SlotsFinite, SumAt
  <2>6. [id \in ids |-> h[e[id]]] = [id \in ids |-> taken(id)]
      BY <2>4
  <2> QED
      BY <2>5, <2>6 DEF TotalHarvest, taken
\* The rest of the plot at the front only moves.
<1>7. InPlots(plots') = InPlots(left)
  <2>1. /\ plots' \in [Accounts -> [Index -> Index]]
        /\ \A x \in Accounts, i \in Index :
              plots'[x][i] =
                 IF x # c THEN plots[x][i]
                 ELSE IF i \in ids THEN 0
                 ELSE IF i = harvestable /\ \E id \in ids : Straddles(c, id)
                 THEN LET some == CHOOSE id \in ids : Straddles(c, id)
                      IN  some + plots[c][some] - harvestable
                 ELSE plots[x][i]
        /\ \A id \in ids : Straddles(c, id) =>
              /\ id = CHOOSE some \in ids : Straddles(c, some)
              /\ Rest(id) \in Index
              /\ harvestable \in Index /\ plots[c][harvestable] = 0
      BY <1>1, HarvestedPlots
  <2>2. \A x \in Accounts, i \in Index :
           left[x][i] = IF x = c /\ i \in ids THEN plots[x][i] - taken(i) ELSE plots[x][i]
      BY Zenon
  <2>3. CASE \A id \in ids : ~Straddles(c, id)
    <3>1. \A x \in Accounts, i \in Index : plots'[x][i] = left[x][i]
        BY <1>3, <2>1, <2>2, <2>3
    <3> HIDE DEF left
    <3>2. plots' = left
        BY <1>4, <2>1, <3>1
    <3> QED
        BY <3>2
  <2>4. ASSUME NEW s \in ids, Straddles(c, s)
        PROVE  InPlots(plots') = InPlots(left)
    <3> DEFINE q == [left EXCEPT ![c][s] = 0]
               r == [q EXCEPT ![c][harvestable] = Rest(s)]
    <3>1. /\ s = CHOOSE some \in ids : Straddles(c, some)
          /\ Rest(s) \in Nat /\ harvestable \in Index /\ plots[c][harvestable] = 0
          /\ harvestable \notin ids /\ s \in Index
        BY <1>1, <2>1, <2>4, Types DEF Index
    <3>2. \A id \in ids : id # s => ~Straddles(c, id)
      <4> DEFINE some == CHOOSE x \in ids : Straddles(c, x)
      <4>1. \A id \in ids : Straddles(c, id) => id = some
          BY <2>1
      <4>2. s = some
          BY <3>1
      <4> HIDE DEF some
      <4> QED
          BY <4>1, <4>2
    <3>3. left[c][s] = Rest(s) /\ left[c][harvestable] = 0
        BY <1>3, <2>2, <2>4, <3>1
    <3> HIDE DEF Rest, left
    <3>4. /\ q \in [Accounts -> [Index -> Nat]]
          /\ InPlots(q) = InPlots(left) - left[c][s] + 0
          /\ InPlots(left) \in Nat
      <4>1. 0 \in Nat /\ left \in [Accounts -> [Index -> Nat]] /\ s \in Index
          BY <1>4
      <4> QED
          BY <4>1, WritePlot, Zenon
    <3>5. \A x \in Accounts, i \in Index : q[x][i] = IF x = c /\ i = s THEN 0 ELSE left[x][i]
        BY <1>4
    <3> HIDE DEF q
    <3>6. /\ r \in [Accounts -> [Index -> Nat]]
          /\ InPlots(r) = InPlots(q) - q[c][harvestable] + Rest(s)
          /\ InPlots(q) \in Nat
      <4>1. /\ Rest(s) \in Nat /\ q \in [Accounts -> [Index -> Nat]]
            /\ harvestable \in Index
          BY <3>1, <3>4
      <4> QED
          BY <4>1, WritePlot, Zenon
    <3>7. q[c][harvestable] = 0
        BY <3>1, <3>3, <3>5
    <3>8. \A x \in Accounts, i \in Index :
             r[x][i] = IF x = c /\ i = harvestable THEN Rest(s) ELSE q[x][i]
        BY <3>1, <3>4
    <3> HIDE DEF r
    <3>9. \A x \in Accounts, i \in Index : plots'[x][i] = r[x][i]
      <4> SUFFICES ASSUME NEW x \in Accounts, NEW i \in Index
                   PROVE  plots'[x][i] = r[x][i]
          OBVIOUS
      <4>1. CASE x # c
          BY <2>1, <2>2, <3>5, <3>8, <4>1
      <4>2. CASE x = c /\ i = harvestable
        <5>1. plots'[x][i] = Rest(s)
            BY <2>1, <2>4, <3>1, <4>2 DEF Rest
        <5> QED
            BY <3>8, <4>2, <5>1
      <4>3. CASE x = c /\ i # harvestable /\ i \in ids
        <5>1. plots'[x][i] = 0 /\ r[x][i] = IF i = s THEN 0 ELSE left[x][i]
            BY <2>1, <3>5, <3>8, <4>3
        <5>2. i # s => left[x][i] = 0
            BY <1>3, <2>2, <3>2, <4>3
        <5> QED
            BY <5>1, <5>2
      <4>4. CASE x = c /\ i # harvestable /\ i \notin ids
          BY <2>1, <2>2, <3>5, <3>8, <4>4
      <4> QED
          BY <4>1, <4>2, <4>3, <4>4
    <3>10. plots' = r
        BY <2>1, <3>6, <3>9
    <3> QED
        BY <3>1, <3>3, <3>4, <3>6, <3>7, <3>10
  <2> QED
      BY <2>3, <2>4
<1> QED
    BY <1>5, <1>6, <1>7

\* Every step keeps the Pods in the plots equal to those sown and not harvested.
LEMMA PodsConservedStep ==
    ASSUME 0 \notin FillAmounts, IInv, InPlots(plots) = pods - harvested, [Next]_vars
    PROVE  InPlots(plots') = pods' - harvested'
<1>1. pods \in Nat /\ harvested \in Nat
    BY Types DEF IInv
<1>2. ASSUME NEW c \in Accounts, NEW n \in Nat, SowsPods(c, n)
      PROVE  InPlots(plots') = pods' - harvested'
  <2>1. InPlots(plots') = InPlots(plots) + n
      BY <1>2, SowAddsPods
  <2>2. pods' = pods + n /\ harvested' = harvested
      BY <1>2 DEF SowsPods
  <2> QED
      BY <1>1, <2>1, <2>2
<1>3. ASSUME NEW c \in Accounts, NEW ids \in SUBSET Index, HarvestsPods(c, ids)
      PROVE  InPlots(plots') = pods' - harvested'
    BY <1>1, <1>3, HarvestTakesPods DEF HarvestsPods
<1>4. ASSUME NEW from \in Accounts, NEW to \in Accounts, NEW id \in Index,
             NEW start \in Nat, NEW amount \in Nat, MovesPods(from, to, id, start, amount)
      PROVE  InPlots(plots') = pods' - harvested'
    BY <1>4, MoveKeepsPods DEF MovesPods
<1>5. CASE KeepsPlots
    BY <1>5 DEF KeepsPlots, InPlots, Flat
<1> QED
    BY <1>2, <1>3, <1>4, <1>5, PlotSteps

\* Whatever is sown, cut, moved, sold and harvested, in whatever order: no
\* Pod is made but by a sow, and none is lost but by a harvest that pays for it
\* (the two-slot writes of insertPlot and removePlot, and the rest that a
\* partial harvest puts back).
THEOREM PodsAreConserved ==
    ASSUME 0 \notin FillAmounts
    PROVE  Spec => []PodsConserved
<1> DEFINE Conserved == InPlots(plots) = pods - harvested
<1>1. Init => IInv /\ Conserved
  <2> SUFFICES ASSUME Init
               PROVE  IInv /\ Conserved
      OBVIOUS
  <2>1. Flat(plots) = [slot \in Slots |-> 0]
      BY DEF Init, FieldInit, Flat, Slots
  <2>2. InPlots(plots) = 0
      BY <2>1, SumZero DEF InPlots
  <2> QED
      BY <2>2, InitIInv DEF Init, FieldInit
<1>2. IInv /\ Conserved /\ [Next]_vars => IInv' /\ Conserved'
    BY NextIInv, PodsConservedStep
<1>3. Conserved <=> PodsConserved
    BY DEF InPlots, Flat, Slots, PodsConserved
<1> QED
    BY <1>1, <1>2, <1>3, PTL DEF Spec

(***************************************************************************)
(* Listings and the plots they list                                        *)
(***************************************************************************)

\* A step that leaves a listing of a plot leaves its owner the plot.
LEMMA ListingDiesStep ==
    ASSUME 0 \notin FillAmounts, IInv, [Next]_vars, NEW index \in Index, NEW a \in Accounts,
           podListings'[index] # NoListing, podListings'[index] = podListings[index],
           plots[a][index] > 0
    PROVE  plots'[a][index] > 0
<1>1. TypeOK /\ PlotsPartitionLine /\ PlotsTypeOK /\ pods \in Index /\ harvestable \in Index
    BY Types DEF IInv, TypeOK, FieldTypeOK
<1>2. \A x \in Accounts, i \in Index : plots[x][i] \in Nat
    BY <1>1, Types
<1>3. ASSUME NEW c \in Accounts, NEW n \in Nat, SowsPods(c, n)
      PROVE  plots'[a][index] > 0
  <2>1. plots[c][pods] = 0
      BY <1>3, SowAddsPods
  <2>2. plots' = [plots EXCEPT ![c][pods] = n] /\ plots \in [Accounts -> [Index -> Index]]
      BY <1>1, <1>3 DEF SowsPods, PlotsTypeOK
  <2> QED
      BY <2>1, <2>2
<1>4. ASSUME NEW c \in Accounts, NEW ids \in SUBSET Index, HarvestsPods(c, ids)
      PROVE  plots'[a][index] > 0
  <2> DEFINE some == CHOOSE id \in ids : Straddles(c, id)
             Rest(id) == id + plots[c][id] - harvestable
  <2>1. index \notin ids
      BY <1>4 DEF HarvestsPods, ListingsAfterHarvest
  <2>2. /\ plots'[a][index] =
              IF a # c THEN plots[a][index]
              ELSE IF index \in ids THEN 0
              ELSE IF index = harvestable /\ \E id \in ids : Straddles(c, id)
              THEN Rest(some) ELSE plots[a][index]
        /\ \A id \in ids : Straddles(c, id) => id = some /\ Rest(id) > 0
    <3>1. \A id \in ids : id < harvestable /\ plots[c][id] > 0
        BY <1>4 DEF HarvestsPods
    <3>2. plots' = PlotsAfterHarvest(c, ids)
        BY <1>4 DEF HarvestsPods
    <3> QED
        BY <3>1, <3>2, HarvestedPlots
  <2> HIDE DEF some, Rest
  <2> QED
      BY <2>1, <2>2
<1>5. ASSUME NEW from \in Accounts, NEW to \in Accounts, NEW id \in Index,
             NEW start \in Nat, NEW amount \in Nat, MovesPods(from, to, id, start, amount)
      PROVE  plots'[a][index] > 0
  <2>1. /\ from # to /\ start + amount <= plots[from][id] /\ start < plots[from][id]
        /\ plots' = MovePods(from, to, id, start, amount)
        /\ podListings'[id] = NoListing \/ start + amount = 0
      BY <1>5 DEF MovesPods
  <2>2. CASE index # id
    <3>1. plots'[a][index] = plots[a][index]
        BY <1>1, <2>1, <2>2, MovePodsElsewhere
    <3> QED
        BY <3>1
  <2>3. CASE index = id
    <3>1. start = 0 /\ amount = 0
        BY <2>1, <2>3
    <3>2. a = from
        BY <1>1, <1>2, <2>1, <2>3, Types DEF PlotsPartitionLine, PlotsDisjoint
    <3>3. plots'[a][index] =
             IF a = to
             THEN IF index = id + start THEN amount ELSE plots[a][index]
             ELSE IF a = from
             THEN IF index = id + start + amount /\ start + amount # plots[from][id]
                  THEN plots[from][id] - (start + amount)
                  ELSE IF index = id THEN start ELSE plots[a][index]
             ELSE plots[a][index]
        BY <1>1, <2>1, MovePodsAt
    <3>4. id \in Nat /\ plots[from][id] \in Nat
        BY <1>1, Types
    <3> QED
        BY <2>1, <2>3, <3>1, <3>2, <3>3, <3>4
  <2> QED
      BY <2>2, <2>3
<1>6. CASE KeepsPlots
    BY <1>6 DEF KeepsPlots
<1> QED
    BY <1>3, <1>4, <1>5, <1>6, PlotSteps

\* No step takes a plot from an account and leaves the listing the account
\* made of it: the hash of a listing does not name the seller, so that the next
\* owner of the plot would sell it (_cancelPodListing of a transfer and of a
\* filled order, the deletes of a harvest and of a filled listing).
THEOREM ListingsDieWithOwnership ==
    ASSUME 0 \notin FillAmounts
    PROVE  Spec => ListingDiesWithOwnership
<1>1. IInv /\ [Next]_vars =>
         [\A index \in Index, a \in Accounts :
             (/\ podListings'[index] # NoListing
              /\ podListings'[index] = podListings[index]
              /\ plots[a][index] > 0) => plots'[a][index] > 0]_vars
    BY ListingDiesStep
<1> QED
    BY <1>1, Invariant, PTL DEF Spec, ListingDiesWithOwnership

(***************************************************************************)
(* The Pod line                                                            *)
(***************************************************************************)
Holds(p, a, i) == \E id \in 0 .. i : i < id + p[a][id]

HolderCorrect ==
    /\ Holder \in [Index -> Accounts \union {Nobody}]
    /\ \A i \in Index, a \in Accounts : Holder[i] = a <=> Holds(plots, a, i)

\* A Pod is in the plots of at most one account, and Holder is that account.
LEMMA HolderIs == IInv => HolderCorrect
<1> SUFFICES ASSUME IInv
             PROVE  HolderCorrect
    OBVIOUS
<1> DEFINE holders(i) == {a \in Accounts : Holds(plots, a, i)}
<1>1. TypeOK /\ PlotsPartitionLine
    BY DEF IInv
<1>2. ASSUME NEW i \in Index, NEW a \in holders(i), NEW b \in holders(i)
      PROVE  a = b
  <2>1. PICK j \in 0 .. i : i < j + plots[a][j]
      BY DEF Holds
  <2>2. PICK k \in 0 .. i : i < k + plots[b][k]
      BY DEF Holds
  <2>3. /\ i \in Nat /\ j \in Index /\ k \in Index
        /\ plots[a][j] \in Nat /\ plots[b][k] \in Nat
    <3>1. i \in Nat /\ i <= MaxPods /\ MaxPods \in Nat
        BY <1>1, Types
    <3>2. j \in Index /\ k \in Index
        BY <2>1, <2>2, <3>1 DEF Index
    <3> QED
        BY <1>1, <3>1, <3>2, Types
  <2>4. plots[a][j] > 0 /\ plots[b][k] > 0
      BY <2>1, <2>2, <2>3
  <2>5. (a # b \/ j # k) => (j + plots[a][j] <= k \/ k + plots[b][k] <= j)
      BY <1>1, <2>3, <2>4 DEF PlotsPartitionLine, PlotsDisjoint
  <2> QED
      BY <2>1, <2>2, <2>3, <2>5
<1>3. ASSUME NEW i \in Index
      PROVE  /\ Holder[i] \in Accounts \union {Nobody}
             /\ \A a \in Accounts : Holder[i] = a <=> Holds(plots, a, i)
  <2>1. Holder[i] = IF holders(i) = {} THEN Nobody ELSE CHOOSE a \in holders(i) : TRUE
      BY DEF Holder, Holds
  <2>2. CASE holders(i) = {}
      BY <2>1, <2>2, NobodyAssumption
  <2>3. CASE holders(i) # {}
    <3>1. Holder[i] \in holders(i)
      <4> HIDE DEF holders
      <4> QED
          BY <2>1, <2>3
    <3>2. \A a \in Accounts : Holds(plots, a, i) => a \in holders(i)
        OBVIOUS
    <3> QED
        BY <1>2, <3>1, <3>2
  <2> QED
      BY <2>2, <2>3
<1>4. Holder = [i \in Index |-> Holder[i]]
    BY DEF Holder
<1> QED
    BY <1>3, <1>4 DEF HolderCorrect

\* A function that names a holder of each Pod after a step, or nobody when it
\* has none, is Holder.
LEMMA HolderBecomes ==
    ASSUME HolderCorrect', NEW h \in [Index -> Accounts \union {Nobody}],
           \A i \in Index : h[i] \in Accounts => Holds(plots', h[i], i),
           \A i \in Index : h[i] = Nobody => \A a \in Accounts : ~Holds(plots', a, i)
    PROVE  Holder' = h
<1>1. /\ Holder' \in [Index -> Accounts \union {Nobody}]
      /\ \A i \in Index, a \in Accounts : Holder'[i] = a <=> Holds(plots', a, i)
    BY DEF HolderCorrect
<1>2. ASSUME NEW i \in Index
      PROVE  Holder'[i] = h[i]
  <2>1. CASE h[i] \in Accounts
      BY <1>1, <2>1
  <2>2. CASE h[i] = Nobody
      BY <1>1, <2>2
  <2> QED
      BY <2>1, <2>2
<1> QED
    BY <1>1, <1>2

\* Who holds a Pod, by its plot.
LEMMA HolderOf ==
    ASSUME IInv, NEW i \in Index
    PROVE  /\ Holder \in [Index -> Accounts \union {Nobody}]
           /\ \A a \in Accounts : Holder[i] = a => Holds(plots, a, i)
           /\ Holder[i] = Nobody => \A a \in Accounts : ~Holds(plots, a, i)
           /\ \A a \in Accounts : Holds(plots, a, i) => Holder[i] = a
<1>1. HolderCorrect
    BY HolderIs
<1> QED
    BY <1>1, NobodyAssumption DEF HolderCorrect

\* The plot that a holder of a Pod holds it in.
LEMMA HoldingPlot ==
    ASSUME IInv, NEW a \in Accounts, NEW i \in Index, Holds(plots, a, i)
    PROVE  \E id \in Index : /\ id <= i /\ i < id + plots[a][id]
                             /\ plots[a][id] \in Nat /\ plots[a][id] > 0
<1>1. TypeOK
    BY DEF IInv
<1>2. PICK id \in 0 .. i : i < id + plots[a][id]
    BY DEF Holds
<1>3. id \in Index /\ id <= i /\ i \in Nat
    BY <1>1, <1>2, Types DEF Index
<1>4. plots[a][id] \in Nat
    BY <1>1, <1>3, Types
<1> QED
    BY <1>2, <1>3, <1>4

\* A sow appends to the line.
LEMMA SowAppends ==
    ASSUME IInv, HolderCorrect', NEW c \in Accounts, NEW n \in Nat, SowsPods(c, n)
    PROVE  [Line!LineNext]_(Line!lineVars)
<1> DEFINE sown == pods .. pods + n - 1
           h == [i \in Index |-> IF i \in sown THEN c ELSE Holder[i]]
<1>1. TypeOK /\ PlotsPartitionLine /\ pods \in Nat /\ MaxPods \in Nat /\ pods + n <= MaxPods
    BY Types DEF IInv, SowsPods
<1>2. \A x \in Accounts, i \in Index :
         plots'[x][i] = IF x = c /\ i = pods THEN n ELSE plots[x][i]
  <2>1. plots \in [Accounts -> [Index -> Index]]
      BY <1>1, Types DEF PlotsTypeOK
  <2> QED
      BY <2>1 DEF SowsPods
<1>3. h \in [Index -> Accounts \union {Nobody}]
    BY HolderOf
<1>4. ASSUME NEW i \in Index, h[i] \in Accounts
      PROVE  Holds(plots', h[i], i)
  <2>1. i \in Nat
      BY DEF Index
  <2>2. CASE i \in sown
    <3>1. h[i] = c /\ pods \in 0 .. i /\ i < pods + n /\ pods \in Index
        BY <1>1, <2>1, <2>2 DEF Index
    <3>2. plots'[c][pods] = n
        BY <1>2, <3>1
    <3> QED
        BY <3>1, <3>2 DEF Holds
  <2>3. CASE i \notin sown
    <3>1. Holds(plots, h[i], i)
        BY <1>4, <2>3, HolderOf
    <3>2. PICK id \in Index : id <= i /\ i < id + plots[h[i]][id] /\ plots[h[i]][id] > 0
      <4> HIDE DEF h
      <4> QED
          BY <1>4, <3>1, HoldingPlot
    <3>3. ~(h[i] = c /\ id = pods)
        BY <3>2, SowAddsPods
    <3>4. plots'[h[i]][id] = plots[h[i]][id] /\ id \in 0 .. i
      <4> HIDE DEF h
      <4> QED
          BY <1>2, <1>4, <2>1, <3>2, <3>3 DEF Index
    <3> HIDE DEF h
    <3> QED
        BY <3>2, <3>4 DEF Holds
  <2> QED
      BY <2>2, <2>3
<1>5. ASSUME NEW i \in Index, h[i] = Nobody, NEW a \in Accounts, Holds(plots', a, i)
      PROVE  FALSE
  <2>1. i \in Nat /\ i \notin sown /\ Holder[i] = Nobody
      BY <1>5, NobodyAssumption DEF Index
  <2>2. PICK id \in 0 .. i : i < id + plots'[a][id]
      BY <1>5 DEF Holds
  <2>3. id \in Index
      BY <1>1, <2>1, <2>2 DEF Index
  <2>4. ~(a = c /\ id = pods)
      BY <1>1, <1>2, <2>1, <2>2, <2>3
  <2>5. Holds(plots, a, i)
      BY <1>2, <2>2, <2>3, <2>4 DEF Holds
  <2> QED
      BY <2>1, <2>5, HolderOf
<1>6. Holder' = h
  <2> HIDE DEF h
  <2> QED
      BY <1>3, <1>4, <1>5, HolderBecomes
<1>7. CASE n = 0
  <2>1. h = Holder
    <3>1. \A i \in Index : h[i] = Holder[i]
        BY <1>1, <1>7
    <3>2. Holder = [i \in Index |-> Holder[i]]
        BY DEF Holder
    <3> QED
        BY <3>1, <3>2
  <2>2. UNCHANGED <<pods, harvestable>>
      BY <1>1, <1>7 DEF SowsPods
  <2> HIDE DEF h
  <2> QED
      BY <1>6, <2>1, <2>2 DEF Line!lineVars
<1>8. CASE n # 0
  <2>1. n \in 1 .. MaxPods /\ pods' = pods + n /\ harvestable' = harvestable
      BY <1>1, <1>8 DEF SowsPods
  <2>2. Line!Append(c, n)
      BY <1>6, <2>1 DEF Line!Append, Line!Passed, Line!Pods, Index
  <2>3. Line!LineNext
      BY <1>1, <2>1, <2>2 DEF Line!LineNext
  <2> QED
      BY <2>3
<1> QED
    BY <1>7, <1>8

\* A harvest redeems Pods of the caller that have come to the front.
LEMMA HarvestRedeems ==
    ASSUME IInv, HolderCorrect', NEW c \in Accounts, NEW ids \in SUBSET Index,
           HarvestsPods(c, ids)
    PROVE  [Line!LineNext]_(Line!lineVars)
<1> DEFINE gone == {i \in 0 .. harvestable - 1 :
                       i \in Index /\ \E id \in ids : id <= i /\ i < id + plots[c][id]}
           h == [i \in Index |-> IF i \in gone THEN Nobody ELSE Holder[i]]
           some == CHOOSE id \in ids : Straddles(c, id)
           Rest(id) == id + plots[c][id] - harvestable
<1>1. /\ TypeOK /\ PlotsPartitionLine
      /\ \A id \in ids : id < harvestable /\ plots[c][id] > 0
      /\ plots' = PlotsAfterHarvest(c, ids)
      /\ pods' = pods /\ harvestable' = harvestable
    BY DEF IInv, HarvestsPods
<1>2. /\ harvestable \in Nat /\ MaxPods \in Nat
      /\ \A x \in Accounts, i \in Index : plots[x][i] \in Nat
      /\ \A i \in Index : i \in Nat /\ i <= MaxPods
    BY <1>1, Types
<1>3. /\ \A x \in Accounts, i \in Index :
            plots'[x][i] =
               IF x # c THEN plots[x][i]
               ELSE IF i \in ids THEN 0
               ELSE IF i = harvestable /\ \E id \in ids : Straddles(c, id)
               THEN Rest(some) ELSE plots[x][i]
      /\ \A id \in ids : Straddles(c, id) =>
            id = some /\ harvestable \in Index /\ plots[c][harvestable] = 0
    BY <1>1, HarvestedPlots
<1>4. \A i, j \in Index : (plots[c][i] > 0 /\ plots[c][j] > 0 /\ i # j)
                             => (i + plots[c][i] <= j \/ j + plots[c][j] <= i)
    BY <1>1 DEF PlotsPartitionLine, PlotsDisjoint
<1>5. ASSUME NEW i \in gone
      PROVE  i \in Index /\ Holder[i] = c
  <2>1. PICK id \in ids : id <= i /\ i < id + plots[c][id]
      OBVIOUS
  <2>2. id \in 0 .. i /\ i \in Index
      BY <1>2, <2>1
  <2>3. Holds(plots, c, i)
      BY <2>1, <2>2 DEF Holds
  <2> QED
      BY <2>2, <2>3, HolderOf
<1>6. h \in [Index -> Accounts \union {Nobody}]
    BY HolderOf
<1>7. ASSUME NEW i \in Index, h[i] \in Accounts
      PROVE  Holds(plots', h[i], i)
  <2> DEFINE a == h[i]
  <2>1. i \notin gone /\ Holder[i] = a
      BY <1>7, NobodyAssumption
  <2> HIDE DEF h, gone
  <2>2. Holds(plots, a, i)
      BY <1>7, <2>1, HolderOf
  <2>3. PICK id \in Index : id <= i /\ i < id + plots[a][id] /\ plots[a][id] > 0
      BY <1>7, <2>2, HoldingPlot
  <2>4. CASE a = c /\ id \in ids
    <3>1. harvestable <= i
        BY <1>2, <2>1, <2>3, <2>4 DEF gone
    <3>2. Straddles(c, id)
        BY <1>1, <1>2, <2>3, <2>4, <3>1 DEF Straddles
    <3>3. plots'[c][harvestable] = Rest(id) /\ harvestable \in Index
      <4>1. harvestable \notin ids
          BY <1>1, <1>2
      <4> HIDE DEF some, Rest
      <4> QED
          BY <1>3, <2>4, <3>2, <4>1
    <3>4. harvestable \in 0 .. i /\ i < harvestable + plots'[c][harvestable]
        BY <1>2, <2>3, <2>4, <3>1, <3>3
    <3> QED
        BY <2>4, <3>4 DEF Holds
  <2>5. CASE ~(a = c /\ id \in ids)
    <3>1. plots'[a][id] = plots[a][id]
      <4>1. ~(a = c /\ id = harvestable /\ \E k \in ids : Straddles(c, k))
        <5> HIDE DEF some, Rest
        <5> QED
            BY <1>3, <2>3
      <4> HIDE DEF some, Rest
      <4> QED
          BY <1>3, <1>7, <2>5, <4>1
    <3>2. id \in 0 .. i
        BY <1>2, <2>3
    <3> QED
        BY <2>3, <3>1, <3>2 DEF Holds
  <2> QED
      BY <2>4, <2>5
<1>8. ASSUME NEW i \in Index, h[i] = Nobody, NEW a \in Accounts, Holds(plots', a, i)
      PROVE  FALSE
  <2>1. PICK id \in 0 .. i : i < id + plots'[a][id]
      BY <1>8 DEF Holds
  <2>2. id \in Index /\ id \in Nat /\ i \in Nat
      BY <1>2, <2>1 DEF Index
  \* The Pod was a's, in this plot or in the one whose rest this is.
  <2>3. Holds(plots, a, i)
    <3>1. CASE a = c /\ id = harvestable /\ id \notin ids /\ \E k \in ids : Straddles(c, k)
      <4>1. PICK k \in ids : Straddles(c, k)
          BY <3>1
      <4>2. plots'[c][id] = Rest(k)
        <5>1. k = some
            BY <1>3, <4>1
        <5> HIDE DEF some, Rest
        <5> QED
            BY <1>3, <2>2, <3>1, <5>1
      <4>3. k \in 0 .. i /\ i < k + plots[c][k]
          BY <1>1, <1>2, <2>1, <2>2, <3>1, <4>1, <4>2
      <4> QED
          BY <3>1, <4>3 DEF Holds
    <3>2. CASE a = c /\ id \in ids
      <4>1. plots'[a][id] = 0
          BY <1>3, <3>2
      <4> QED
          BY <2>1, <2>2, <4>1
    <3>3. CASE ~(a = c /\ id \in ids)
               /\ ~(a = c /\ id = harvestable /\ \E k \in ids : Straddles(c, k))
      <4>1. plots'[a][id] = plots[a][id]
        <5> HIDE DEF some, Rest
        <5> QED
            BY <1>3, <2>2, <3>3
      <4> QED
          BY <2>1, <4>1 DEF Holds
    <3> QED
        BY <3>1, <3>2, <3>3
  <2>4. i \in gone /\ a = c
    <3>1. Holder[i] = a
        BY <2>3, HolderOf
    <3>2. i \in gone
        BY <1>8, <3>1, NobodyAssumption
    <3> QED
        BY <1>5, <3>1, <3>2
  <2>5. PICK k \in ids : k <= i /\ i < k + plots[c][k]
      BY <2>4
  <2>6. i < harvestable
      BY <1>2, <2>4
  \* It was in a plot of those harvested, which are gone.
  <2>7. id \notin ids
    <3>1. id \in ids => plots'[c][id] = 0
        BY <1>3, <2>2
    <3> QED
        BY <2>1, <2>2, <2>4, <3>1
  <2>8. plots'[c][id] = plots[c][id]
    <3>1. id # harvestable
        BY <1>2, <2>1, <2>2, <2>6
    <3> HIDE DEF some, Rest
    <3> QED
        BY <1>3, <2>2, <2>7, <3>1
  <2>9. /\ plots[c][id] > 0 /\ plots[c][k] > 0 /\ id # k /\ k \in Index
        /\ plots[c][id] \in Nat /\ plots[c][k] \in Nat
      BY <1>1, <1>2, <2>1, <2>2, <2>4, <2>5, <2>7, <2>8
  <2>10. id + plots[c][id] <= k \/ k + plots[c][k] <= id
      BY <1>4, <2>2, <2>9
  <2>11. i < id + plots[c][id] /\ id <= i
      BY <2>1, <2>2, <2>4, <2>8
  <2> HIDE DEF gone
  <2> QED
      BY <1>2, <2>2, <2>5, <2>9, <2>10, <2>11
<1>9. Holder' = h
  <2> HIDE DEF h
  <2> QED
      BY <1>6, <1>7, <1>8, HolderBecomes
<1>10. gone \in SUBSET {i \in 0 .. harvestable - 1 : Holder[i] = c}
    BY <1>5
<1> HIDE DEF gone
<1>11. Line!Redeem(c)
    BY <1>1, <1>9, <1>10 DEF Line!Redeem, Line!Passed, Line!Pods, Index
<1>12. Line!LineNext
    BY <1>11 DEF Line!LineNext
<1> QED
    BY <1>12

\* The Pods at start of plot id.
RunAt(id, start, amount) == id + start .. id + start + amount - 1

\* A sale or a transfer takes Pods of one holder, and they go to another one.
LEMMA MovedPods ==
    ASSUME IInv, HolderCorrect', NEW from \in Accounts, NEW to \in Accounts,
           NEW id \in Index, NEW start \in Nat, NEW amount \in Nat,
           MovesPods(from, to, id, start, amount)
    PROVE  LET run == RunAt(id, start, amount)
           IN  /\ id + start \in Nat /\ id + start + amount <= MaxPods /\ MaxPods \in Nat
               /\ \A i \in run : i \in Index /\ Holder[i] = from
               /\ Holder' = [i \in Index |-> IF i \in run THEN to ELSE Holder[i]]
<1> DEFINE size == plots[from][id]
           run == id + start .. id + start + amount - 1
           h == [i \in Index |-> IF i \in run THEN to ELSE Holder[i]]
<1>1. /\ TypeOK /\ PlotsPartitionLine /\ PlotsTypeOK
      /\ pods \in Index /\ harvestable \in Index
    BY Types DEF IInv, TypeOK, FieldTypeOK
<1>2. /\ from # to /\ start + amount <= size /\ start < size
      /\ plots' = MovePods(from, to, id, start, amount)
      /\ pods' = pods /\ harvestable' = harvestable
    BY DEF MovesPods
<1>3. /\ MaxPods \in Nat /\ pods \in Nat /\ pods <= MaxPods
      /\ \A x \in Accounts, i \in Index : plots[x][i] \in Nat
      /\ \A i \in Index : i \in Nat /\ i <= MaxPods
    BY <1>1, Types
<1>4. \A x \in Accounts, i \in Index :
         plots'[x][i] =
            IF x = to
            THEN IF i = id + start THEN amount ELSE plots[x][i]
            ELSE IF x = from
            THEN IF i = id + start + amount /\ start + amount # size
                 THEN size - (start + amount)
                 ELSE IF i = id THEN start ELSE plots[x][i]
            ELSE plots[x][i]
    BY <1>1, <1>2, MovePodsAt
<1>5. id + size <= MaxPods /\ size \in Nat /\ id \in Nat
  <2>1. size \in Nat /\ id \in Nat
      BY <1>3
  <2>2. size > 0
      BY <1>2, <2>1
  <2>3. id + size <= pods
      BY <1>1, <2>2 DEF PlotsPartitionLine, PlotsInLine
  <2> HIDE DEF size
  <2> QED
      BY <1>3, <2>1, <2>3
<1> HIDE DEF size
\* Every Pod of the sender's plot, before the cut, in it and after it.
<1>6. ASSUME NEW i \in Index, id <= i, i < id + size
      PROVE  IF i \in run THEN Holds(plots', to, i) ELSE Holds(plots', from, i)
  <2>1. i \in Nat
      BY <1>3
  <2>2. CASE i \in run
    <3>1. id + start \in 0 .. i /\ id + start \in Index
        BY <1>2, <1>3, <1>5, <2>1, <2>2 DEF Index
    <3>2. plots'[to][id + start] = amount
        BY <1>4, <3>1
    <3>3. i < (id + start) + amount
        BY <1>5, <2>1, <2>2
    <3> QED
        BY <2>2, <3>1, <3>2, <3>3 DEF Holds
  <2>3. CASE i < id + start
    <3>1. id # id + start + amount /\ id \in 0 .. i
        BY <1>5, <1>6, <2>1, <2>3
    <3>2. plots'[from][id] = start
        BY <1>2, <1>4, <3>1
    <3>3. i \notin run
        BY <1>5, <2>1, <2>3
    <3> QED
        BY <2>3, <3>1, <3>2, <3>3 DEF Holds
  <2>4. CASE id + start + amount <= i
    <3> DEFINE next == id + start + amount
    <3>1. next \in 0 .. i /\ start + amount # size /\ next \in Index
        BY <1>2, <1>3, <1>5, <1>6, <2>1, <2>4 DEF Index
    <3>2. plots'[from][next] = size - (start + amount)
        BY <1>2, <1>4, <3>1
    <3>3. i \notin run
        BY <1>5, <2>1, <2>4
    <3>4. i < next + (size - (start + amount))
        BY <1>5, <1>6, <2>1
    <3> HIDE DEF next, run
    <3> QED
        BY <3>1, <3>2, <3>3, <3>4 DEF Holds
  <2> QED
      BY <1>5, <2>1, <2>2, <2>3, <2>4
<1>7. ASSUME NEW i \in run
      PROVE  i \in Index /\ Holder[i] = from /\ id <= i /\ i < id + size
  <2>1. i \in Index /\ id \in 0 .. i /\ i < id + size
      BY <1>2, <1>3, <1>5 DEF Index
  <2>2. Holds(plots, from, i)
      BY <2>1 DEF Holds, size
  <2> QED
      BY <2>1, <2>2, HolderOf
<1>8. h \in [Index -> Accounts \union {Nobody}]
    BY HolderOf
<1> HIDE DEF run
<1>9. ASSUME NEW i \in Index, h[i] \in Accounts
      PROVE  Holds(plots', h[i], i)
  <2>1. CASE i \in run
      BY <1>6, <1>7, <2>1
  <2>2. CASE i \notin run
    <3> DEFINE a == h[i]
    <3>1. Holder[i] = a
        BY <2>2
    <3> HIDE DEF h
    <3>2. Holds(plots, a, i)
        BY <1>9, <3>1, HolderOf
    <3>3. PICK k \in Index : k <= i /\ i < k + plots[a][k] /\ plots[a][k] > 0
        BY <1>9, <3>2, HoldingPlot
    <3>4. CASE k = id
      <4>1. a = from
        <5>1. size > 0 /\ plots[a][k] \in Nat
            BY <1>2, <1>3, <1>5, <1>9
        <5>2. a # from => (k + plots[a][k] <= id \/ id + size <= k)
            BY <1>1, <1>9, <3>3, <5>1 DEF PlotsPartitionLine, PlotsDisjoint, size
        <5> QED
            BY <1>5, <3>3, <3>4, <5>1, <5>2
      <4> QED
          BY <1>6, <2>2, <3>3, <3>4, <4>1 DEF size
    <3>5. CASE k # id
      <4>1. plots'[a][k] = plots[a][k]
          BY <1>1, <1>2, <1>9, <3>3, <3>5, MovePodsElsewhere DEF size
      <4>2. k \in 0 .. i
          BY <1>3, <3>3
      <4> QED
          BY <3>3, <4>1, <4>2 DEF Holds
    <3> QED
        BY <3>4, <3>5
  <2> QED
      BY <2>1, <2>2
<1>10. ASSUME NEW i \in Index, h[i] = Nobody, NEW a \in Accounts, Holds(plots', a, i)
       PROVE  FALSE
  <2>1. Holder[i] = Nobody /\ i \notin run
      BY <1>10, NobodyAssumption
  <2>2. PICK k \in 0 .. i : i < k + plots'[a][k]
      BY <1>10 DEF Holds
  <2>3. k \in Index /\ k \in Nat /\ i \in Nat
      BY <1>3, <2>2 DEF Index
  <2>4. ~(id <= i /\ i < id + size)
    <3>1. (id <= i /\ i < id + size) => Holds(plots, from, i)
        BY <1>5, <2>3 DEF Holds, size
    <3> QED
        BY <2>1, <3>1, HolderOf
  <2>5. plots'[a][k] = plots[a][k]
    <3>1. ~(a = to /\ k = id + start)
        BY <1>2, <1>4, <1>5, <2>2, <2>3, <2>4
    <3>2. ~(a = from /\ a # to /\ k = id + start + amount /\ start + amount # size)
        BY <1>2, <1>4, <1>5, <2>2, <2>3, <2>4
    <3>3. ~(a = from /\ a # to /\ k = id)
        BY <1>2, <1>4, <1>5, <2>2, <2>3, <2>4
    <3> QED
        BY <1>4, <2>3, <3>1, <3>2, <3>3
  <2>6. Holds(plots, a, i)
      BY <2>2, <2>5 DEF Holds
  <2> QED
      BY <2>1, <2>6, HolderOf
<1>11. Holder' = h
  <2> HIDE DEF h
  <2> QED
      BY <1>8, <1>9, <1>10, HolderBecomes
<1>12. id + start \in Nat /\ id + start + amount <= MaxPods /\ MaxPods \in Nat
    BY <1>2, <1>3, <1>5
<1> QED
    BY <1>7, <1>11, <1>12 DEF RunAt, run

\* To an account that watches the line that is a move of a run of Pods.
LEMMA MoveMoves ==
    ASSUME IInv, HolderCorrect', NEW from \in Accounts, NEW to \in Accounts,
           NEW id \in Index, NEW start \in Nat, NEW amount \in Nat,
           MovesPods(from, to, id, start, amount)
    PROVE  [Line!LineNext]_(Line!lineVars)
<1> DEFINE run == RunAt(id, start, amount)
           h == [i \in Index |-> IF i \in run THEN to ELSE Holder[i]]
<1>1. from # to /\ pods' = pods /\ harvestable' = harvestable
    BY DEF MovesPods
<1>2. id + start \in Nat /\ MaxPods \in Nat
    BY MovedPods
<1>3. \A i \in run : i \in Index /\ Holder[i] = from
    BY MovedPods
<1>4. Holder' = h
    BY MovedPods
<1>5. CASE amount = 0
  <2>1. h = Holder
    <3>1. \A i \in Index : h[i] = Holder[i]
        BY <1>2, <1>5 DEF RunAt
    <3>2. Holder = [i \in Index |-> Holder[i]]
        BY DEF Holder
    <3> QED
        BY <3>1, <3>2
  <2> HIDE DEF h
  <2> QED
      BY <1>1, <1>4, <2>1 DEF Line!lineVars
<1>6. CASE amount # 0
  <2> DEFINE Of(a) == {i \in Index : Holder[i] = a}
             first == id + start
             last == id + start + amount - 1
  <2>1. run = first .. last /\ first \in run /\ last \in run
      BY <1>2, <1>6 DEF RunAt
  <2>2. run \subseteq Of(from)
      BY <1>3
  <2>3. first \in Of(from) /\ last \in Of(from) /\ first .. last \subseteq Of(from)
      BY <2>1, <2>2
  <2>4. Holder' = [i \in Index |-> IF i \in first .. last THEN to ELSE Holder[i]]
      BY <1>4, <2>1
  <2> HIDE DEF first, last
  <2>5. Line!Move(from, to)
      BY <1>1, <2>3, <2>4 DEF Line!Move, Line!Passed, Line!Pods, Index
  <2>6. Line!LineNext
      BY <2>5 DEF Line!LineNext
  <2> QED
      BY <2>6
<1> QED
    BY <1>5, <1>6

\* A step that leaves the plots alone advances the front or nothing.
LEMMA KeepAdvances ==
    ASSUME IInv, harvestable' \in Nat, KeepsPlots
    PROVE  [Line!LineNext]_(Line!lineVars)
<1>1. /\ harvestable \in Nat /\ pods \in Nat /\ pods <= MaxPods /\ MaxPods \in Nat
      /\ harvestable <= harvestable' /\ harvestable' <= pods
      /\ plots' = plots /\ pods' = pods
    BY Types DEF IInv, KeepsPlots
<1>2. Holder' = Holder
    BY <1>1 DEF Holder
<1>3. PICK n \in 0 .. MaxPods : harvestable' = harvestable + n
  <2>1. \A x, y, z \in Nat : (x <= y /\ y <= z) => \E n \in 0 .. z : y = x + n
    <3> SUFFICES ASSUME NEW x \in Nat, NEW y \in Nat, NEW z \in Nat, x <= y, y <= z
                 PROVE  \E n \in 0 .. z : y = x + n
        OBVIOUS
    <3>1. y - x \in 0 .. z /\ y = x + (y - x)
        OBVIOUS
    <3> QED
        BY <3>1
  <2>2. harvestable' <= MaxPods
      BY <1>1
  <2> QED
      BY <1>1, <2>1, <2>2
<1>4. Line!Advance(n)
    BY <1>1, <1>2, <1>3 DEF Line!Advance
<1>5. Line!LineNext
    BY <1>3, <1>4 DEF Line!LineNext
<1> QED
    BY <1>5

\* Every step of the Field and the Marketplace is a step of the Pod line, or
\* leaves it as it is.
LEMMA LineStep ==
    ASSUME 0 \notin FillAmounts, IInv, IInv', [Next]_vars
    PROVE  [Line!LineNext]_(Line!lineVars)
<1>1. HolderCorrect'
    BY HolderIs, PTL
<1>2. harvestable' \in Nat
    BY DEF IInv, TypeOK, FieldTypeOK, Index
<1>3. ASSUME NEW c \in Accounts, NEW n \in Nat, SowsPods(c, n)
      PROVE  [Line!LineNext]_(Line!lineVars)
    BY <1>1, <1>3, SowAppends
<1>4. ASSUME NEW c \in Accounts, NEW ids \in SUBSET Index, HarvestsPods(c, ids)
      PROVE  [Line!LineNext]_(Line!lineVars)
    BY <1>1, <1>4, HarvestRedeems
<1>5. ASSUME NEW from \in Accounts, NEW to \in Accounts, NEW id \in Index,
             NEW start \in Nat, NEW amount \in Nat, MovesPods(from, to, id, start, amount)
      PROVE  [Line!LineNext]_(Line!lineVars)
    BY <1>1, <1>5, MoveMoves
<1>6. CASE KeepsPlots
    BY <1>2, <1>6, KeepAdvances
<1> QED
    BY <1>3, <1>4, <1>5, <1>6, PlotSteps

\* The Field and the Marketplace implement the Pod line: whatever they do to
\* the maps of plots, to an account that watches who holds each Pod they append
\* at the end, redeem at the front, or move a run of Pods from one to another.
THEOREM ImplementsPodLine ==
    ASSUME 0 \notin FillAmounts
    PROVE  Spec => RefinesPodLine
<1>1. Init => Line!LineInit
  <2> SUFFICES ASSUME Init
               PROVE  Line!LineInit
      OBVIOUS
  <2>1. /\ pods = 0 /\ harvestable = 0
        /\ \A x \in Accounts, i \in Index : plots[x][i] = 0
      BY DEF Init, FieldInit
  <2>2. ASSUME NEW i \in Index
        PROVE  Holder[i] = Nobody
    <3>1. \A a \in Accounts : ~ \E id \in 0 .. i : i < id + plots[a][id]
      <4> SUFFICES ASSUME NEW a \in Accounts, NEW id \in 0 .. i, i < id + plots[a][id]
                   PROVE  FALSE
          OBVIOUS
      <4>1. id \in Index /\ i \in Nat
          BY FieldAssumption DEF Index
      <4>2. plots[a][id] = 0
          BY <2>1, <4>1
      <4> QED
          BY <4>1, <4>2
    <3> QED
        BY <3>1 DEF Holder
  <2>3. Holder = [i \in Index |-> Nobody]
    <3>1. Holder = [i \in Index |-> Holder[i]]
        BY DEF Holder
    <3> QED
        BY <2>2, <3>1
  <2> QED
      BY <2>1, <2>3 DEF Line!LineInit, Line!Pods, Index
<1>2. IInv /\ IInv' /\ [Next]_vars => [Line!LineNext]_(Line!lineVars)
    BY LineStep
<1> QED
    BY <1>1, <1>2, Invariant, PTL DEF Spec, RefinesPodLine, Line!LineSpec

(***************************************************************************)
(* Who loses Pods, who is paid for them, and what a buyer gets             *)
(***************************************************************************)
PodsAreHeld == \A a \in Accounts : PodsOf(a) = {i \in Index : Holder[i] = a}

\* The Pods of an account, by their holder.
LEMMA PodsHeld == HolderCorrect => PodsAreHeld
<1> SUFFICES ASSUME HolderCorrect, NEW a \in Accounts
             PROVE  PodsOf(a) = {i \in Index : Holder[i] = a}
    BY DEF PodsAreHeld
<1>1. \A i \in Index : Holder[i] = a <=> \E id \in 0 .. i : i < id + plots[a][id]
    BY DEF HolderCorrect, Holds
<1>2. \A i \in Index : \A id \in 0 .. i : Covers(a, id, i) <=> i < id + plots[a][id]
    BY DEF Covers, Index
<1> QED
    BY <1>1, <1>2 DEF PodsOf

\* A run of Pods is as many as it says.
LEMMA RunCardinality ==
    ASSUME NEW first \in Nat, NEW amount \in Nat
    PROVE  /\ IsFiniteSet(first .. first + amount - 1)
           /\ Cardinality(first .. first + amount - 1) = amount
<1> DEFINE last == first + amount - 1
<1>1. first \in Int /\ last \in Int
    OBVIOUS
<1>2. /\ IsFiniteSet(first .. last)
      /\ Cardinality(first .. last) = IF first > last THEN 0 ELSE last - first + 1
  <2> HIDE DEF last
  <2> QED
      BY <1>1, FS_Interval, Zenon
<1>3. (IF first > last THEN 0 ELSE last - first + 1) = amount
    OBVIOUS
<1> QED
    BY <1>2, <1>3

\* What a move of Pods takes from one account is what another one gets.
LEMMA PodsThatMove ==
    ASSUME IInv, HolderCorrect', NEW from \in Accounts, NEW to \in Accounts,
           NEW id \in Index, NEW start \in Nat, NEW amount \in Nat,
           MovesPods(from, to, id, start, amount)
    PROVE  LET run == RunAt(id, start, amount)
           IN  /\ run \subseteq Index /\ Cardinality(run) = amount /\ IsFiniteSet(run)
               /\ PodsOf(from) \ PodsOf(from)' = run
               /\ PodsOf(to)' \ PodsOf(to) = run
               /\ \A a \in Accounts : a # from => PodsOf(a) \ PodsOf(a)' = {}
               /\ \A a \in Accounts : a # to => PodsOf(a)' \ PodsOf(a) = {}
<1> DEFINE run == RunAt(id, start, amount)
<1>1. /\ id + start \in Nat /\ from # to
      /\ \A i \in run : i \in Index /\ Holder[i] = from
      /\ Holder' = [i \in Index |-> IF i \in run THEN to ELSE Holder[i]]
    BY MovedPods DEF MovesPods
<1>2. Cardinality(run) = amount /\ IsFiniteSet(run)
    BY <1>1, RunCardinality DEF RunAt
<1> HIDE DEF run
<1>3. \A a \in Accounts : PodsOf(a) = {i \in Index : Holder[i] = a}
    BY HolderIs, PodsHeld DEF PodsAreHeld
<1>4. \A a \in Accounts : PodsOf(a)' = {i \in Index : Holder'[i] = a}
  <2>1. PodsAreHeld'
      BY PodsHeld, PTL
  <2> QED
      BY <2>1 DEF PodsAreHeld
<1>5. \A i \in Index : Holder'[i] = IF i \in run THEN to ELSE Holder[i]
    BY <1>1
<1>6. run \subseteq Index
    BY <1>1
<1>7. PodsOf(from) \ PodsOf(from)' = run
    BY <1>1, <1>3, <1>4, <1>5, <1>6
<1>8. PodsOf(to)' \ PodsOf(to) = run
    BY <1>1, <1>3, <1>4, <1>5, <1>6
<1>9. ASSUME NEW a \in Accounts
      PROVE  /\ a # from => PodsOf(a) \ PodsOf(a)' = {}
             /\ a # to => PodsOf(a)' \ PodsOf(a) = {}
    BY <1>1, <1>3, <1>4, <1>5
<1> QED
    BY <1>2, <1>6, <1>7, <1>8, <1>9 DEF run

\* The Pods that left an account are the run of that many Pods inside the plot.
RunLeft(from, id, start, amount) ==
    /\ PodsOf(from) \ PodsOf(from)' = RunAt(id, start, amount)
    /\ Cardinality(RunAt(id, start, amount)) = amount

\* A move takes one run of Pods from the account that had the plot.
LEMMA PodsTaken ==
    ASSUME IInv, HolderCorrect', NEW from \in Accounts, NEW to \in Accounts,
           NEW id \in Index, NEW start \in Nat, NEW amount \in Nat,
           MovesPods(from, to, id, start, amount)
    PROVE  RunLeft(from, id, start, amount)
<1>1. /\ Cardinality(RunAt(id, start, amount)) = amount
      /\ PodsOf(from) \ PodsOf(from)' = RunAt(id, start, amount)
    BY PodsThatMove
<1> QED
    BY <1>1 DEF RunLeft

\* The Pods of an account whose plots stay stay too.
LEMMA PodsKept ==
    ASSUME NEW a \in Accounts, plots'[a] = plots[a]
    PROVE  PodsOf(a)' = PodsOf(a)
BY DEF PodsOf, Covers

\* What leaves an account in a call of another one is in a plot that the call
\* cuts: one that is listed, or one that an allowance gives away.
LEMMA OwnersStep ==
    ASSUME 0 \notin FillAmounts, IInv, HolderCorrect', NEW c \in Accounts, NEW a \in Accounts,
           c # a, Call(c)
    PROVE  MayLose(a, c, PodsOf(a) \ PodsOf(a)')
<1> USE FieldAssumption, MarketAssumption
<1> DEFINE lost == PodsOf(a) \ PodsOf(a)'
<1>0. /\ TypeOK /\ PlotsTypeOK
      /\ Listed \subseteq Index /\ \A x \in Accounts : PlotsOf(x) \subseteq Index
    BY Types DEF IInv, Listed, PlotsOf
<1>1. ASSUME lost = {}
      PROVE  MayLose(a, c, lost)
    BY <1>1 DEF MayLose
<1>2. ASSUME plots'[a] = plots[a]
      PROVE  MayLose(a, c, lost)
    BY <1>1, <1>2, PodsKept
<1>3. ASSUME FieldCall(c)
      PROVE  MayLose(a, c, lost)
  <2>1. plots'[a] = plots[a]
      BY <1>0, <1>3 DEF FieldCall, SowWithMin, SowNoSoil, Harvest, PlotsAfterHarvest, PlotsTypeOK
  <2> QED
      BY <1>2, <2>1
<1>4. ASSUME NEW sender \in Accounts, NEW recipient \in Accounts, NEW id \in Index,
             NEW start \in Index, NEW end \in Index,
             TransferPlot(c, sender, recipient, id, start, end)
      PROVE  MayLose(a, c, lost)
  <2>1. /\ start \in Nat /\ end - start \in Nat
        /\ MovesPods(sender, recipient, id, start, end - start)
      BY <1>4, TransferMoves
  <2>2. CASE a # sender
    <3>1. lost = {}
        BY <2>1, <2>2, PodsThatMove
    <3> QED
        BY <1>1, <3>1
  <2>3. CASE a = sender
    <3>1. Cardinality(lost) = end - start
      <4> DEFINE n == end - start
      <4>1. start \in Nat /\ n \in Nat /\ MovesPods(sender, recipient, id, start, n)
          BY <2>1
      <4> HIDE DEF n
      <4>2. RunLeft(sender, id, start, n)
          BY <4>1, PodsTaken
      <4>3. /\ PodsOf(sender) \ PodsOf(sender)' = RunAt(id, start, n)
            /\ Cardinality(RunAt(id, start, n)) = n
          BY <4>2 DEF RunLeft
      <4>4. lost = PodsOf(sender) \ PodsOf(sender)'
          BY <2>3
      <4> HIDE DEF lost
      <4> QED
          BY <4>3, <4>4 DEF n
    <3>2. SpendPods(c, a, end - start)
        BY <1>4, <2>3 DEF TransferPlot
    <3>3. /\ podAllowances \in [Accounts -> [Accounts -> Nat]]
          /\ podAllowances[a][c] \in Nat
        BY <1>0 DEF TypeOK
    <3>4. \/ podAllowances[a][c] = UnlimitedAllowance
          \/ podAllowances[a][c] - podAllowances'[a][c] = end - start
      <4> DEFINE n == end - start
      <4>1. n \in Nat
          BY <2>1
      <4> HIDE DEF n
      <4>2. SpendPods(c, a, n) => \/ podAllowances[a][c] = UnlimitedAllowance
                                  \/ podAllowances[a][c] - podAllowances'[a][c] = n
          BY <3>3, <4>1 DEF SpendPods
      <4> QED
          BY <3>2, <4>2 DEF n
    <3> HIDE DEF lost
    <3> QED
        BY <3>1, <3>4 DEF MayLose
  <2> QED
      BY <2>2, <2>3
<1>5. ASSUME NEW seller \in Accounts, NEW index \in Index, NEW moonAmount \in MoonAmounts,
             NEW mode \in FromModes, FillPodListing(c, seller, index, moonAmount, mode)
      PROVE  MayLose(a, c, lost)
  <2> DEFINE listing == podListings[index]
             amount == Filled(c, index, moonAmount, mode)
  <2>1. /\ listing.start \in Nat /\ amount \in Nat
        /\ MovesPods(seller, c, index, listing.start, amount)
      BY <1>5, FillListingMoves
  <2>2. CASE a # seller
    <3>1. lost = {}
        BY <2>1, <2>2, PodsThatMove
    <3> QED
        BY <1>1, <3>1
  <2>3. CASE a = seller
    <3>1. lost = RunAt(index, listing.start, amount) /\ lost \subseteq Index
        BY <2>1, <2>3, PodsThatMove
    <3>2. /\ listing # NoListing /\ plots[a][index] > 0
          /\ amount <= listing.amount /\ listing.amount \in Nat
      <4>1. listing \in Listings /\ amount <= listing.amount
            /\ listing.start + amount <= plots[seller][index]
            /\ listing.start < plots[seller][index]
          BY <1>5, FillAmount
      <4>2. listing # NoListing
          BY <1>5 DEF FillPodListing
      <4>3. listing.amount \in Nat /\ plots[a][index] \in Nat
          BY <1>0, <4>1, Types DEF Listings, Index
      <4> QED
          BY <2>1, <2>3, <4>1, <4>2, <4>3
    <3> HIDE DEF amount
    <3>3. ASSUME NEW i \in lost
          PROVE  i - index - listing.start \in 0 .. listing.amount - 1
      <4>1. i \in RunAt(index, listing.start, amount) /\ index \in Nat
          BY <1>0, <3>1, Types
      <4> HIDE DEF listing
      <4> QED
          BY <2>1, <3>2, <4>1 DEF RunAt
    <3> HIDE DEF lost
    <3>4. lost \subseteq ListedPods(a)
        BY <3>1, <3>2, <3>3 DEF ListedPods
    <3> QED
        BY <3>4 DEF MayLose
  <2> QED
      BY <2>2, <2>3
<1>6. ASSUME NEW id \in OrderIds, NEW index \in Index, NEW start \in Index,
             NEW amount \in FillAmounts, NEW mode \in ToModes,
             FillPodOrder(c, id, index, start, amount, mode)
      PROVE  MayLose(a, c, lost)
  <2>1. /\ id.account \in Accounts /\ start \in Nat /\ amount \in Nat
        /\ MovesPods(c, id.account, index, start, amount)
      BY <1>6, FillOrderMoves
  <2>2. lost = {}
      BY <2>1, PodsThatMove
  <2> QED
      BY <1>1, <2>2
<1> HIDE DEF lost
<1>7. ASSUME TransferCall(c)
      PROVE  MayLose(a, c, lost)
  <2>1. ASSUME NEW spender \in Accounts, NEW amount \in Allowances, ApprovePods(c, spender, amount)
        PROVE  MayLose(a, c, lost)
    <3>1. plots'[a] = plots[a]
        BY <2>1 DEF ApprovePods, fieldVars, lineVars
    <3> QED
        BY <1>2, <3>1
  <2> QED
      BY <1>0, <1>4, <1>7, <2>1 DEF TransferCall
<1>8. ASSUME ListingCall(c)
      PROVE  MayLose(a, c, lost)
  <2>1. ASSUME UNCHANGED lineVars
        PROVE  MayLose(a, c, lost)
    <3>1. plots'[a] = plots[a]
        BY <2>1 DEF lineVars
    <3> QED
        BY <1>2, <3>1
  <2>2. ASSUME NEW index, NEW listing, CreatePodListing(c, index, listing)
        PROVE  MayLose(a, c, lost)
      BY <2>1, <2>2 DEF CreatePodListing
  <2>3. ASSUME NEW index \in Index, CancelPodListing(c, index)
        PROVE  MayLose(a, c, lost)
      BY <2>1, <2>3 DEF CancelPodListing
  <2> QED
      BY <1>0, <1>5, <1>8, <2>2, <2>3 DEF ListingCall
<1>9. ASSUME OrderCall(c)
      PROVE  MayLose(a, c, lost)
  <2>1. ASSUME UNCHANGED lineVars
        PROVE  MayLose(a, c, lost)
    <3>1. plots'[a] = plots[a]
        BY <2>1 DEF lineVars
    <3> QED
        BY <1>2, <3>1
  <2>2. ASSUME NEW id \in OrderIds, NEW moonAmount \in MoonAmounts, NEW mode \in FromModes,
               CreatePodOrder(c, id, moonAmount, mode)
        PROVE  MayLose(a, c, lost)
      BY <2>1, <2>2 DEF CreatePodOrder
  <2>3. ASSUME NEW id \in OrderIds, NEW mode \in ToModes, CancelPodOrder(c, id, mode)
        PROVE  MayLose(a, c, lost)
      BY <2>1, <2>3 DEF CancelPodOrder
  <2> QED
      BY <1>0, <1>6, <1>9, <2>2, <2>3 DEF OrderCall
<1> QED
    BY <1>3, <1>7, <1>8, <1>9 DEF Call, lost

\* A call takes from another account only Pods that it has listed, or as many
\* as an allowance of the caller loses by it.
THEOREM NobodyLosesPods ==
    ASSUME 0 \notin FillAmounts
    PROVE  Spec => NoUnauthorisedLoss
<1>1. IInv /\ IInv' /\ [Next]_vars => [ProtectsOwners]_vars
  <2> SUFFICES ASSUME IInv, IInv', [Next]_vars
               PROVE  ProtectsOwners
      OBVIOUS
  <2>1. HolderCorrect'
      BY HolderIs, PTL
  <2> QED
      BY <2>1, OwnersStep DEF ProtectsOwners
<1> QED
    BY <1>1, Invariant, PTL DEF Spec, NoUnauthorisedLoss

\* What is paid for the Pods of a fill, rounded down, is less than one Moon
\* unit short of their price.
LEMMA FillPaid ==
    ASSUME NEW moons \in Nat, NEW price \in Nat, price > 0, NEW listed \in Nat
    PROVE  PodsFromFill(moons, price, listed) * price <= (moons + 1) * PriceUnit
<1> DEFINE m == moons * PriceUnit
           bought == PodsBought(moons, price)
           rest == PriceUnit \div price
<1>1. PriceUnit \in Nat /\ m \in Nat /\ price \in Nat \ {0}
    BY MarketAssumption
<1>2. bought \in Nat /\ price * bought <= m
  <2> HIDE DEF m
  <2>1. m \div price \in Nat /\ price * (m \div price) <= m
      BY <1>1, DivBounds
  <2> QED
      BY <2>1 DEF PodsBought, m
<1>3. rest \in Nat /\ price * rest <= PriceUnit
    BY <1>1, DivBounds
<1>4. (moons + 1) * PriceUnit = m + PriceUnit
    BY <1>1
<1>5. PodsFromFill(moons, price, listed) = IF listed - bought <= rest THEN listed ELSE bought
    BY DEF PodsFromFill
<1> HIDE DEF m, bought, rest
<1>6. CASE listed - bought <= rest
  <2>1. listed <= bought + rest
      BY <1>2, <1>3, <1>6
  <2>2. listed * price <= (bought + rest) * price
      BY <1>2, <1>3, <2>1, ProductMonotone
  <2>3. (bought + rest) * price = price * bought + price * rest
      BY <1>2, <1>3
  <2>4. listed * price \in Nat /\ price * bought \in Nat /\ price * rest \in Nat
      BY <1>2, <1>3
  <2>5. listed * price <= m + PriceUnit
      BY <1>1, <1>2, <1>3, <2>2, <2>3, <2>4
  <2> QED
      BY <1>4, <1>5, <1>6, <2>5
<1>7. CASE ~(listed - bought <= rest)
  <2>1. bought * price = price * bought /\ price * bought \in Nat
      BY <1>2
  <2>2. bought * price <= m + PriceUnit
      BY <1>1, <1>2, <2>1
  <2> QED
      BY <1>4, <1>5, <1>7, <2>2
<1> QED
    BY <1>6, <1>7

\* The seller of a listing that is filled is paid for the Pods that leave.
LEMMA SellerStep ==
    ASSUME IInv, HolderCorrect', NEW seller \in Accounts, NEW index \in Index,
           Fills(seller, index)
    PROVE  PaidFor(seller, index)
<1> DEFINE listing == podListings[index]
           from == index + listing.start
           price == PriceAt(listing.pricing, from - harvestable)
<1>0. TypeOK /\ MoonAmounts \subseteq Nat /\ PriceUnit \in Nat
    BY MarketAssumption DEF IInv
<1>1. PICK c \in Accounts, moonAmount \in MoonAmounts, mode \in FromModes :
         FillPodListing(c, seller, index, moonAmount, mode)
    BY DEF Fills
<1> DEFINE amount == Filled(c, index, moonAmount, mode)
           moons == Received(bank, moonAmount, c, mode)
<1>2. /\ CanTransfer(bank, moonAmount, c, mode, listing.mode)
      /\ bank' = TransferToken(bank, moonAmount, c, seller, mode, listing.mode)
      /\ PlaceExists(listing.pricing, from) /\ price > 0 /\ seller # c
      /\ amount = PodsFromFill(moons, price, listing.amount)
    BY <1>1 DEF FillPodListing, Filled
<1>3. /\ listing \in Listings /\ from \in Index
    BY <1>0, <1>1, FillAmount
<1>4. /\ listing.pricing \in Pricings /\ listing.mode \in ToModes
      /\ listing.amount \in Nat
    BY <1>3, FieldAssumption DEF Listings, Index
<1>5. price \in Nat
  <2>1. listing.pricing.kind = "Dynamic" => from - harvestable \in Index
      BY <1>0, <1>2, <1>3, Types DEF PlaceExists, Index
  <2> QED
      BY <1>4, <2>1, PriceNat
<1>6. /\ moons \in Nat /\ Owns(bank, seller) \in Nat
      /\ Owns(bank', seller) = Owns(bank, seller) + moons
  <2>1. bank \in Banks /\ moonAmount \in Nat /\ IsFiniteSet(Accounts)
      BY <1>0, Types
  <2> HIDE DEF listing
  <2> QED
      BY <1>2, <1>4, <2>1, TransferToOne
<1>7. PodsOf(seller) \ PodsOf(seller)' = RunAt(index, listing.start, amount)
  <2>1. /\ listing.start \in Nat /\ amount \in Nat
        /\ MovesPods(seller, c, index, listing.start, amount)
      BY <1>1, FillListingMoves
  <2> HIDE DEF amount, listing
  <2> QED
      BY <2>1, PodsThatMove
<1>8. Cardinality(RunAt(index, listing.start, amount)) = amount
  <2>1. /\ listing.start \in Nat /\ amount \in Nat
        /\ MovesPods(seller, c, index, listing.start, amount)
      BY <1>1, FillListingMoves
  <2> HIDE DEF amount, listing
  <2> QED
      BY <2>1, PodsThatMove
<1>9. amount * price <= (moons + 1) * PriceUnit
  <2> HIDE DEF moons, price, amount
  <2> QED
      BY <1>2, <1>4, <1>5, <1>6, FillPaid
<1>10. Wealth(seller)' - Wealth(seller) = moons
  <2>1. Wealth(seller) = Owns(bank, seller) /\ Wealth(seller)' = Owns(bank', seller)
      BY DEF Wealth, Owns
  <2> HIDE DEF moons
  <2> QED
      BY <1>6, <2>1
<1>11. Cardinality(PodsOf(seller) \ PodsOf(seller)') * price
          <= (Wealth(seller)' - Wealth(seller) + 1) * PriceUnit
  <2> HIDE DEF price, amount, moons
  <2> QED
      BY <1>7, <1>8, <1>9, <1>10
<1> QED
    BY <1>11, Zenon DEF PaidFor

\* The seller of a listing is paid at least its price, but for a Moon unit of
\* rounding, whichever part is bought and however the buyer pays.
THEOREM SellersArePaid ==
    ASSUME 0 \notin FillAmounts
    PROVE  Spec => SellerPaid
<1>1. IInv /\ IInv' => [PaysSeller]_vars
  <2>1. IInv' => HolderCorrect'
      BY HolderIs, PTL
  <2> QED
      BY <2>1, SellerStep DEF PaysSeller
<1> QED
    BY <1>1, Invariant, PTL DEF Spec, SellerPaid

\* A sum of equal terms.
LEMMA SumConstant ==
    ASSUME NEW S, IsFiniteSet(S), NEW p \in Nat
    PROVE  Sum([x \in S |-> p]) = Cardinality(S) * p
<1> DEFINE f == [x \in S |-> p]
<1>1. Units(f) = S \X (1 .. p)
  <2>1. \A u : u \in Units(f) <=> \E x \in S : u \in {x} \X (1 .. p)
      BY DEF Units
  <2>2. \A u : u \in S \X (1 .. p) <=> \E x \in S : u \in {x} \X (1 .. p)
      OBVIOUS
  <2> HIDE DEF f
  <2> QED
      BY <2>1, <2>2
<1>2. IsFiniteSet(1 .. p) /\ Cardinality(1 .. p) = p
  <2>1. 1 \in Int /\ p \in Int
      OBVIOUS
  <2>2. /\ IsFiniteSet(1 .. p)
        /\ Cardinality(1 .. p) = IF 1 > p THEN 0 ELSE p - 1 + 1
      BY <2>1, FS_Interval, Zenon
  <2> QED
      BY <2>2
<1>3. Cardinality(S \X (1 .. p)) = Cardinality(S) * Cardinality(1 .. p)
    BY <1>2, FS_Product, Zenon
<1> QED
    BY <1>1, <1>2, <1>3 DEF Sum

\* What an order pays is no more than its prices at the places of the Pods.
LEMMA CostBound ==
    ASSUME NEW pricing \in Pricings, NEW first \in Nat, NEW amount \in Nat,
           NEW h \in Nat, pricing.kind = "Dynamic" => first >= h,
           first + amount <= MaxPods, MaxPods \in Nat
    PROVE  LET run == first .. first + amount - 1
           IN  OrderCost(pricing, first - h, amount) * PriceUnit
                  <= Sum([i \in run |-> PriceAt(pricing, i - h)])
<1> DEFINE run == first .. first + amount - 1
           prices == [i \in run |-> PriceAt(pricing, i - h)]
           cost == OrderCost(pricing, first - h, amount)
<1> SUFFICES cost * PriceUnit <= Sum(prices)
    OBVIOUS
<1>1. IsFiniteSet(run) /\ Cardinality(run) = amount
    BY RunCardinality
<1>2. (Sum(prices) \in Nat /\ cost = Sum(prices) \div PriceUnit)
         => cost * PriceUnit <= Sum(prices)
  <2> SUFFICES ASSUME Sum(prices) \in Nat, cost = Sum(prices) \div PriceUnit
               PROVE  cost * PriceUnit <= Sum(prices)
      BY Zenon
  <2> DEFINE m == Sum(prices)
  <2>1. PriceUnit \in Nat \ {0} /\ m \in Nat /\ cost = m \div PriceUnit
      BY MarketAssumption
  <2> HIDE DEF m, cost
  <2>2. m \div PriceUnit \in Nat /\ PriceUnit * (m \div PriceUnit) <= m
      BY <2>1, DivBounds
  <2>3. cost * PriceUnit <= m
      BY <2>1, <2>2
  <2> QED
      BY <2>3 DEF m
<1>3. CASE pricing.kind = "Fixed"
  <2> DEFINE p == pricing.price
  <2>1. p \in Nat
      BY <1>3, MarketAssumption DEF Pricings
  <2>2. prices = [i \in run |-> p]
      BY <1>3 DEF PriceAt
  <2>3. cost = (amount * p) \div PriceUnit
      BY <1>3 DEF OrderCost
  <2> HIDE DEF p, run, prices, cost
  <2>4. Sum([i \in run |-> p]) = Cardinality(run) * p
      BY <1>1, <2>1, SumConstant
  <2>5. Sum(prices) = amount * p /\ amount * p \in Nat
      BY <1>1, <2>1, <2>2, <2>4
  <2>6. Sum(prices) \in Nat /\ cost = Sum(prices) \div PriceUnit
      BY <2>3, <2>5
  <2> QED
      BY <1>2, <2>6, Zenon
<1>4. CASE pricing.kind = "Dynamic"
  <2> DEFINE places == (first - h) .. (first - h) + amount - 1
             g == [k \in places |-> pricing.price[k]]
             e == [k \in places |-> k + h]
  <2>1. pricing.price \in [Index -> Nat]
      BY <1>4, MarketAssumption DEF Pricings
  <2>2. \A i \in run : i - h \in Index /\ i - h \in places
      BY <1>4 DEF Index
  <2>3. prices \in [run -> Nat]
      BY <1>4, <2>1, <2>2 DEF PriceAt
  <2>4. e \in Injection(places, run)
    <3>1. \A k \in places : k + h \in run /\ k \in Int
        BY <1>4
    <3>2. e \in [places -> run] /\ \A k \in places : e[k] = k + h
        BY <3>1
    <3>3. \A k, l \in places : e[k] = e[l] => k = l
        BY <3>1, <3>2
    <3> HIDE DEF e, places, run
    <3> QED
        BY <3>2, <3>3, Zenon DEF Injection, IsInjective
  <2>5. IsFiniteSet(places)
    <3>1. first - h \in Int /\ (first - h) + amount - 1 \in Int
        OBVIOUS
    <3> QED
        BY <3>1, FS_Interval, Zenon
  <2>6. \A i \in run : \E k \in places : i = e[k]
    <3> SUFFICES ASSUME NEW i \in run PROVE \E k \in places : i = e[k]
        OBVIOUS
    <3>1. i - h \in places /\ e[i - h] = i
        BY <2>2
    <3> QED
        BY <3>1
  <2>7. g = [k \in places |-> prices[e[k]]]
    <3>1. \A k \in places : k + h \in run /\ (k + h) - h = k
        BY <1>4
    <3>2. \A k \in places : prices[e[k]] = pricing.price[k]
        BY <1>4, <3>1 DEF PriceAt
    <3> HIDE DEF prices, e, places
    <3> QED
        BY <3>2
  <2>8. cost = Sum(g) \div PriceUnit
      BY <1>4 DEF OrderCost
  <2> HIDE DEF g, e, places, prices, run, cost
  <2>9. Sum(prices) = Sum(g)
      BY <1>1, <2>3, <2>4, <2>5, <2>6, <2>7, SumAt
  <2>10. Sum(prices) \in Nat
    <3>1. DOMAIN prices = run /\ \A i \in run : prices[i] \in Nat
        BY <2>3
    <3> QED
        BY <1>1, <3>1, SumType
  <2>11. cost = Sum(prices) \div PriceUnit
      BY <2>8, <2>9
  <2> QED
      BY <1>2, <2>10, <2>11, Zenon
<1>5. pricing.kind = "Fixed" \/ pricing.kind = "Dynamic"
    BY DEF Pricings
<1> HIDE DEF cost, prices
<1> QED
    BY <1>3, <1>4, <1>5, Zenon

\* An order that is filled gets Pods within its place in line and price.
LEMMA GoodBuyStep ==
    ASSUME 0 \notin FillAmounts, IInv, HolderCorrect', NEW c \in Accounts, NEW id \in OrderIds,
           NEW index \in Index, NEW start \in Index, NEW amount \in FillAmounts,
           NEW mode \in ToModes, FillPodOrder(c, id, index, start, amount, mode)
    PROVE  GoodBuy(id, PodsOf(id.account)' \ PodsOf(id.account))
<1> DEFINE first == index + start
           run == first .. first + amount - 1
           cost == OrderCost(id.pricing, first - harvestable, amount)
           prices == [i \in run |-> PriceAt(id.pricing, i - harvestable)]
<1>1. /\ first + amount - harvestable \in 0 .. id.maxPlace
      /\ PlaceExists(id.pricing, first)
      /\ podOrders[id] >= cost
      /\ podOrders' = [podOrders EXCEPT ![id] = podOrders[id] - cost]
  <2>1. first + amount - harvestable \in 0 .. id.maxPlace
      BY DEF FillPodOrder
  <2>2. PlaceExists(id.pricing, first)
      BY DEF FillPodOrder
  <2> DEFINE place == index + start - harvestable
  <2>3. /\ podOrders[id] >= OrderCost(id.pricing, place, amount)
        /\ podOrders' = [podOrders EXCEPT ![id] =
                            podOrders[id] - OrderCost(id.pricing, place, amount)]
      BY DEF FillPodOrder
  <2>4. place = first - harvestable
    <3>1. index \in Nat /\ start \in Nat /\ harvestable \in Nat
        BY Types DEF IInv
    <3> QED
        BY <3>1
  <2> HIDE DEF place
  <2> QED
      BY <2>1, <2>2, <2>3, <2>4
<1>2. /\ id.account \in Accounts /\ start \in Nat /\ amount \in Nat
      /\ MovesPods(c, id.account, index, start, amount)
    BY FillOrderMoves
<1>3. /\ first \in Nat /\ first + amount <= MaxPods /\ MaxPods \in Nat
    BY <1>2, MovedPods
<1>4. PodsOf(id.account)' \ PodsOf(id.account) = run
    BY <1>2, PodsThatMove DEF RunAt
<1>5. /\ harvestable \in Nat /\ id.pricing \in Pricings /\ PriceUnit \in Nat
      /\ id.maxPlace \in Nat /\ podOrders \in [OrderIds -> Nat]
    BY Types, MarketAssumption DEF IInv, TypeOK, OrderIds
<1>6. id.pricing.kind = "Dynamic" => first >= harvestable
    BY <1>1 DEF PlaceExists
<1> HIDE DEF first
<1>7. cost * PriceUnit <= Sum(prices)
    BY <1>2, <1>3, <1>5, <1>6, CostBound
<1>8. cost \in Nat
  <2>1. /\ first - harvestable \in Int /\ (first - harvestable) + amount - 1 <= MaxPods
        /\ id.pricing.kind = "Dynamic" => first - harvestable \in Nat
      BY <1>2, <1>3, <1>5, <1>6
  <2> DEFINE place == first - harvestable
  <2>2. /\ place \in Int /\ place + amount - 1 <= MaxPods
        /\ id.pricing.kind = "Dynamic" => place \in Nat
      BY <2>1
  <2> HIDE DEF place
  <2>3. OrderCost(id.pricing, place, amount) \in Nat
      BY <1>2, <1>3, <1>5, <2>2, OrderCostNat
  <2> QED
      BY <2>3 DEF place
<1>9. ASSUME NEW i \in run
      PROVE  i - harvestable < id.maxPlace
    BY <1>1, <1>2, <1>3, <1>5
<1> HIDE DEF run, cost, prices
<1>10. podOrders[id] - podOrders'[id] = cost
    BY <1>1, <1>5, <1>8
<1>11. (podOrders[id] - podOrders'[id]) * PriceUnit <= Sum(prices)
    BY <1>7, <1>10
<1> QED
    BY <1>4, <1>9, <1>11, Zenon DEF GoodBuy, prices

\* A call of another account pays an account or leaves it what it has, and
\* takes from its orders what buys Pods.
LEMMA BuyersStep ==
    ASSUME 0 \notin FillAmounts, IInv, HolderCorrect', NEW c \in Accounts, NEW a \in Accounts,
           c # a, Call(c)
    PROVE  Protected(a)
<1> USE FieldAssumption, MarketAssumption
<1>0. /\ TypeOK /\ bank \in Banks /\ soil \in Nat
      /\ podOrders \in [OrderIds -> Nat]
      /\ Owns(bank, a) \in Nat
      /\ Listed \subseteq Index /\ \A x \in Accounts : PlotsOf(x) \subseteq Index
  <2>1. TypeOK
      BY DEF IInv
  <2>2. bank \in Banks /\ soil \in Nat /\ podOrders \in [OrderIds -> Nat]
      BY <2>1, Types DEF TypeOK
  <2> QED
      BY <2>1, <2>2 DEF Banks, Owns, Listed, PlotsOf
<1>1. ASSUME Owns(bank', a) >= Owns(bank, a), UNCHANGED podOrders
      PROVE  Protected(a)
  <2>1. Wealth(a)' >= Wealth(a)
      BY <1>1 DEF Wealth, Owns
  <2>2. \A id \in OrderIds : ~(podOrders'[id] < podOrders[id])
      BY <1>0, <1>1
  <2> QED
      BY <2>1, <2>2 DEF Protected
<1>2. ASSUME UNCHANGED <<bank, podOrders>>
      PROVE  Protected(a)
    BY <1>0, <1>1, <1>2
<1>3. ASSUME Owns(bank', a) >= Owns(bank, a), NEW id \in OrderIds, id.account = c,
             NEW v, podOrders' = [podOrders EXCEPT ![id] = v]
      PROVE  Protected(a)
  <2>1. Wealth(a)' >= Wealth(a)
      BY <1>3 DEF Wealth, Owns
  <2>2. ASSUME NEW o \in OrderIds, o.account = a
        PROVE  ~(podOrders'[o] < podOrders[o])
    <3>1. podOrders'[o] = podOrders[o] /\ podOrders[o] \in Nat
        BY <1>0, <1>3, <2>2
    <3> QED
        BY <3>1
  <2> QED
      BY <2>1, <2>2 DEF Protected
<1>4. ASSUME FieldCall(c)
      PROVE  Protected(a)
  <2>1. ASSUME NEW amount \in SowAmounts, NEW minAmount \in SowAmounts, NEW mode \in FromModes,
               NEW now \in 0 .. MaxUint32, SowWithMin(c, amount, minAmount, mode, now),
               UNCHANGED podOrders
        PROVE  Protected(a)
    <3> DEFINE asked == SowAmount(amount)
    <3>1. asked \in Nat /\ CanBurn(bank, asked, c, mode) /\ bank' = BurnToken(bank, asked, c, mode)
        BY <1>0, <2>1 DEF SowWithMin, SowAmount, Lesser
    <3> HIDE DEF asked
    <3>2. Owns(bank', a) = Owns(bank, a)
        BY <1>0, <3>1, BurnFromOne
    <3> QED
        BY <1>0, <1>1, <2>1, <3>2
  <2>2. ASSUME NEW ids \in SUBSET Index, NEW mode \in ToModes, Harvest(c, ids, mode),
               UNCHANGED podOrders
        PROVE  Protected(a)
    <3>1. bank' = SendToken(bank, TotalHarvest(c, ids), c, mode)
        BY <2>2 DEF Harvest
    <3>2. Owns(bank', a) = Owns(bank, a)
        BY <3>1, <1>0, PayToOther
    <3> QED
        BY <1>0, <1>1, <2>2, <3>2
  <2> QED
      BY <1>0, <1>4, <2>1, <2>2 DEF FieldCall
<1>5. ASSUME TransferCall(c)
      PROVE  Protected(a)
  <2>1. UNCHANGED <<bank, podOrders>>
      BY <1>5 DEF TransferCall, TransferPlot, ApprovePods, fieldVars
  <2> QED
      BY <1>2, <2>1
<1>6. ASSUME ListingCall(c)
      PROVE  Protected(a)
  <2>1. ASSUME NEW seller \in Accounts, NEW index \in Index, NEW moonAmount \in MoonAmounts,
               NEW mode \in FromModes, FillPodListing(c, seller, index, moonAmount, mode)
        PROVE  Protected(a)
    <3> DEFINE to == podListings[index].mode
    <3>1. /\ CanTransfer(bank, moonAmount, c, mode, to) /\ UNCHANGED podOrders
          /\ bank' = TransferToken(bank, moonAmount, c, seller, mode, to)
        BY <2>1 DEF FillPodListing
    <3>2. moonAmount \in Nat
        OBVIOUS
    <3>3. podListings[index] \in Listings
        BY <2>1, <3>2, FillAmount
    <3>4. to \in ToModes
        BY <3>3 DEF Listings
    <3> HIDE DEF to
    <3>5. Owns(bank', a) >= Owns(bank, a)
      <4>1. /\ Received(bank, moonAmount, c, mode) \in Nat
            /\ Owns(bank', a) = IF a = seller
                 THEN Owns(bank, a) + Received(bank, moonAmount, c, mode) ELSE Owns(bank, a)
          BY <1>0, <3>1, <3>2, <3>4, TransferToOne
      <4> QED
          BY <1>0, <4>1
    <3> QED
        BY <1>1, <3>1, <3>5
  <2>2. ASSUME NEW index, NEW listing, CreatePodListing(c, index, listing)
        PROVE  Protected(a)
      BY <1>2, <2>2 DEF CreatePodListing
  <2>3. ASSUME NEW index, CancelPodListing(c, index)
        PROVE  Protected(a)
      BY <1>2, <2>3 DEF CancelPodListing
  <2> QED
      BY <1>0, <1>6, <2>1, <2>2, <2>3 DEF ListingCall
<1>7. ASSUME NEW id \in OrderIds, NEW moonAmount \in MoonAmounts, NEW mode \in FromModes,
             CreatePodOrder(c, id, moonAmount, mode)
      PROVE  Protected(a)
  <2> DEFINE pulled == ReceiveToken(bank, moonAmount, c, mode)
  <2>1. /\ id.account = c /\ CanReceive(bank, moonAmount, c, mode)
        /\ bank' = SendToken(pulled, podOrders[id], c, "INTERNAL")
        /\ podOrders' = [podOrders EXCEPT ![id] = Received(bank, moonAmount, c, mode)]
      BY <1>7 DEF CreatePodOrder
  <2>2. Owns(pulled, a) = Owns(bank, a) /\ pulled \in Banks
      BY <1>0, <2>1, PullFromOne, ReceiveTokenLemma
  <2> HIDE DEF pulled
  <2>3. Owns(bank', a) = Owns(pulled, a)
    <3>1. "INTERNAL" \in ToModes
        BY DEF ToModes
    <3> QED
        BY <2>1, <2>2, <3>1, PayToOther
  <2>4. Owns(bank', a) >= Owns(bank, a)
      BY <1>0, <2>2, <2>3
  <2> QED
      BY <1>3, <2>1, <2>4
<1>8. ASSUME NEW id \in OrderIds, NEW mode \in ToModes, CancelPodOrder(c, id, mode)
      PROVE  Protected(a)
  <2>1. /\ id.account = c /\ bank' = SendToken(bank, podOrders[id], c, mode)
        /\ podOrders' = [podOrders EXCEPT ![id] = 0]
      BY <1>8 DEF CancelPodOrder
  <2>2. Owns(bank', a) >= Owns(bank, a)
      BY <1>0, <2>1, PayToOther
  <2> QED
      BY <1>3, <2>1, <2>2
<1>9. ASSUME NEW id \in OrderIds, NEW index \in Index, NEW start \in Index,
             NEW amount \in FillAmounts, NEW mode \in ToModes,
             FillPodOrder(c, id, index, start, amount, mode)
      PROVE  Protected(a)
  <2> DEFINE cost == OrderCost(id.pricing, index + start - harvestable, amount)
  <2>1. /\ bank' = SendToken(bank, cost, c, mode)
        /\ podOrders' = [podOrders EXCEPT ![id] = podOrders[id] - cost]
      BY <1>9 DEF FillPodOrder
  <2> HIDE DEF cost
  <2>2. Owns(bank', a) >= Owns(bank, a)
      BY <1>0, <2>1, PayToOther
  <2>3. Wealth(a)' >= Wealth(a)
      BY <2>2 DEF Wealth, Owns
  <2>4. GoodBuy(id, PodsOf(id.account)' \ PodsOf(id.account))
      BY <1>9, GoodBuyStep
  <2>5. ASSUME NEW o \in OrderIds, o.account = a, podOrders'[o] < podOrders[o]
        PROVE  GoodBuy(o, PodsOf(a)' \ PodsOf(a))
    <3>1. o # id => podOrders'[o] = podOrders[o] /\ podOrders[o] \in Nat
        BY <1>0, <2>1
    <3>2. o = id
        BY <2>5, <3>1
    <3> QED
        BY <2>4, <2>5, <3>2
  <2> QED
      BY <2>3, <2>5 DEF Protected
<1>10. ASSUME OrderCall(c)
       PROVE  Protected(a)
    BY <1>0, <1>7, <1>8, <1>9, <1>10 DEF OrderCall
<1> QED
    BY <1>4, <1>5, <1>6, <1>10 DEF Call

\* No call of another account takes from the balances of an account, and what
\* it takes from its orders buys Pods that are within their place in line and
\* their price.
THEOREM BuyersAreProtected ==
    ASSUME 0 \notin FillAmounts
    PROVE  Spec => BuyerProtected
<1>1. IInv /\ IInv' => [ProtectsBuyers]_vars
  <2>1. IInv' => HolderCorrect'
      BY HolderIs, PTL
  <2> QED
      BY <2>1, BuyersStep DEF ProtectsBuyers
<1> QED
    BY <1>1, Invariant, PTL DEF Spec, BuyerProtected

===============================================================================
