------------------------------ MODULE Marketplace ------------------------------
(***************************************************************************)
(* The Pod Marketplace on top of the Field: an account lists part of a     *)
(* plot for sale, or escrows Moons in an order for Pods, or transfers Pods *)
(* itself or by allowance.  Listing.sol, Order.sol, PodTransfer.sol and    *)
(* MarketplaceFacet.sol.                                                   *)
(*                                                                         *)
(* A listing and an order are stored as hashes of their terms: here they   *)
(* are the record of the terms.  As in the code the terms of a listing do  *)
(* not name its seller and those of an order do name its buyer.  The first *)
(* version of either has a fixed price; the second has a price that is a   *)
(* function of the place in line (a piecewise polynomial in the code).     *)
(***************************************************************************)
EXTENDS Field

CONSTANTS
    PriceUnit,         \* Moon units per Moon: prices are in Moons per PriceUnit Pods (1e6)
    FixedPrices,       \* prices of version 1
    PriceFunctions,    \* prices by place in line, of version 2
    ListingPricings, OrderPricings,   \* the pricings callers use in listings and orders
    MaxHarvestables,   \* maxHarvestableIndex of a listing
    MinFills,          \* minFillAmount of a listing or an order
    MaxPlaces,         \* maxPlaceInLine of an order
    MoonAmounts,       \* Moons a buyer offers to a listing or puts in an order
    FillAmounts,       \* Pods a seller offers to an order
    Allowances,        \* arguments of approvePods
    UnlimitedAllowance, \* uint256(-1)
    Nobody             \* who holds a Pod that is not in any plot

Pricings == [kind : {"Fixed"}, price : FixedPrices]
                \union [kind : {"Dynamic"}, price : PriceFunctions]

ASSUME MarketAssumption ==
    /\ PriceUnit \in Nat \ {0}
    /\ FixedPrices \subseteq Nat
    /\ PriceFunctions \subseteq [Index -> Nat]
    /\ ListingPricings \subseteq Pricings /\ OrderPricings \subseteq Pricings
    /\ IsFiniteSet(OrderPricings)
    /\ MaxHarvestables \subseteq Nat
    /\ MinFills \subseteq Nat /\ IsFiniteSet(MinFills)
    /\ MaxPlaces \subseteq Nat /\ IsFiniteSet(MaxPlaces)
    /\ MoonAmounts \subseteq Nat /\ FillAmounts \subseteq Nat
    /\ Allowances \subseteq Nat /\ UnlimitedAllowance \in Nat

Listings == [start : Index, amount : Index, pricing : Pricings,
             maxHarvestable : Nat, minFill : Nat, mode : ToModes]

ASSUME NoListingAssumption == NoListing \notin Listings
ASSUME NobodyAssumption == Nobody \notin Accounts

OrderIds == [account : Accounts, pricing : OrderPricings,
             maxPlace : MaxPlaces, minFill : MinFills]

VARIABLES
    podOrders,     \* s.podOrders
    podAllowances  \* s.a[owner].field.podAllowances[spender]

vars == <<fieldVars, podOrders, podAllowances>>

(***************************************************************************)
(* Prices                                                                  *)
(***************************************************************************)
PriceAt(pricing, place) ==
    IF pricing.kind = "Fixed" THEN pricing.price ELSE pricing.price[place]

\* A dynamic price is read at a place in line: the Pod must not be harvestable.
PlaceExists(pricing, index) == pricing.kind = "Dynamic" => index >= harvestable

\* getAmountPodsFromFillListing: what moons buy; a rest worth at most one
\* unit of Moon is included.
PodsBought(moons, price) == (moons * PriceUnit) \div price

\* A mutant of PodsFromFill: the rest is compared with a Moon's worth of
\* Pods at a price of one.
PodsFromFillUnpriced(moons, price, listed) ==
    IF listed - PodsBought(moons, price) <= PriceUnit
    THEN listed ELSE PodsBought(moons, price)

PodsFromFill(moons, price, listed) ==
    IF listed - PodsBought(moons, price) <= PriceUnit \div price
    THEN listed ELSE PodsBought(moons, price)

\* A mutant of OrderCost: the cost is rounded up.
OrderCostRoundedUp(pricing, place, amount) ==
    ((IF pricing.kind = "Fixed"
      THEN amount * pricing.price
      ELSE Sum([k \in place .. place + amount - 1 |-> pricing.price[k]]))
     + PriceUnit - 1) \div PriceUnit

\* What an order pays for amount Pods: a fixed price, or the integral of the
\* price function from place on.
OrderCost(pricing, place, amount) ==
    (IF pricing.kind = "Fixed"
     THEN amount * pricing.price
     ELSE Sum([k \in place .. place + amount - 1 |-> pricing.price[k]]))
    \div PriceUnit

(***************************************************************************)
(* Transfers of Pods                                                       *)
(***************************************************************************)
InsertPlot(p, a, id, amount) == [p EXCEPT ![a][id] = amount]

\* A mutant of RemovePlot: the Pods after the cut are lost.
RemovePlotAndTail(p, a, id, start, end) == [p EXCEPT ![a][id] = start]

\* Cut [start, end) out of plot id.  A plot of no Pods is no plot.
RemovePlot(p, a, id, start, end) ==
    LET cut == [p EXCEPT ![a][id] = start]
    IN  IF end = p[a][id] THEN cut
        ELSE [cut EXCEPT ![a][id + end] = p[a][id] - end]

\* A mutant of MovePods: the Pods come to the recipient at the start of the
\* sender's plot.
MovePodsToStart(from, to, id, start, amount) ==
    RemovePlot(InsertPlot(plots, to, id, amount), from, id, start, start + amount)

MovePods(from, to, id, start, amount) ==
    RemovePlot(InsertPlot(plots, to, id + start, amount), from, id, start, start + amount)

Delist(index) == [podListings EXCEPT ![index] = NoListing]

\* A mutant of CancelListingOf: the listing stays.
KeepListingOf(a, index) == podListings' = podListings

\* _cancelPodListing: only with the plot does the listing go.
CancelListingOf(a, index) ==
    IF podListings[index] = NoListing
    THEN podListings' = podListings
    ELSE plots[a][index] > 0 /\ podListings' = Delist(index)

\* A mutant of SpendPods: the allowance is checked and not used up.
CheckAllowance(c, owner, amount) ==
    /\ c = owner \/ podAllowances[owner][c] >= amount
    /\ podAllowances' = podAllowances

\* The allowance a spender other than the owner uses up, unless unlimited.
SpendPods(c, owner, amount) ==
    IF c = owner \/ podAllowances[owner][c] = UnlimitedAllowance
    THEN podAllowances' = podAllowances
    ELSE /\ podAllowances[owner][c] >= amount
         /\ podAllowances' = [podAllowances EXCEPT ![owner][c] = @ - amount]

TransferPlot(c, sender, recipient, id, start, end) ==
    /\ plots[sender][id] > 0
    /\ end > start /\ plots[sender][id] >= end
    /\ SpendPods(c, sender, end - start)
    /\ CancelListingOf(sender, id)
    /\ sender # recipient
    /\ plots' = MovePods(sender, recipient, id, start, end - start)
    /\ UNCHANGED <<weatherVars, pods, harvestable, harvested, bank, podOrders>>

ApprovePods(c, spender, amount) ==
    /\ podAllowances' = [podAllowances EXCEPT ![c][spender] = amount]
    /\ UNCHANGED <<fieldVars, podOrders>>

(***************************************************************************)
(* Listings                                                                *)
(***************************************************************************)
CreatePodListing(c, index, listing) ==
    /\ plots[c][index] >= listing.start + listing.amount
    /\ listing.amount > 0
    /\ listing.pricing.kind = "Fixed" => listing.pricing.price > 0
    /\ harvestable <= listing.maxHarvestable
    /\ podListings' = [podListings EXCEPT ![index] = listing]
    /\ UNCHANGED <<weatherVars, lineVars, bank, podOrders, podAllowances>>

CancelPodListing(c, index) ==
    /\ plots[c][index] > 0
    /\ podListings' = Delist(index)
    /\ UNCHANGED <<weatherVars, lineVars, bank, podOrders, podAllowances>>

\* A mutant of RelistRest: a partial fill leaves the filled listing.
RelistRestOnly(index, listing, amount) ==
    IF listing.amount > amount
    THEN [podListings EXCEPT ![index + listing.start + amount] =
             [listing EXCEPT !.start = 0, !.amount = @ - amount]]
    ELSE Delist(index)

\* What is left of a listing after a fill starts a plot of its own.
RelistRest(index, listing, amount) ==
    IF listing.amount > amount
    THEN [Delist(index) EXCEPT ![index + listing.start + amount] =
             [listing EXCEPT !.start = 0, !.amount = @ - amount]]
    ELSE Delist(index)

FillPodListing(c, seller, index, moonAmount, mode) ==
    LET listing == podListings[index]
        from    == index + listing.start
        moons   == Received(bank, moonAmount, c, mode)
        price   == PriceAt(listing.pricing, from - harvestable)
        amount  == PodsFromFill(moons, price, listing.amount)
    IN  /\ listing # NoListing
        /\ CanTransfer(bank, moonAmount, c, mode, listing.mode)
        /\ bank' = TransferToken(bank, moonAmount, c, seller, mode, listing.mode)
        /\ plots[seller][index] >= listing.start + listing.amount
        /\ listing.amount > 0
        /\ harvestable <= listing.maxHarvestable
        /\ PlaceExists(listing.pricing, from)
        /\ price > 0
        /\ PodsBought(moons, price) <= listing.amount
        /\ amount >= listing.minFill
        /\ podListings' = RelistRest(index, listing, amount)
        /\ seller # c
        /\ plots' = MovePods(seller, c, index, listing.start, amount)
        /\ UNCHANGED <<weatherVars, pods, harvestable, harvested,
                       podOrders, podAllowances>>

(***************************************************************************)
(* Orders                                                                  *)
(***************************************************************************)

\* A new order under the terms of an old one replaces it, and the old one is
\* refunded to the internal balance.
CreatePodOrder(c, id, moonAmount, mode) ==
    LET received == Received(bank, moonAmount, c, mode)
    IN  /\ id.account = c
        /\ CanReceive(bank, moonAmount, c, mode)
        /\ received > 0
        /\ id.pricing.kind = "Fixed" => id.pricing.price > 0
        /\ bank' = SendToken(ReceiveToken(bank, moonAmount, c, mode),
                             podOrders[id], c, "INTERNAL")
        /\ podOrders' = [podOrders EXCEPT ![id] = received]
        /\ UNCHANGED <<weatherVars, lineVars, podListings, podAllowances>>

\* A mutant of CancelPodOrder: refunded and not deleted.
RefundPodOrder(c, id, mode) ==
    /\ id.account = c
    /\ CanSend(bank, podOrders[id], mode)
    /\ bank' = SendToken(bank, podOrders[id], c, mode)
    /\ UNCHANGED <<weatherVars, lineVars, podListings, podOrders, podAllowances>>

CancelPodOrder(c, id, mode) ==
    /\ id.account = c
    /\ CanSend(bank, podOrders[id], mode)
    /\ bank' = SendToken(bank, podOrders[id], c, mode)
    /\ podOrders' = [podOrders EXCEPT ![id] = 0]
    /\ UNCHANGED <<weatherVars, lineVars, podListings, podAllowances>>

FillPodOrder(c, id, index, start, amount, mode) ==
    LET cost == OrderCost(id.pricing, index + start - harvestable, amount)
    IN  /\ amount >= id.minFill
        /\ plots[c][index] >= start + amount
        /\ index + start + amount - harvestable \in 0 .. id.maxPlace
        /\ PlaceExists(id.pricing, index + start)
        /\ podOrders[id] >= cost
        /\ podOrders' = [podOrders EXCEPT ![id] = @ - cost]
        /\ CanSend(bank, cost, mode)
        /\ bank' = SendToken(bank, cost, c, mode)
        /\ CancelListingOf(c, index)
        /\ c # id.account
        /\ plots' = MovePods(c, id.account, index, start, amount)
        /\ UNCHANGED <<weatherVars, pods, harvestable, harvested, podAllowances>>

(***************************************************************************)
(* The specification                                                       *)
(***************************************************************************)
Init ==
    /\ FieldInit
    /\ podOrders = [id \in OrderIds |-> 0]
    /\ podAllowances = [a \in Accounts |-> [b \in Accounts |-> 0]]

\* The plots of an account, and the plots that are listed: calls that name
\* others revert.
PlotsOf(a) == {i \in Index : plots[a][i] > 0}
Listed     == {i \in Index : podListings[i] # NoListing}

\* A call of the Field by account c.  A harvest of nothing changes nothing.
FieldCall(c) ==
    /\ \/ \E amount, minAmount \in SowAmounts, mode \in FromModes, now \in 0 .. MaxUint32 :
            SowWithMin(c, amount, minAmount, mode, now)
       \/ \E ids \in SUBSET PlotsOf(c) \ {{}}, mode \in ToModes : Harvest(c, ids, mode)
    /\ UNCHANGED <<podOrders, podAllowances>>

TransferCall(c) ==
    \/ \E sender, recipient \in Accounts : \E id \in PlotsOf(sender), start, end \in Index :
         TransferPlot(c, sender, recipient, id, start, end)
    \/ \E spender \in Accounts, amount \in Allowances : ApprovePods(c, spender, amount)

ListingCall(c) ==
    \/ \E index \in PlotsOf(c), start, amount \in Index, pricing \in ListingPricings,
          maxHarvestable \in MaxHarvestables, minFill \in MinFills, mode \in ToModes :
         CreatePodListing(c, index,
             [start |-> start, amount |-> amount, pricing |-> pricing,
              maxHarvestable |-> maxHarvestable, minFill |-> minFill, mode |-> mode])
    \/ \E index \in PlotsOf(c) : CancelPodListing(c, index)
    \/ \E seller \in Accounts, index \in Listed, moonAmount \in MoonAmounts,
          mode \in FromModes :
         FillPodListing(c, seller, index, moonAmount, mode)

OrderCall(c) ==
    \/ \E id \in OrderIds, moonAmount \in MoonAmounts, mode \in FromModes :
         CreatePodOrder(c, id, moonAmount, mode)
    \/ \E id \in OrderIds, mode \in ToModes : CancelPodOrder(c, id, mode)
    \/ \E id \in OrderIds, index \in PlotsOf(c), start \in Index, amount \in FillAmounts,
          mode \in ToModes :
         FillPodOrder(c, id, index, start, amount, mode)

\* Any transaction with msg.sender = c.
Call(c) == FieldCall(c) \/ TransferCall(c) \/ ListingCall(c) \/ OrderCall(c)

Season ==
    /\ \E newHarvestable \in Index, newSoil \in SoilAmounts, newYield \in Yields :
         Sunrise(newHarvestable, newSoil, newYield)
    /\ UNCHANGED <<podOrders, podAllowances>>

Next == Season \/ \E c \in Accounts : Call(c)

Spec == Init /\ [][Next]_vars
(***************************************************************************)
(* Properties                                                              *)
(***************************************************************************)
TypeOK ==
    /\ FieldTypeOK
    /\ podListings \in [Index -> Listings \union {NoListing}]
    /\ podOrders \in [OrderIds -> Nat]
    /\ podAllowances \in [Accounts -> [Accounts -> Nat]]

\* Pod i is in plot id of account a.
Covers(a, id, i) == id <= i /\ i < id + plots[a][id]

PodsOf(a) == {i \in Index : \E id \in 0 .. i : Covers(a, id, i)}

\* Two plots, of one account or of two, never share a Pod.
PlotsDisjoint ==
    \A a, b \in Accounts : \A i, j \in Index :
        (plots[a][i] > 0 /\ plots[b][j] > 0 /\ (a # b \/ i # j))
            => (i + plots[a][i] <= j \/ j + plots[b][j] <= i)

\* No plot reaches past the end of the line.
PlotsInLine ==
    \A a \in Accounts, i \in Index : plots[a][i] > 0 => i + plots[a][i] <= pods

\* Every Pod that is not harvestable yet is in some plot.
LineCovered ==
    \A i \in Index : (harvestable <= i /\ i < pods) => \E a \in Accounts : i \in PodsOf(a)

\* Cutting, merging, listing, filling and harvesting plots in any order
\* leaves a partition of the Pod line: the two-slot writes of removePlot and
\* insertPlot never overlap another plot and never drop Pods in line.
PlotsPartitionLine ==
    /\ harvestable <= pods
    /\ PlotsDisjoint
    /\ PlotsInLine
    /\ LineCovered

\* The Pods in all plots are those sown and not harvested (totalPods()).
PodsConserved ==
    Sum([slot \in Accounts \X Index |-> plots[slot[1]][slot[2]]]) = pods - harvested

\* The diamond holds exactly the Moons it owes: internal balances, Moons in
\* orders, and one per harvestable Pod that has not been harvested.  No
\* sequence of sows, fills and refunds in any mode leaves it short.
MoonsSolvent ==
    bank.held = Sum(bank.internal) + Sum(podOrders) + harvestable - harvested

\* A listing is backed by a plot that still has the Pods listed, whoever cut,
\* moved or harvested what in between.
ListingBacked ==
    \A index \in Index : podListings[index] # NoListing =>
        \E a \in Accounts :
            plots[a][index] >= podListings[index].start + podListings[index].amount

\* A listing does not outlive its seller's plot: its hash does not name the
\* seller, so a plot that comes to another account must come without it.
ListingDiesWithOwnership ==
    [][\A index \in Index, a \in Accounts :
          (/\ podListings'[index] # NoListing
           /\ podListings'[index] = podListings[index]
           /\ plots[a][index] > 0) => plots'[a][index] > 0]_vars

ListedPods(a) ==
    {i \in Index : \E id \in Index :
        /\ podListings[id] # NoListing /\ plots[a][id] > 0
        /\ i - id - podListings[id].start \in 0 .. podListings[id].amount - 1}

MayLose(a, c, lost) ==
    \/ lost \subseteq ListedPods(a)
    \/ podAllowances[a][c] = UnlimitedAllowance
    \/ podAllowances[a][c] - podAllowances'[a][c] = Cardinality(lost)

ProtectsOwners ==
    plots' = plots \/ \A c, a \in Accounts :
        c = a \/ MayLose(a, c, PodsOf(a) \ PodsOf(a)') \/ ~Call(c)

\* By a call of another account c, account a loses no Pods but those it has
\* listed or an amount that comes off the allowance it gave c.
NoUnauthorisedLoss == [][ProtectsOwners]_vars

Wealth(a) == bank.wallet[a] + bank.internal[a]

PaidFor(seller, index) ==
    LET listing == podListings[index]
        from    == index + listing.start
        sold    == PodsOf(seller) \ PodsOf(seller)'
    IN  (sold # {} /\ PlaceExists(listing.pricing, from)) =>
           Cardinality(sold) * PriceAt(listing.pricing, from - harvestable)
              <= (Wealth(seller)' - Wealth(seller) + 1) * PriceUnit

Fills(seller, index) ==
    \E c \in Accounts, moonAmount \in MoonAmounts, mode \in FromModes :
        FillPodListing(c, seller, index, moonAmount, mode)

PaysSeller ==
    plots' = plots \/ \A seller \in Accounts, index \in Index :
        podListings[index] = NoListing \/ PaidFor(seller, index) \/ ~Fills(seller, index)

\* The seller of a filled listing gets at least the listed price for the
\* Pods that leave, but for one unit of Moon of rounding, whatever mode the
\* buyer pays in.
SellerPaid == [][PaysSeller]_vars

GoodBuy(id, gained) ==
    /\ \A i \in gained : i - harvestable < id.maxPlace
    /\ (podOrders[id] - podOrders'[id]) * PriceUnit
          <= Sum([i \in gained |-> PriceAt(id.pricing, i - harvestable)])

Protected(a) ==
    /\ Wealth(a)' >= Wealth(a)
    /\ \A id \in OrderIds : (id.account = a /\ podOrders'[id] < podOrders[id])
                               => GoodBuy(id, PodsOf(a)' \ PodsOf(a))

ProtectsBuyers == \A c, a \in Accounts : c = a \/ Protected(a) \/ ~Call(c)

\* What a call of another account takes out of an order of a buys Pods for a
\* that are within the order's place in line, at no more than its price; and
\* no such call takes from a's balances.
BuyerProtected == [][ProtectsBuyers]_vars

\* The Field and the Marketplace implement the Pod line: the holder of a Pod
\* is the account with the plot that covers it.
Holder ==
    [i \in Index |->
        LET holders == {a \in Accounts : \E id \in 0 .. i : i < id + plots[a][id]}
        IN  IF holders = {} THEN Nobody ELSE CHOOSE a \in holders : TRUE]

Line == INSTANCE PodLine WITH length <- pods, front <- harvestable, holder <- Holder

RefinesPodLine == Line!LineSpec
===============================================================================
