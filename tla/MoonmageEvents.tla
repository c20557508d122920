----------------------------- MODULE MoonmageEvents -----------------------------
(***************************************************************************)
(* The events the Field and the Marketplace emit, in the order of their    *)
(* logs.  Whatever follows the diamond from outside (the subgraph, the     *)
(* event caches of the interface) sees these and nothing else.             *)
(*                                                                         *)
(* Each call is a transaction of the chain, and Handle is what the module  *)
(* that composes with it does with the transaction's events.  Moons move   *)
(* between wallets only: what these events say does not depend on modes.   *)
(***************************************************************************)
EXTENDS Marketplace, Sequences

Seqs == INSTANCE SequencesExt

Wallet == "EXTERNAL"

Sown(c, moons) ==
    [type |-> "Sow", account |-> c, index |-> pods, moons |-> moons,
     pods |-> MoonsToPods(moons, yield)]

Harvested(c, ids, ready) ==
    [type |-> "Harvest", account |-> c, plots |-> ids, moons |-> ready]

PlotTransferred(from, to, id, amount) ==
    [type |-> "PlotTransfer", from |-> from, to |-> to, id |-> id, pods |-> amount]

ListingCreated(c, index, listing) ==
    [type |-> "PodListingCreated", account |-> c, index |-> index, listing |-> listing]

\* The event of _cancelPodListing, when there is a listing to cancel.
ListingCancelled(c, index) ==
    IF podListings[index] = NoListing THEN <<>>
    ELSE <<[type |-> "PodListingCancelled", account |-> c, index |-> index]>>

ListingFilled(from, to, index, amount, moons) ==
    [type |-> "PodListingFilled", from |-> from, to |-> to, index |-> index,
     start |-> podListings[index].start, amount |-> amount, moons |-> moons]

OrderCreated(id, moons) ==
    [type |-> "PodOrderCreated", id |-> id, moons |-> moons]

OrderCancelled(id) == [type |-> "PodOrderCancelled", id |-> id]

OrderFilled(id, amount, moons) ==
    [type |-> "PodOrderFilled", id |-> id, amount |-> amount, moons |-> moons]

\* A sunrise: the Season, the Soil of the new Season, and the payment of the
\* caller, after which the indexer reads harvestableIndex() of this block.
Sunrises(newSoil, newHarvestable) ==
    <<[type |-> "Sunrise"],
      [type |-> "Soil", soil |-> newSoil],
      [type |-> "Incentivization", harvestableIndex |-> harvestable + newHarvestable]>>

\* Each call of a facet with the events of its transaction.
SowCall(c, Handle(_)) ==
    \E amount \in SowAmounts :
        /\ SowWithMin(c, amount, amount, Wallet, 0)
        /\ UNCHANGED <<podOrders, podAllowances>>
        /\ Handle(<<Sown(c, SowAmount(amount))>>)

\* The plots of a harvest come in ascending order.
HarvestCall(c, Handle(_)) ==
    \E ids \in (SUBSET {i \in Index : plots[c][i] > 0}) \ {{}} :
        LET plotIds == Seqs!SetToSortSeq(ids, <)
        IN  /\ Harvest(c, ids, Wallet)
            /\ UNCHANGED <<podOrders, podAllowances>>
            /\ Handle(Seqs!FlattenSeq([k \in DOMAIN plotIds |-> ListingCancelled(c, plotIds[k])])
                      \o <<Harvested(c, plotIds, TotalHarvest(c, ids))>>)

TransferPodsCall(c, Handle(_)) ==
    \E recipient \in Accounts, id, start, end \in Index :
        /\ TransferPlot(c, c, recipient, id, start, end)
        /\ Handle(ListingCancelled(c, id)
                  \o <<PlotTransferred(c, recipient, id + start, end - start)>>)

ListCall(c, Handle(_)) ==
    \E index, start, amount \in Index, pricing \in ListingPricings,
       maxHarvestable \in MaxHarvestables, minFill \in MinFills :
        LET listing == [start |-> start, amount |-> amount, pricing |-> pricing,
                        maxHarvestable |-> maxHarvestable, minFill |-> minFill,
                        mode |-> Wallet]
        IN  /\ CreatePodListing(c, index, listing)
            /\ Handle(ListingCancelled(c, index) \o <<ListingCreated(c, index, listing)>>)

DelistCall(c, Handle(_)) ==
    \E index \in Index :
        /\ CancelPodListing(c, index)
        /\ Handle(<<[type |-> "PodListingCancelled", account |-> c, index |-> index]>>)

FillListingCall(c, Handle(_)) ==
    \E seller \in Accounts, index \in Index, moons \in MoonAmounts :
        LET listing == podListings[index]
            from    == index + listing.start
            amount  == PodsFromFill(moons, PriceAt(listing.pricing, from - harvestable),
                                    listing.amount)
        IN  /\ FillPodListing(c, seller, index, moons, Wallet)
            /\ Handle(<<ListingFilled(seller, c, index, amount, moons),
                        PlotTransferred(seller, c, from, amount)>>)

OrderPodsCall(c, Handle(_)) ==
    \E id \in OrderIds, moons \in MoonAmounts :
        /\ CreatePodOrder(c, id, moons, Wallet)
        /\ Handle((IF podOrders[id] > 0 THEN <<OrderCancelled(id)>> ELSE <<>>)
                  \o <<OrderCreated(id, moons)>>)

CancelOrderCall(c, Handle(_)) ==
    \E id \in OrderIds :
        /\ CancelPodOrder(c, id, Wallet)
        /\ Handle(<<OrderCancelled(id)>>)

FillOrderCall(c, Handle(_)) ==
    \E id \in OrderIds, index, start \in Index, amount \in FillAmounts :
        /\ FillPodOrder(c, id, index, start, amount, Wallet)
        /\ Handle(ListingCancelled(c, index)
                  \o <<PlotTransferred(c, id.account, index + start, amount),
                       OrderFilled(id, amount,
                                   OrderCost(id.pricing, index + start - harvestable, amount))>>)

SunriseCall(Handle(_)) ==
    \E newHarvestable \in Index, newSoil \in SoilAmounts, newYield \in Yields :
        /\ Sunrise(newHarvestable, newSoil, newYield)
        /\ UNCHANGED <<podOrders, podAllowances>>
        /\ Handle(Sunrises(newSoil, newHarvestable))
===============================================================================
