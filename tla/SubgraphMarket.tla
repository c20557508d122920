----------------------------- MODULE SubgraphMarket -----------------------------
(***************************************************************************)
(* The subgraph's mirror of the Pod Marketplace (MarketplaceHandler.ts,    *)
(* the handlers of version 2): what becomes of a listing and of an order   *)
(* as their events arrive, and the totals of the market.  A handler is an  *)
(* operator from the store of entities and an event to the store.          *)
(*                                                                         *)
(* The market's arrays listingIndexes and orders are read through getters  *)
(* that return copies, and no handler assigns one back: they stay empty,   *)
(* so no listing ever expires, and they are left out.  So are the copies   *)
(* kept for history, the raw events, the fills and the snapshots.          *)
(***************************************************************************)
EXTENDS Integers

CONSTANTS
    Accounts,
    MaxPods,
    OrderIds,
    PriceUnit      \* the 1000000 that an order's price is divided by

Index == 0 .. MaxPods

\* loadPodListing gives an entity it makes the status ACTIVE.  A price
\* function is kept as curve; NoCurve is its null.
NoCurve == <<>>

NewListing == [status |-> "ACTIVE", start |-> 0, amount |-> 0,
               originalAmount |-> 0, remaining |-> 0, filledAmount |-> 0, filled |-> 0,
               cancelled |-> 0, pricePerPod |-> 0, curve |-> NoCurve,
               maxHarvestable |-> 0, minFill |-> 0]

NewOrder == [status |-> "", podAmount |-> 0, moonAmount |-> 0,
             podFilled |-> 0, moonFilled |-> 0]

NewMarket == [listed |-> 0, available |-> 0, cancelledListed |-> 0, filledListed |-> 0,
              ordered |-> 0, cancelledOrdered |-> 0, filledOrdered |-> 0,
              podVolume |-> 0, moonVolume |-> 0]

EmptyMarket == [listing |-> [key \in Accounts \X Index |-> NewListing],
                order   |-> [id \in OrderIds |-> NewOrder],
                market  |-> NewMarket]

(***************************************************************************)
(* Totals of the market                                                    *)
(***************************************************************************)
UpdateMarketListingBalances(s, new, cancelled, filled, moons) ==
    [s EXCEPT !.market.listed          = @ + new,
              !.market.available       = @ + new - cancelled - filled,
              !.market.cancelledListed = @ + cancelled,
              !.market.filledListed    = @ + filled,
              !.market.podVolume       = @ + filled,
              !.market.moonVolume      = @ + moons]

\* The Moons of a new and of a cancelled order are passed and not used.
UpdateMarketOrderBalances(s, new, cancelled, filled, moons) ==
    [s EXCEPT !.market.ordered          = @ + new,
              !.market.filledOrdered    = @ + filled,
              !.market.podVolume        = @ + filled,
              !.market.moonVolume       = @ + moons,
              !.market.cancelledOrdered = @ + cancelled]

(***************************************************************************)
(* Listings                                                                *)
(***************************************************************************)

\* A listing entity that was listed before starts over.  hasPlot is whether
\* the plot is known: otherwise the event is dropped.
HandlePodListingCreated(s, e, hasPlot) ==
    LET terms   == e.listing
        fixed   == terms.pricing.kind = "Fixed"
        listing == [NewListing EXCEPT
            !.start          = terms.start,
            !.amount         = terms.amount,
            !.originalAmount = terms.amount,
            !.remaining      = terms.amount,
            !.pricePerPod    = IF fixed THEN terms.pricing.price ELSE 0,
            !.curve          = IF fixed THEN NoCurve ELSE terms.pricing.price,
            !.maxHarvestable = terms.maxHarvestable,
            !.minFill        = terms.minFill]
    IN  IF ~hasPlot THEN s
        ELSE UpdateMarketListingBalances(
                 [s EXCEPT !.listing[<<e.account, e.index>>] = listing],
                 terms.amount, 0, 0, 0)

\* What remains is passed to the totals as the Moons of a fill.
HandlePodListingCancelled(s, e) ==
    LET key       == <<e.account, e.index>>
        remaining == s.listing[key].remaining
    IN  [UpdateMarketListingBalances(s, 0, 0, 0, remaining) EXCEPT
            !.listing[key].status    = "CANCELLED",
            !.listing[key].cancelled = remaining,
            !.listing[key].remaining = 0]

\* A mutant of RemainingListing: the rest starts where its listing did.
RemainingListingAtStart(listing, rest) ==
    [rest EXCEPT !.start = listing.start, !.amount = listing.remaining,
                 !.originalAmount = listing.originalAmount, !.filled = listing.filled,
                 !.remaining = listing.remaining, !.pricePerPod = listing.pricePerPod,
                 !.maxHarvestable = listing.maxHarvestable, !.minFill = listing.minFill]

\* The listing of what a partial fill leaves.  It keeps the status and the
\* price function that its entity has.
RemainingListing(listing, rest) ==
    [rest EXCEPT !.start = 0, !.amount = listing.remaining,
                 !.originalAmount = listing.originalAmount, !.filled = listing.filled,
                 !.remaining = listing.remaining, !.pricePerPod = listing.pricePerPod,
                 !.maxHarvestable = listing.maxHarvestable, !.minFill = listing.minFill]

HandlePodListingFilled(s, e) ==
    LET key     == <<e.from, e.index>>
        listing == [s.listing[key] EXCEPT !.filledAmount = e.amount,
                                          !.remaining = @ - e.amount,
                                          !.filled = @ + e.amount]
        full    == listing.remaining = 0
        restKey == <<e.from, e.index + e.amount + listing.start>>
        filled  == [UpdateMarketListingBalances(s, 0, 0, e.amount, e.moons) EXCEPT
                       !.listing[key] = [listing EXCEPT
                           !.status = IF full THEN "FILLED" ELSE "FILLED_PARTIAL"]]
    IN  IF full THEN filled
        ELSE [filled EXCEPT
                 !.listing[restKey] = RemainingListing(listing, s.listing[restKey])]

(***************************************************************************)
(* Orders                                                                  *)
(***************************************************************************)

\* The Pods of an order are known when its price is fixed.  Those filled of
\* an order before it under the same id stay.
HandlePodOrderCreated(s, e) ==
    UpdateMarketOrderBalances(
        [s EXCEPT !.order[e.id].status     = "ACTIVE",
                  !.order[e.id].podAmount  =
                      IF e.id.pricing.kind = "Fixed"
                      THEN (e.moons * PriceUnit) \div e.id.pricing.price ELSE @,
                  !.order[e.id].moonAmount = e.moons,
                  !.order[e.id].moonFilled = 0],
        0, 0, 0, 0)

\* A mutant of HandlePodOrderFilled: a fill is the only one of its order.
HandlePodOrderFilledOnce(s, e) ==
    UpdateMarketOrderBalances(
        [s EXCEPT !.order[e.id].moonFilled = e.moons,
                  !.order[e.id].podFilled  = e.amount,
                  !.order[e.id].status     =
                      IF s.order[e.id].moonAmount = e.moons THEN "FILLED" ELSE "ACTIVE"],
        0, 0, e.amount, e.moons)

HandlePodOrderFilled(s, e) ==
    LET moonFilled == s.order[e.id].moonFilled + e.moons
    IN  UpdateMarketOrderBalances(
            [s EXCEPT !.order[e.id].moonFilled = moonFilled,
                      !.order[e.id].podFilled  = @ + e.amount,
                      !.order[e.id].status     =
                          IF s.order[e.id].moonAmount = moonFilled THEN "FILLED" ELSE "ACTIVE"],
            0, 0, e.amount, e.moons)

HandlePodOrderCancelled(s, e) ==
    LET order == s.order[e.id]
    IN  IF order.status = "" THEN s
        ELSE UpdateMarketOrderBalances(
                 [s EXCEPT !.order[e.id].status =
                      IF order.podFilled = 0 THEN "CANCELLED" ELSE "CANCELLED_PARTIAL"],
                 0, order.podAmount - order.podFilled, 0, 0)

HandleMarketEvent(s, e, hasPlot) ==
    CASE e.type = "PodListingCreated"   -> HandlePodListingCreated(s, e, hasPlot)
      [] e.type = "PodListingCancelled" -> HandlePodListingCancelled(s, e)
      [] e.type = "PodListingFilled"    -> HandlePodListingFilled(s, e)
      [] e.type = "PodOrderCreated"     -> HandlePodOrderCreated(s, e)
      [] e.type = "PodOrderFilled"      -> HandlePodOrderFilled(s, e)
      [] e.type = "PodOrderCancelled"   -> HandlePodOrderCancelled(s, e)
      [] OTHER                          -> s
===============================================================================
