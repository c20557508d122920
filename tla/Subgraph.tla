-------------------------------- MODULE Subgraph --------------------------------
(***************************************************************************)
(* The diamond followed by the subgraph: each transaction's events go      *)
(* through the handlers in the order of their logs, and the entities of    *)
(* the Field and the Marketplace should then say what the chain says.      *)
(*                                                                         *)
(* The indexer reads the chain at the block it has reached, so a           *)
(* transaction and its handlers are one step.                              *)
(***************************************************************************)
EXTENDS MoonmageEvents

CONSTANTS
    Diamond,        \* the account of the protocol's own field entity
    InsideLast      \* whether transfers begin inside the last plot in line

VARIABLES
    fields,         \* the entities of the Field
    markets         \* the entities of the Marketplace

SF == INSTANCE SubgraphField
SM == INSTANCE SubgraphMarket

subgraphVars == <<vars, fields, markets>>

\* The handlers of a data source run event by event; those of the Field and
\* those of the Marketplace meet in the plot a listing is of.
IndexEvent(store, e) ==
    LET known == e.type = "PodListingCreated"
                     /\ store.fields.plot[e.index].owner # Nobody
    IN  [fields  |-> SF!HandleFieldEvent(store.fields, e),
         markets |-> SM!HandleMarketEvent(store.markets, e, known)]

Indexed(events) ==
    Seqs!FoldLeft(IndexEvent, [fields |-> fields, markets |-> markets], events)

\* A transfer that begins inside the last plot of the line.
BeginsInsideLast(e) ==
    /\ e.type = "PlotTransfer"
    /\ e.id \notin Seqs!Range(fields.plotIndexes)
    /\ \A i \in Seqs!Range(fields.plotIndexes) : i < e.id

Mirror(events) ==
    LET store == Indexed(events)
    IN  /\ InsideLast \/ \A k \in DOMAIN events : ~BeginsInsideLast(events[k])
        /\ fields' = store.fields
        /\ markets' = store.markets

(***************************************************************************)
(* The specification                                                       *)
(***************************************************************************)
SubgraphInit ==
    /\ Init
    /\ fields = [SF!EmptyField EXCEPT !.field[Diamond].soil = soil]
    /\ markets = SM!EmptyMarket

FieldEvents(c, Handle(_)) ==
    SowCall(c, Handle) \/ HarvestCall(c, Handle) \/ TransferPodsCall(c, Handle)

ListingEvents(c, Handle(_)) ==
    ListCall(c, Handle) \/ DelistCall(c, Handle) \/ FillListingCall(c, Handle)

OrderEvents(c, Handle(_)) ==
    OrderPodsCall(c, Handle) \/ CancelOrderCall(c, Handle) \/ FillOrderCall(c, Handle)

SubgraphNext ==
    \/ SunriseCall(Mirror)
    \/ \E c \in Accounts :
          FieldEvents(c, Mirror) \/ ListingEvents(c, Mirror) \/ OrderEvents(c, Mirror)

SubgraphSpec == SubgraphInit /\ [][SubgraphNext]_subgraphVars
(***************************************************************************)
(* Properties                                                              *)
(***************************************************************************)
UnharvestedPods(i) ==
    IF fields.plot[i].fullyHarvested THEN 0 ELSE fields.plot[i].pods

\* The plots of the subgraph that are not harvested are the plots of the
\* chain, with their owners, and the protocol's field lists where each
\* begins, once, whatever order plots are cut, sold and harvested in, as long
\* as no transfer begins inside the last plot of the line (InsideLast).
PlotsMirrored ==
    /\ \A a \in Accounts, i \in Index :
          plots[a][i] = IF fields.plot[i].owner = a THEN UnharvestedPods(i) ELSE 0
    /\ Seqs!Range(fields.plotIndexes) = {i \in Index : \E a \in Accounts : plots[a][i] > 0}
    /\ Seqs!IsInjective(fields.plotIndexes)

\* The protocol's totals are the chain's, and the Pods of an account are
\* those of its plots, whether or not they can be harvested.
FieldTotalsMirrored ==
    LET protocol == fields.field[Diamond]
    IN  /\ protocol.podIndex = pods
        /\ protocol.unharvestable = pods - harvestable
        /\ protocol.harvestable = harvestable - harvested
        /\ protocol.harvested = harvested
        /\ protocol.soil = soil
        /\ \A a \in Accounts :
              fields.field[a].unharvestable + fields.field[a].harvestable = Sum(plots[a])

\* A listing of the chain is an active listing of its plot's owner, with the
\* same part of the plot for sale on the same terms; and no other listing is
\* active.
ListingsMirrored ==
    \A a \in Accounts, i \in Index :
        LET entity  == markets.listing[<<a, i>>]
            listing == podListings[i]
            listed  == listing # NoListing /\ plots[a][i] > 0
        IN  /\ listed <=> entity.status = "ACTIVE" /\ entity.remaining > 0
            /\ listed => /\ entity.start = listing.start
                         /\ entity.remaining = listing.amount
                         /\ entity.minFill = listing.minFill
                         /\ entity.maxHarvestable = listing.maxHarvestable
                         /\ listing.pricing.kind = "Fixed" =>
                               entity.pricePerPod = listing.pricing.price

\* What the chain holds for an order is what its entity has left, and an
\* order that is not active holds nothing.
OrdersMirrored ==
    \A id \in OrderIds :
        LET order == markets.order[id]
        IN  podOrders[id] = IF order.status = "ACTIVE"
                            THEN order.moonAmount - order.moonFilled ELSE 0
===============================================================================
