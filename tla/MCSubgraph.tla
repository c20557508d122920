------------------------------- MODULE MCSubgraph -------------------------------
(***************************************************************************)
(* Instances of FieldFollowers for TLC.                                    *)
(***************************************************************************)
EXTENDS FieldFollowers, TLC

Symmetry == Permutations(Accounts)

Fixed(p)   == [kind |-> "Fixed", price |-> p]
Dynamic(f) == [kind |-> "Dynamic", price |-> f]

\* A price that falls with the place in line.
Falling == [i \in Index |-> IF i < 2 THEN 3 - i ELSE 1]

MCPriceFunctions == {Falling}

FixedTwo       == {Fixed(2)}
FixedOne       == {Fixed(1)}

\* What a behaviour is about.  "plots": plots of up to three Pods are cut,
\* sent and harvested.  "transfers": plots in a line of three are listed and
\* transferred.  "sales": listed parts of a plot of three Pods that another
\* plot follows are bought.  "orders": plots in a line of three are sold to
\* orders, listed or not.
CONSTANT Parts
VARIABLE part

MCInit == FieldFollowersInit /\ part \in Parts

LineOf(length) ==
    CASE part = "plots" -> TRUE
      [] part = "sales" -> length \in {0, 3, 4}
      [] OTHER          -> length \in {0, 2, 3}

MCNext ==
    /\ part' = part
    /\ \/ SunriseCall(FollowField)
       \/ \E c \in Accounts :
            \/ SowCall(c, FollowField)
            \/ part # "sales" /\ HarvestCall(c, FollowField)
            \/ part \in {"plots", "transfers"} /\ TransferPodsCall(c, FollowField)
            \/ part # "plots" /\ (ListCall(c, FollowField) \/ DelistCall(c, FollowField))
            \/ part = "sales" /\ FillListingCall(c, FollowField)
            \/ part = "orders" /\ OrderEvents(c, FollowField)
    /\ LineOf(pods')
    /\ part \in {"transfers", "orders"} \/ pods' = MaxPods => yield' = 1

MCSpec == MCInit /\ [][MCNext]_<<fieldFollowerVars, part>>

\* A state without the history that no handler decides by and no property is
\* about: the totals of the market, how an account's Pods are split, what
\* became of a listing that is over, and how much of an order was filled.
TotalOf(a) == fields.field[a].unharvestable + fields.field[a].harvestable

TotalsView(field) ==
    <<field.podIndex, field.unharvestable, field.harvestable, field.harvested, field.soil>>

ListingView(entity) ==
    IF entity.status = "ACTIVE"
    THEN <<entity.start, entity.remaining, entity.pricePerPod, entity.curve,
           entity.maxHarvestable, entity.minFill>>
    ELSE <<>>

OrderView(order) == <<order.status = "ACTIVE", order.moonAmount - order.moonFilled>>

View == <<vars, part, rebuilt, fields.plot, fields.plotIndexes, fields.harvestableIndex,
          TotalsView(fields.field[Diamond]), [a \in Accounts |-> TotalOf(a)],
          [key \in DOMAIN markets.listing |-> ListingView(markets.listing[key])],
          [id \in OrderIds |-> OrderView(markets.order[id])]>>
===============================================================================
