----------------------------- MODULE MCMarketplace -----------------------------
(***************************************************************************)
(* Instances of Marketplace for TLC, about two ways in which Pods change   *)
(* hands, in turn.  "listings": Pods are listed, bought, and transferred   *)
(* by approval.  "orders": Moons in escrow buy Pods that may be listed.    *)
(* Both sow, harvest, transfer and see sunrises.                           *)
(***************************************************************************)
EXTENDS Marketplace, TLC

Symmetry == Permutations(Accounts)

Fixed(p)   == [kind |-> "Fixed", price |-> p]
Dynamic(f) == [kind |-> "Dynamic", price |-> f]

\* A price that falls with the place in line, and is nothing at its end.
Falling == [i \in Index |-> Lesser(3, MaxPods - i)]

MCPriceFunctions == {Falling}

FixedOrFalling == {Fixed(1), Dynamic(Falling)}

CONSTANT Parts
VARIABLE part

MCInit == Init /\ part \in Parts

\* Bounds the listings: none while Pods are approved, and one approval at a
\* time, of another account.
ListingsOrApproval ==
    \/ podAllowances = [a \in Accounts |-> [b \in Accounts |-> 0]]
    \/ /\ \A index \in Index : podListings[index] = NoListing
       /\ \A a \in Accounts : podAllowances[a][a] = 0
       /\ Cardinality({p \in Accounts \X Accounts : podAllowances[p[1]][p[2]] > 0}) = 1

\* Bounds the orders: one listing at a time at one price, no approvals, and
\* all Moons of an account in an order.
OrderBounds ==
    /\ Cardinality({index \in Index : podListings[index] # NoListing}) <= 1
    /\ \A index \in Index :
          podListings[index] # NoListing => podListings[index].pricing = Fixed(1)
    /\ podAllowances = [a \in Accounts |-> [b \in Accounts |-> 0]]

OrderCalls(c) ==
    \/ \E id \in OrderIds, mode \in FromModes : CreatePodOrder(c, id, InitialMoons, mode)
    \/ \E id \in OrderIds, mode \in ToModes : CancelPodOrder(c, id, mode)
    \/ \E id \in OrderIds, index \in PlotsOf(c), start \in Index, amount \in FillAmounts,
          mode \in ToModes :
          FillPodOrder(c, id, index, start, amount, mode)

MCNext ==
    /\ part' = part
    /\ \/ Season
       \/ \E c \in Accounts :
             \/ FieldCall(c) \/ TransferCall(c) \/ ListingCall(c)
             \/ part = "orders" /\ OrderCalls(c)
    /\ pods' # 1   \* a line that begins with two Pods
    /\ part = "listings" => ListingsOrApproval'
    /\ part = "orders" => OrderBounds'

MCSpec == MCInit /\ [][MCNext]_<<vars, part>>

\* BuyerProtected, for the fills of orders.
OrdersProtectBuyer == [][part = "orders" => ProtectsBuyers]_vars
===============================================================================
