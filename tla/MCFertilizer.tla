----------------------------- MODULE MCFertilizer -----------------------------
(***************************************************************************)
(* Instances of Fertilizer for TLC.                                        *)
(***************************************************************************)
EXTENDS Fertilizer, TLC

Symmetry == Permutations(Accounts)

ForDebt == [token \in Unripe |-> IF token = "LP" THEN 3 ELSE 0]
ForChop == [token \in Unripe |-> IF token = "LP" THEN 3 ELSE 4]

\* Bounds the instance with two holders: chops while one holds Fertilizer.
OneHolderOrNoChop ==
    \/ unripe.supply = UnripeSupply
    \/ \E a \in Accounts : \A id \in Ids, b \in Accounts \ {a} : balances[id][b].amount = 0
===============================================================================
