---------------------------- MODULE FertilizerDebt ----------------------------
(***************************************************************************)
(* What the Fertilizer promises, without a queue or a loop: each id is a   *)
(* number of equal claims that end when every claim has been paid id Moons *)
(* since the beginning.  Claims are added ahead of bpf, and a payment out  *)
(* of at most some budget is the same for all claims that have not ended,  *)
(* and as large as the budget allows.                                      *)
(***************************************************************************)
EXTENDS Sums

CONSTANTS MaxId, Mints, FertilizerDenominator

DebtIds == 0 .. MaxId

VARIABLES bpf, supply, paid, owed

debtVars == <<bpf, supply, paid, owed>>

\* What it costs to pay every claim up to b.
Cost(b) ==
    Sum([id \in {i \in DebtIds : i > bpf} |-> supply[id] * (Lesser(id, b) - bpf)])

DebtInit == bpf = 0 /\ supply = [id \in DebtIds |-> 0] /\ paid = 0 /\ owed = 0

AddDebt(id, amount) ==
    /\ id > bpf
    /\ supply' = [supply EXCEPT ![id] = @ + amount]
    /\ owed' = owed + amount * (id - bpf)
    /\ UNCHANGED <<bpf, paid>>

\* b is as far as the budget reaches, and no further than the last end.
Reaches(b, budget) ==
    /\ bpf <= b /\ Cost(b) <= budget
    /\ \A c \in DebtIds : c > b => (Cost(c) > budget \/ Cost(c) = Cost(b))
    /\ \A c \in bpf .. b : (c # b) => Cost(c) < Cost(b)

PayDebt(budget) ==
    \E b \in DebtIds :
        /\ Reaches(b, budget)
        /\ bpf' = b
        /\ paid' = paid + Cost(b)
        /\ UNCHANGED <<supply, owed>>

DebtNext ==
    \/ \E id \in DebtIds : AddDebt(id, supply'[id] - supply[id])
    \/ \E mint \in Mints : PayDebt(mint \div FertilizerDenominator)

DebtSpec == DebtInit /\ [][DebtNext]_debtVars
===============================================================================
