----------------------------- MODULE CrateSelection -----------------------------
(***************************************************************************)
(* Which crates of an account's Deposits the interface withdraws or        *)
(* converts to make up an amount: lib/Moonmage/Silo.  A crate has a Season *)
(* (its key), an amount and a BDV; what the interface says that the        *)
(* account will lose by it is left out.                                    *)
(***************************************************************************)
EXTENDS Integers, Sequences

LOCAL INSTANCE SequencesExt
LOCAL INSTANCE TLC

\* sortCratesBySeason, descending and ascending.
YoungestFirst(crates) == SetToSortSeq(DOMAIN crates, >)
OldestFirst(crates)   == SetToSortSeq(DOMAIN crates, <)

\* sortCratesByBDVRatio: crates with the same ratio stay in the order of
\* their Seasons.
LowestRatioFirst(crates) ==
    SetToSortSeq(DOMAIN crates, LAMBDA s, t :
        LET low  == crates[s].bdv * crates[t].amount
            high == crates[t].bdv * crates[s].amount
        IN  low < high \/ (low = high /\ s < t))

\* A mutant of Taken: what was taken of other crates is forgotten.
TakenOfAll(selection, amount, crate) ==
    IF crate.amount <= amount THEN crate.amount ELSE amount - selection.total

Taken(selection, amount, crate) ==
    IF selection.total + crate.amount <= amount THEN crate.amount
    ELSE amount - selection.total

\* Crates are taken whole, in the order given, but for the last.
SelectCrates(order, crates, amount) ==
    LET Take(selection, s) ==
            LET taken == Taken(selection, amount, crates[s])
            IN  IF selection.done THEN selection
                ELSE [total |-> selection.total + taken,
                      done  |-> selection.total + taken = amount,
                      from  |-> (s :> taken) @@ selection.from]
    IN  FoldLeft(Take, [total |-> 0, done |-> FALSE, from |-> <<>>], order).from

CratesToWithdraw(crates, amount)     == SelectCrates(YoungestFirst(crates), crates, amount)
CratesToConvertToLP(crates, amount)  == SelectCrates(OldestFirst(crates), crates, amount)
CratesToConvertToMoon(crates, amount) == SelectCrates(LowestRatioFirst(crates), crates, amount)
===============================================================================
