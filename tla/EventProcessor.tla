---------------------------- MODULE EventProcessor ----------------------------
(***************************************************************************)
(* How the interface rebuilds what an account has from the account's       *)
(* events alone: lib/Moonmage/EventProcessor.ts.                           *)
(*                                                                         *)
(* A map of the program, which has a value for the keys that were set and  *)
(* not deleted, is a function whose domain is those keys.  Operations on   *)
(* an undefined value give NaN there, and NaN is less than nothing.        *)
(***************************************************************************)
EXTENDS Integers, Sequences

LOCAL INSTANCE Functions
LOCAL INSTANCE SequencesExt
LOCAL INSTANCE TLC

CONSTANT NaN

Put(map, key, value) == (key :> value) @@ map

Delete(map, key) == Restrict(map, DOMAIN map \ {key})

NoPlots == <<>>

(***************************************************************************)
(* The Field                                                               *)
(***************************************************************************)

\* The plots of a harvest are taken in ascending order, each with the Moons
\* that those before it leave; the rest of a plot that is harvested in part
\* is a new plot.
HarvestPlot(s, id) ==
    IF s.moons # NaN /\ id \in DOMAIN s.plots /\ s.moons < s.plots[id]
    THEN [s EXCEPT !.plots = Delete(Put(@, id + s.moons, @[id] - s.moons), id)]
    ELSE [plots |-> Delete(s.plots, id),
          moons |-> IF s.moons # NaN /\ id \in DOMAIN s.plots
                    THEN s.moons - s.plots[id] ELSE NaN]

\* The account sent a plot that it has, or the first Pods of one.
SendKnownPlot(plots, e) ==
    IF e.pods = plots[e.id] THEN Delete(plots, e.id)
    ELSE Delete(Put(plots, e.id + e.pods, plots[e.id] - e.pods), e.id)

\* A mutant of SplitPlot: what is behind the Pods sent is lost.
CutPlot(plots, i, e) == Put(plots, i, e.id - i)

\* The account sent Pods from inside plot i.
SplitPlot(plots, i, e) ==
    LET start == Put(plots, i, e.id - i)
        end   == i + plots[i]
    IN  IF e.id + e.pods = end THEN start
        ELSE Put(start, e.id + e.pods, end - (e.id + e.pods))

SendPlot(plots, e) ==
    LET around == {i \in DOMAIN plots : i <= e.id /\ i + plots[i] > e.id}
    IN  CASE e.id \in DOMAIN plots             -> SendKnownPlot(plots, e)
          [] e.id \notin DOMAIN plots /\ around # {} ->
                SplitPlot(plots, CHOOSE i \in around : TRUE, e)
          [] OTHER                             -> plots

IngestField(account, plots, e) ==
    CASE e.type = "Sow"     -> Put(plots, e.index, e.pods)
      [] e.type = "Harvest" ->
            FoldLeft(HarvestPlot, [plots |-> plots, moons |-> e.moons], e.plots).plots
      [] e.type = "PlotTransfer" ->
            IF e.to = account THEN Put(plots, e.id, e.pods) ELSE SendPlot(plots, e)

\* What the filters of the Field's updater return of some events.
FieldEventsOf(account, events) ==
    SelectSeq(events, LAMBDA e :
        \/ e.type \in {"Sow", "Harvest"} /\ e.account = account
        \/ e.type = "PlotTransfer" /\ account \in {e.from, e.to})

\* The plots after more of the account's events.
ProcessField(account, plots, events) ==
    FoldLeft(LAMBDA known, e : IngestField(account, known, e), plots, events)

\* The Pods of a plot that harvestableIndex has passed.
ReadyPart(plots, p, index) ==
    CASE p + plots[p] <= index               -> plots[p]
      [] p + plots[p] > index /\ p < index   -> index - p
      [] OTHER                               -> 0

\* parsePlots: the plots and parts of plots that are ready, and the others,
\* each part at its own index.
HarvestablePlots(plots, index) ==
    [p \in {q \in DOMAIN plots : q + plots[q] <= index \/ q < index} |->
        ReadyPart(plots, p, index)]

UnharvestablePlots(plots, index) ==
    LET rest == {q \in DOMAIN plots : q + plots[q] > index}
        At(q) == q + ReadyPart(plots, q, index)
    IN  [i \in {At(q) : q \in rest} |->
            LET q == CHOOSE q \in rest : At(q) = i
            IN  plots[q] - ReadyPart(plots, q, index)]

ParsePlots(plots, index) ==
    LET ready == HarvestablePlots(plots, index)
        rest  == UnharvestablePlots(plots, index)
    IN  [harvestablePlots |-> ready, plots |-> rest,
         harvestablePods  |-> SumFunction(ready),
         pods             |-> SumFunction(rest)]

(***************************************************************************)
(* The Silo.  BDVs are counted in 1 / BdvUnit, the last place to which the *)
(* program divides.  A throw ends the processing of all events for good.   *)
(***************************************************************************)

NoSilo(tokens) ==
    [deposits    |-> [token \in tokens |-> <<>>],
     withdrawals |-> [token \in tokens |-> <<>>],
     thrown      |-> FALSE]

UpsertDeposit(crates, season, amount, bdv) ==
    Put(crates, season,
        IF season \in DOMAIN crates
        THEN [amount |-> crates[season].amount + amount, bdv |-> crates[season].bdv + bdv]
        ELSE [amount |-> amount, bdv |-> bdv])

UpsertWithdrawal(crates, season, amount) ==
    Put(crates, season, amount + IF season \in DOMAIN crates THEN crates[season] ELSE 0)

\* The BDV that leaves with part of a crate is in proportion, not rounded to
\* Moons as the Silo's is.
RemainingCrate(crate, amount) ==
    [amount |-> crate.amount - amount,
     bdv    |-> crate.bdv - (crate.bdv * amount) \div crate.amount]

\* A mutant of RemainingCrates: a crate of which nothing is left stays.
RemainingAndEmptyCrates(crates, removed) ==
    [s \in DOMAIN crates |->
        IF s \in DOMAIN removed THEN RemainingCrate(crates[s], removed[s]) ELSE crates[s]]

RemainingCrates(crates, removed) ==
    [s \in {t \in DOMAIN crates : t \notin DOMAIN removed \/ removed[t] # crates[t].amount} |->
        IF s \in DOMAIN removed THEN RemainingCrate(crates[s], removed[s]) ELSE crates[s]]

RemoveCrates(store, e) ==
    IF DOMAIN e.crates \subseteq DOMAIN store.deposits[e.token]
    THEN [store EXCEPT !.deposits[e.token] = RemainingCrates(@, e.crates)]
    ELSE [store EXCEPT !.thrown = TRUE]

\* Claims of nothing are ignored; a claim takes all of its Seasons.
RemoveWithdrawals(store, e) ==
    CASE e.amount = 0 -> store
      [] e.amount > 0 /\ e.seasons \subseteq DOMAIN store.withdrawals[e.token] ->
            [store EXCEPT !.withdrawals[e.token] = Restrict(@, DOMAIN @ \ e.seasons)]
      [] OTHER -> [store EXCEPT !.thrown = TRUE]

IngestSilo(store, e, unit) ==
    CASE store.thrown -> store
      [] ~store.thrown /\ e.type = "AddDeposit" ->
            [store EXCEPT !.deposits[e.token] =
                UpsertDeposit(@, e.season, e.amount, e.bdv * unit)]
      [] ~store.thrown /\ e.type = "RemoveDeposits" -> RemoveCrates(store, e)
      [] ~store.thrown /\ e.type = "AddWithdrawal"  ->
            [store EXCEPT !.withdrawals[e.token] = UpsertWithdrawal(@, e.season, e.amount)]
      [] ~store.thrown /\ e.type = "RemoveWithdrawals" -> RemoveWithdrawals(store, e)

SiloEventsOf(account, events) ==
    SelectSeq(events, LAMBDA e :
        /\ e.type \in {"AddDeposit", "RemoveDeposits", "AddWithdrawal", "RemoveWithdrawals"}
        /\ e.account = account)

ProcessSilo(account, store, events, unit) ==
    FoldLeft(LAMBDA known, e : IngestSilo(known, e, unit), store, SiloEventsOf(account, events))

\* parseWithdrawals: what can be claimed, and what is still on its way.
Claimable(crates, season) == SumFunctionOnSet(crates, {s \in DOMAIN crates : s <= season})
Withdrawn(crates, season) == SumFunctionOnSet(crates, {s \in DOMAIN crates : s > season})

\* What the Silo's updater shows as deposited of a token.
DepositedAmount(crates) == SumFunction([s \in DOMAIN crates |-> crates[s].amount])
===============================================================================
