----------------------------- MODULE SubgraphField ------------------------------
(***************************************************************************)
(* The subgraph's mirror of the Field (FieldHandler.ts and the part of     *)
(* SeasonHandler.ts that concerns it): handlers that turn the events of    *)
(* the diamond into entities.  A handler is an operator from the store of  *)
(* entities and an event to the store.                                     *)
(*                                                                         *)
(* A store s has the plot entities by index, the field entities by         *)
(* account (the diamond's is the protocol's), the plotIndexes of the       *)
(* protocol's field and the harvestableIndex of the latest season entity.  *)
(* Hourly and daily snapshots copy what the field has, and are left out,   *)
(* as are temperature, times and hashes.  An array a getter returns is a   *)
(* copy: the push in loadPlot changes no entity.                           *)
(***************************************************************************)
EXTENDS Integers, SequencesExt

CONSTANTS
    Accounts, Diamond,
    MaxPods,
    Nobody      \* ADDRESS_ZERO, whom a plot belongs to that was only loaded

Index == 0 .. MaxPods

NewPlot == [owner |-> Nobody, pods |-> 0, harvestable |-> 0, harvested |-> 0,
            fullyHarvested |-> FALSE]

NewField == [soil |-> 0, sownMoons |-> 0, unharvestable |-> 0, harvestable |-> 0,
             harvested |-> 0, podIndex |-> 0, sows |-> 0, sowers |-> 0]

EmptyField == [plot |-> [i \in Index |-> NewPlot],
               field |-> [a \in Accounts \union {Diamond} |-> NewField],
               plotIndexes |-> <<>>,
               harvestableIndex |-> 0]

(***************************************************************************)
(* updateFieldTotals                                                       *)
(***************************************************************************)
NoChange == [soil |-> 0, moons |-> 0, sown |-> 0, transferred |-> 0,
             harvestable |-> 0, harvested |-> 0]

UpdateFieldTotals(s, account, d) ==
    [s EXCEPT !.field[account].soil          = @ + d.soil - d.moons,
              !.field[account].sownMoons     = @ + d.moons,
              !.field[account].unharvestable = @ + d.sown - d.harvestable + d.transferred,
              !.field[account].harvestable   = @ + d.harvestable - d.harvested,
              !.field[account].harvested     = @ + d.harvested,
              !.field[account].podIndex      = @ + d.sown]

\* The protocol's totals and those of an account.
UpdateBothTotals(s, account, d) ==
    UpdateFieldTotals(UpdateFieldTotals(s, Diamond, d), account, d)

(***************************************************************************)
(* updateHarvestablePlots: every listed plot that starts at or before the  *)
(* harvestable index, except those that are harvestable already.           *)
(***************************************************************************)
SortedIndexes(s) == SortSeq(s.plotIndexes, <)

ReadyPods(s, i) ==
    IF s.harvestableIndex - i >= s.plot[i].pods THEN s.plot[i].pods
    ELSE s.harvestableIndex - i

UpdateHarvestablePlot(s, i) ==
    LET d == [NoChange EXCEPT !.harvestable = ReadyPods(s, i) - s.plot[i].harvestable]
    IN  IF s.plot[i].harvestable = s.plot[i].pods THEN s
        ELSE UpdateBothTotals([s EXCEPT !.plot[i].harvestable = ReadyPods(s, i)],
                              s.plot[i].owner, d)

UpdateHarvestablePlots(s) ==
    FoldLeft(UpdateHarvestablePlot, s,
             SelectSeq(SortedIndexes(s), LAMBDA i : i <= s.harvestableIndex))

(***************************************************************************)
(* handleSow                                                               *)
(***************************************************************************)

\* incrementSows: the first sow of an account makes it a sower.
IncrementSows(s, account) ==
    [s EXCEPT !.field[account].sows = @ + 1,
              !.field[Diamond].sowers =
                  IF account # Diamond /\ s.field[account].sows = 0 THEN @ + 1 ELSE @]

HandleSow(s, e) ==
    LET totals == UpdateBothTotals(s, e.account,
                      [NoChange EXCEPT !.moons = e.moons, !.sown = e.pods])
        sown   == [totals EXCEPT !.plotIndexes = Append(@, e.index),
                                 !.plot[e.index].owner = e.account,
                                 !.plot[e.index].pods = e.pods]
    IN  IncrementSows(IncrementSows(sown, Diamond), e.account)

(***************************************************************************)
(* handleHarvest                                                           *)
(***************************************************************************)

\* The plot that begins where a partial harvest ends.
HarvestRest(s, i, rest) ==
    [s EXCEPT !.plot[rest].owner = s.plot[i].owner,
              !.plot[rest].pods  = s.plot[i].pods - (rest - i)]

HarvestPlot(s, account, i) ==
    LET ready  == ReadyPods(s, i)
        totals == UpdateBothTotals(s, account, [NoChange EXCEPT !.harvested = ready])
        rested == IF ready = s.plot[i].pods THEN totals
                  ELSE HarvestRest(totals, i, i + ready)
    IN  [rested EXCEPT !.plot[i].harvested = ready,
                       !.plot[i].pods = ready,
                       !.plot[i].fullyHarvested = TRUE]

\* remainingIndex: that of the last plot that was harvested in part, or 0.
RemainingIndex(s, ids) ==
    LET partly == SelectSeq(ids, LAMBDA i : ReadyPods(s, i) < s.plot[i].pods)
    IN  IF partly = <<>> THEN 0 ELSE s.harvestableIndex

\* indexOf, splice, sort; an index that is not found takes the last one out.
DropIndex(indexes, i) ==
    LET places == {k \in DOMAIN indexes : indexes[k] = i}
    IN  IF indexes = <<>> THEN indexes
        ELSE SortSeq(RemoveAt(indexes,
                 IF places = {} THEN Len(indexes)
                 ELSE CHOOSE k \in places : \A l \in places : k <= l), <)

HandleHarvest(s, e) ==
    LET harvested == FoldLeft(LAMBDA t, i : HarvestPlot(t, e.account, i), s, e.plots)
        remaining == RemainingIndex(s, e.plots)
        kept      == FoldLeft(DropIndex, s.plotIndexes, e.plots)
    IN  [harvested EXCEPT !.plotIndexes =
            IF remaining = 0 THEN kept ELSE Append(kept, remaining)]

(***************************************************************************)
(* handlePlotTransfer                                                      *)
(***************************************************************************)

\* The listed plot an index is in: the plot at the index, or the one before
\* it that has a listed plot after it.  Otherwise the search ends with 0.
SourceIndex(s, id) ==
    LET sorted == SortedIndexes(s)
        inside == {k \in 2 .. Len(sorted) : sorted[k - 1] < id /\ id < sorted[k]}
    IN  IF id \in Range(sorted) THEN id
        ELSE IF inside = {} THEN 0
        ELSE sorted[(CHOOSE k \in inside : TRUE) - 1]

Relist(s, indexes) == [s EXCEPT !.plotIndexes = SortSeq(SortedIndexes(s) \o indexes, <)]

\* Sending a full plot.
SendWhole(s, src, e) == Relist([s EXCEPT !.plot[src].owner = e.to], <<>>)

\* Start value of zero: the plot goes, and its rest is a new plot.
SendStart(s, src, e) ==
    LET rest == src + e.pods
    IN  Relist([s EXCEPT !.plot[src].owner = e.to, !.plot[src].pods = e.pods,
                         !.plot[rest].owner = e.from,
                         !.plot[rest].pods = s.plot[src].pods - e.pods], <<rest>>)

\* Non-zero start value, to the end of the plot.
SendEnd(s, src, e) ==
    Relist([s EXCEPT !.plot[src].pods = @ - e.pods,
                     !.plot[e.id].owner = e.to, !.plot[e.id].pods = e.pods], <<e.id>>)

\* A mutant of SendMiddle: the rest goes to the recipient.
SendMiddleAndRest(s, src, e) ==
    LET rest == e.id + e.pods
    IN  Relist([s EXCEPT !.plot[src].pods = e.id - src,
                         !.plot[e.id].owner = e.to, !.plot[e.id].pods = e.pods,
                         !.plot[rest].owner = e.to,
                         !.plot[rest].pods = src + s.plot[src].pods - rest],
               <<e.id, rest>>)

\* Non-zero start value, not to the end: the plot is split twice.
SendMiddle(s, src, e) ==
    LET rest == e.id + e.pods
    IN  Relist([s EXCEPT !.plot[src].pods = e.id - src,
                         !.plot[e.id].owner = e.to, !.plot[e.id].pods = e.pods,
                         !.plot[rest].owner = e.from,
                         !.plot[rest].pods = src + s.plot[src].pods - rest],
               <<e.id, rest>>)

MovePlot(s, src, e) ==
    IF s.plot[src].pods = e.pods THEN SendWhole(s, src, e)
    ELSE IF src = e.id THEN SendStart(s, src, e)
    ELSE IF src + s.plot[src].pods = e.id + e.pods THEN SendEnd(s, src, e)
    ELSE SendMiddle(s, src, e)

HandlePlotTransfer(s, e) ==
    LET sent  == UpdateFieldTotals(s, e.from, [NoChange EXCEPT !.transferred = -e.pods])
        taken == UpdateFieldTotals(sent, e.to, [NoChange EXCEPT !.transferred = e.pods])
    IN  UpdateHarvestablePlots(MovePlot(taken, SourceIndex(s, e.id), e))

(***************************************************************************)
(* Season events: since the Replant the Soil is set at each sunrise, and   *)
(* the last event of a sunrise is when harvestableIndex() is read.         *)
(***************************************************************************)
HandleSoil(s, e) == [s EXCEPT !.field[Diamond].soil = e.soil]

\* A mutant of HandleIncentive: the plots are updated with the index of the
\* sunrise before.
HandleIncentiveLate(s, e) ==
    [UpdateHarvestablePlots(s) EXCEPT !.harvestableIndex = e.harvestableIndex]

HandleIncentive(s, e) ==
    UpdateHarvestablePlots([s EXCEPT !.harvestableIndex = e.harvestableIndex])

HandleFieldEvent(s, e) ==
    CASE e.type = "Sow"             -> HandleSow(s, e)
      [] e.type = "Harvest"         -> HandleHarvest(s, e)
      [] e.type = "PlotTransfer"    -> HandlePlotTransfer(s, e)
      [] e.type = "Soil"            -> HandleSoil(s, e)
      [] e.type = "Incentivization" -> HandleIncentive(s, e)
      [] OTHER                      -> s
===============================================================================
