--------------------------------- MODULE Field ---------------------------------
(***************************************************************************)
(* The Field: Moons are burnt (sown) for Pods, Pods are numbered along the *)
(* Pod line in the order they are sown, the Sun makes the front of the     *)
(* line harvestable, and a harvestable Pod is exchanged for one Moon.      *)
(* FieldFacet.sol, LibDibbler.sol and what SeasonFacet does to the Field.  *)
(*                                                                         *)
(* podListings belongs to the Marketplace; it is declared here because a   *)
(* harvest deletes the listing of the plot it takes.                       *)
(***************************************************************************)
EXTENDS LibTransfer

CONSTANTS
    MaxPods,      \* the largest Pod index: where SafeMath's add reverts
    MaxUint32,    \* type(uint32).max: "not all Soil sown yet"
    SoldOutSoil,  \* saveSowTime: at most this much Soil counts as none (1e6)
    SowAmounts,   \* amounts and minimum amounts given to sowWithMin
    SoilAmounts,  \* Soil the Sun may set
    Yields,       \* Temperatures, in percent, the Weather may reach
    InitialMoons, \* what each account has in its wallet at first
    NoListing     \* podListings[index] == 0

ASSUME FieldAssumption ==
    /\ IsFiniteSet(Accounts)
    /\ MaxPods \in Nat /\ MaxUint32 \in Nat /\ SoldOutSoil \in Nat
    /\ SowAmounts \subseteq Nat
    /\ SoilAmounts \subseteq Nat
    /\ Yields \subseteq Nat /\ 1 \in Yields
    /\ InitialMoons \in Nat

Index == 0 .. MaxPods

VARIABLES
    soil,         \* s.f.soil
    pods,         \* s.f.pods: the index of the next Pod
    harvestable,  \* s.f.harvestable
    harvested,    \* s.f.harvested
    plots,        \* s.a[account].field.plots
    yield,        \* s.w.yield
    nextSowTime,  \* s.w.nextSowTime
    podListings,  \* s.podListings
    bank          \* balances of the Moon token

weatherVars == <<soil, yield, nextSowTime>>
lineVars    == <<pods, harvestable, harvested, plots>>
fieldVars   == <<weatherVars, lineVars, podListings, bank>>

(***************************************************************************)
(* Sow                                                                     *)
(***************************************************************************)
MoonsToPods(moons, weather) == moons + (moons * weather) \div 100

\* saveSowTime: the first sow of the Season that leaves no Soil records when.
SaveSowTime(soilLeft, elapsed) ==
    nextSowTime' = IF soilLeft > SoldOutSoil \/ nextSowTime < MaxUint32
                   THEN nextSowTime ELSE elapsed

\* sowNoSoil: a new plot at the end of the line.
SowNoSoil(a, moons, soilLeft, elapsed) ==
    LET newPods == MoonsToPods(moons, yield)
    IN  /\ pods + newPods <= MaxPods
        /\ plots' = [plots EXCEPT ![a][pods] = newPods]
        /\ pods' = pods + newPods
        /\ SaveSowTime(soilLeft, elapsed)

\* What sowWithMin asks for: amount, or all Soil if there is less.
SowAmount(amount) == Lesser(amount, soil)

SowWithMin(a, amount, minAmount, mode, elapsed) ==
    LET sown == Received(bank, SowAmount(amount), a, mode)
    IN  /\ soil >= minAmount /\ amount >= minAmount /\ minAmount > 0
        /\ CanBurn(bank, SowAmount(amount), a, mode)
        /\ bank' = BurnToken(bank, SowAmount(amount), a, mode)
        /\ soil' = soil - sown
        /\ SowNoSoil(a, sown, soil', elapsed)
        /\ UNCHANGED <<harvestable, harvested, yield, podListings>>

(***************************************************************************)
(* Harvest.  The ids of one call are distinct and each one is below        *)
(* harvestable, so the plots left by a partial harvest, which begin at     *)
(* harvestable, are never among them.                                      *)
(***************************************************************************)

\* The Pods of plot id that are harvestable.
HarvestablePods(a, id) == Lesser(plots[a][id], harvestable - id)

TotalHarvest(a, ids) == Sum([id \in ids |-> HarvestablePods(a, id)])

\* A partly harvestable plot among ids, whose rest moves to index harvestable.
Straddles(a, id) == id + plots[a][id] > harvestable

\* A mutant of PlotsAfterHarvest: a partial harvest loses the rest.
PlotsWithoutRest(a, ids) ==
    [plots EXCEPT ![a] = [i \in Index |-> IF i \in ids THEN 0 ELSE plots[a][i]]]

PlotsAfterHarvest(a, ids) ==
    [plots EXCEPT ![a] =
        [i \in Index |->
            IF i \in ids THEN 0
            ELSE IF i = harvestable /\ \E id \in ids : Straddles(a, id)
            THEN LET id == CHOOSE id \in ids : Straddles(a, id)
                 IN  id + plots[a][id] - harvestable
            ELSE plots[a][i]]]

ListingsAfterHarvest(ids) ==
    [i \in Index |-> IF i \in ids THEN NoListing ELSE podListings[i]]

Harvest(a, ids, mode) ==
    /\ \A id \in ids : id < harvestable /\ plots[a][id] > 0
    /\ plots' = PlotsAfterHarvest(a, ids)
    /\ podListings' = ListingsAfterHarvest(ids)
    /\ harvested' = harvested + TotalHarvest(a, ids)
    /\ CanSend(bank, TotalHarvest(a, ids), mode)
    /\ bank' = SendToken(bank, TotalHarvest(a, ids), a, mode)
    /\ UNCHANGED <<weatherVars, pods, harvestable>>

(***************************************************************************)
(* What a sunrise does to the Field.  newHarvestable is the share of the   *)
(* newly minted Moons that rewardToHarvestable (or a Season of Plenty)     *)
(* gives to the Pod line: never more than is not harvestable yet.  The     *)
(* amount, the new Soil and the new Temperature depend on the price and on *)
(* demand, which the Field does not see.  nextSowTime is cleared unless    *)
(* stepWeather returned early.                                             *)
(***************************************************************************)
RewardToHarvestable(newHarvestable) ==
    /\ harvestable + newHarvestable <= pods
    /\ harvestable' = harvestable + newHarvestable
    /\ bank' = [bank EXCEPT !.held = @ + newHarvestable]

Sunrise(newHarvestable, newSoil, newYield) ==
    /\ RewardToHarvestable(newHarvestable)
    /\ soil' = newSoil
    /\ yield' = newYield
    /\ nextSowTime' \in {nextSowTime, MaxUint32}
    /\ UNCHANGED <<pods, harvested, plots, podListings>>

(***************************************************************************)
(* The Field alone, for the modules that extend it.                        *)
(***************************************************************************)
FieldInit ==
    /\ soil \in SoilAmounts
    /\ pods = 0 /\ harvestable = 0 /\ harvested = 0
    /\ plots = [a \in Accounts |-> [i \in Index |-> 0]]
    /\ yield = 1
    /\ nextSowTime = MaxUint32
    /\ podListings = [i \in Index |-> NoListing]
    /\ bank = [wallet   |-> [a \in Accounts |-> InitialMoons],
               internal |-> [a \in Accounts |-> 0],
               held     |-> 0]

FieldTypeOK ==
    /\ soil \in Nat
    /\ pods \in Index /\ harvestable \in Index /\ harvested \in Nat
    /\ plots \in [Accounts -> [Index -> Index]]
    /\ yield \in Nat
    /\ nextSowTime \in 0 .. MaxUint32
    /\ bank \in Banks
===============================================================================
