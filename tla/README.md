# Moonmage in TLA+

A verification project for the Moonmage protocol (`src/protocol/contracts`): a
credit-based stablecoin whose contracts share one storage (`AppStorage.sol`)
behind a diamond proxy (`farm/Diamond.sol`). Every external call of a facet is
one atomic transaction, so one action of a model is one call, with all its
early returns (a revert leaves the state as it was: it is a guard that is
false) and everything the call writes. What is hard is therefore not a race
inside a call but the order of calls by many accounts, and the arithmetic:
slots that are written next to each other, rounding, caps, and values that are
read now and used many Seasons later.

Two programs follow the diamond from outside by its events: the subgraph
(`src/projects/subgraph-moonmage`), which turns them into entities, and the
interface (`src/projects/ui`), which rebuilds an account's plots and Deposits
from the account's events. What is hard there is that an event does not say all
that happened, that entities are used again, and, in the interface, that
requests of several fetches are answered while blocks are mined and the account
and the page change. The last is the one part of the system with real concurrency.

## The system

`s` is the storage shared by all facets. "Moons" are the stable token.

| Component | State | Operations | Hard to get right | Module |
|---|---|---|---|---|
| Field (`FieldFacet`, `LibDibbler`) | `soil`, `pods`, `harvestable`, `harvested`, plots per account | `sow`, `sowWithMin`, `harvest`; written by the Sun each Season | partial harvests move a plot; the minimum of a sow against what a pull delivers | `Field` |
| Pod Marketplace (`MarketplaceFacet/*`) | hashes of listings, escrow of orders, Pod allowances | create, fill and cancel listings and orders, `transferPlot`, `approvePods` | cuts of plots write slots of two accounts; listings name no seller; rounding of a fill; refunds | `Marketplace` |
| Internal balances (`LibTransfer`, `LibBalance`, `TokenFacet`) | internal balance per account and token, allowances | pull, pay, burn in four modes; transfers | a tolerant pull delivers less; the diamond must hold what it owes | `LibTransfer`; `TokenFacet` planned |
| Season, Sun, Weather (`SeasonFacet/*`) | Season clock, Temperature, Soil, demand, rain | `sunrise` | several writers of the same sum; a Season that returns early; rain that starts, stops and pays | rewards and rain in `Field`, `Fertilizer`, `Silo`; the rest planned |
| Oracle (`LibCurveOracle`) | cumulative reserves | capture | first capture after a pause | to be an input of Season |
| Silo (`SiloFacet/*`, `libraries/Silo/*`) | deposits and withdrawals per token and Season, mage, seeds, roots, Plenty | deposit, withdraw, claim, transfer, plant, claim Plenty | lazily accrued mage; roots round; Plenty worked out Seasons later; leaving while it rains | `LibSilo`, `Silo`, `FairPlenty` (partly) |
| Convert (`ConvertFacet`, `libraries/Convert/*`) | as the Silo | convert | dates and amounts of the new deposit | `Silo` (partly) |
| Whitelist (`LibWhitelist`) | mage and seeds per BDV | whitelist, dewhitelist | deposits made under older terms | planned |
| Fertilizer (`LibFertilizer`, `fertilizer/*`) | linked queue of ids, supply per id, BPF, totals | mint, pay, claim, transfer | one id fully paid in the middle of a payment; queue order | `Fertilizer`, `FertilizerDebt` (partly) |
| Unripe (`UnripeFacet`, `LibUnripe`) | recapitalised balances | chop, pick | penalty that changes while holders chop | `Fertilizer` (partly) |
| Fundraiser | remaining amount per fund | create, fund | completion once | planned |
| Pause, ownership | `paused`, owner candidate | pause, unpause, transfer and claim | clock of Seasons across a pause | planned |
| Root (`tokens/Root.sol`) | shares of Silo deposits | mint, redeem | shares against three ratios that round | planned |
| Price functions (`LibPolynomial`) | none | evaluate, integrate | pieces at their boundaries | a function in `Marketplace`; algorithm planned |
| Events of the facets | none | emitted in the order of the calls | what an event leaves out | `MoonmageEvents`, `SiloEvents` |
| Subgraph (`FieldHandler.ts`, `MarketplaceHandler.ts`, `SeasonHandler.ts`, `SiloHandler.ts`) | entities of plots, fields, listings, orders, deposits, silos | one handler per event | finding the plot that a transfer cuts; entities that are used again; totals in step with the parts | `SubgraphField`, `SubgraphMarket`, `SubgraphSilo`; composed in `Subgraph`, `Followers` |
| Event processing (`EventProcessor.ts`) | plots, Deposits and Withdrawals of one account | one method per event; parsing | an account sees its own events only; an event that throws | `EventProcessor`; composed in `FieldFollowers`, `Followers` |
| Event caches (`state/cosmomage/events2`, `.../field`) | cache per account, the shown Field, the connected account | fetch, ingest, connect, reload | answers that come late, fail, or overlap | `EventCache` |
| Crate selection (`lib/Moonmage/Silo`) | none | pick Deposits for an amount | the sum, and what the Silo lets go | `CrateSelection` |

Not modelled, and why: the diamond proxy and its upgrades (standard code; what
it guarantees, one atomic call at a time, is what an action is), Farm, Depot and
Pipeline (they batch calls of other facets in one transaction), Curve facet,
BDV and oracle numerics (external pools), ERC-20, ERC-1155 and permit code
(standard), price views, init and replant contracts (one-time migrations; the
initial states come from `InitDiamond.sol`), mocks, tests, the SDK and the CLI
(they encode calls), and most of the interface by far: its components, forms,
charts and wallets are views without a state of their own to keep right, and
what a form sends is an input of the models. Of the subgraph, the handlers of
prices, volumes and yields are left out (floating averages over external pools),
and those of the diamond before the replant. `PROJECT.json` lists every component.

How they interact: the Season calls the Oracle, the Weather and the Sun in one
transaction; the Sun mints Moons for the Silo, the Fertilizer and the Field and
sets the Soil; the Field deletes listings of plots it harvests; the Marketplace
moves plots and pays through the internal balances; Convert and Root go through
the deposits of the Silo; Fertilizer and Fundraiser decide how much of each
mint the Sun passes on. A transaction's events go, in the order of their logs,
to the subgraph, and, filtered by account, through the event cache to the
event processor of the interface.

## Modules

- `Sums`: the sum of a function over a finite set, as a cardinality, so that
  what one update does to a sum is provable.
- `LibTransfer`: a bank is a record of wallets, internal balances and what the
  diamond holds. `ReceiveToken`, `SendToken`, `BurnToken` and `TransferToken`
  map banks to banks, and `CanReceive`, `CanSend`, `CanBurn` and `CanTransfer`
  say when the call does not revert. Accounts have approved the diamond in the
  ERC-20 contract; the token takes no fee on a transfer.
- `Field`: `SowWithMin`, `Harvest`, and `Sunrise`, which is what a sunrise does
  to the Field with the minted share, the new Soil and the Temperature as
  inputs. `plots[a][i]` is `s.a[a].field.plots[i]`, where 0 is no plot.
  `Harvest` takes the set of ids of the call: they are below `harvestable` and
  distinct (a repeated id reverts), and the plots a partial harvest leaves start
  at `harvestable`, so the loop over ids has the same result in any order.
- `Marketplace`: `MovePods` is `_transferPlot` (`insertPlot`, then
  `removePlot`, two slots of the sender), `RelistRest` is what a partial fill
  writes, an order is its escrow by its terms. Listings and orders of versions 1
  and 2 differ in their pricing, a price or a function of the place in line.
  `Call(c)` is any transaction sent by `c`; `Next` adds the sunrise.
- `PodLine`: the abstract specification: a first-in first-out line in which
  every Pod has one holder. It knows nothing of plots, listings, prices and
  Moons. `Marketplace!RefinesPodLine` maps `pods`, `harvestable` and the
  account whose plot covers a Pod to it.
- `MCMarketplace`: instances for TLC.
- `Fertilizer`: mints by holders and additions by the owner (`AddFertilizer`
  with `Push` into the linked queue and `AddUnderlying`, which recapitalises),
  `RewardToFertilizer` (the loop of `Sun.sol`, a recursive function), claims,
  transfers of one id, and `Chop`. The queue is `fFirst`, `fLast`
  and the links `nextFid` from id to id. Left out: batch transfers and
  ERC-1155 approvals, the dollars paid in and the liquidity bought with them
  (inputs), the pre-mint, `pick` and `addUnripeToken`. Solvency counts what
  Fertilizer is owed and not the Moons of other components.
- `FertilizerDebt`: the abstract specification: a set of debts per id that are
  paid at one rate until each has got its end, without a queue.
  `Fertilizer!RefinesDebt` says that the queue implements it.
- `LibSilo`: mage, seeds, roots and Plenty as operators from silos to silos. A
  silo is a record of totals and of what each account has; `Updated` is
  `_update`, `IncrementMage`, `DecrementMage` and `TransferMage` are the library
  functions, `CanUpdate`, `CanDecrementMage` and so on say when they do not revert.
- `Silo`: the calls: `Deposit`, `WithdrawDeposits`, `ClaimWithdrawals`,
  `TransferDeposits`, `ApproveDeposit`, `Update`, `Plant`, `ClaimPlenty`,
  `EnrootDeposits` (one crate is `enrootDeposit`) and `Convert`, and `Sunrise`
  with the reward of the Silo and the rain. The seasons and amounts arrays of a
  call are one function, its crates: amounts are above zero, and no Season is
  named twice. BDVs, quotes of pools, the case of the Weather and the 3CRV a
  Season of Plenty is sold for are inputs, and so is the Moon supply being above
  zero (without it `stepWeather` returns before the rain). The Pods a Season of
  Plenty ripens belong to the Field. Left out: deposits of before the replant,
  permits (an approval by the signer), and `increase-` and
  `decreaseDepositAllowance`, which end in `ApproveDeposit` with another amount.
- `FairPlenty`: what the Seasons of Plenty promise: shares are written down
  when it starts to rain and everybody is paid at each sale. It runs along with
  `Silo`, whose numbers it compares with its own. `DrySpec` are the behaviours in
  which nobody withdraws or converts while it rains (`ExitsWhenDry`): a
  restriction of the code, which has no such guard.
- `MoonmageEvents`: `Marketplace` with the events of each transaction, in the
  order of their logs. A call is an operator with a parameter `Handle`, which is
  what the module that composes with it does with the events: chain and
  followers take a step together, as the indexer reads the chain at the block
  it has reached. `SiloEvents` has the Silo's events; the calls of `Silo` take
  the same parameter (`Silent` where nobody follows).
- `SubgraphField`, `SubgraphMarket`, `SubgraphSilo`: the handlers, as operators
  from a store of entities and an event to the store. An array that a getter
  returns is a copy, so pushes and sorts that are not assigned back change
  nothing: market arrays stay empty in the code, no listing expires, and they
  are left out, as are snapshots, raw events, fills and histories, which copy.
- `Subgraph`: `MoonmageEvents` followed by the handlers of the Field and of the
  Marketplace. `FieldFollowers` adds the interface of each account.
- `Followers`: `Silo` followed by `SubgraphSilo`, by the interface of each
  account and by what it would select there (`CrateSelection`).
- `EventProcessor`: the methods of `EventProcessor.ts` for Field and Silo events,
  `_parsePlots` and `_parseWithdrawals`. `NaN` is a value of its own; an
  exception sets `thrown`. The interface divides BDVs without rounding; `BdvUnit`
  is a multiple of the denominators that occur.
- `CrateSelection`: the three orders in which crates are taken, and the loop.
- `EventCache`: a fetch is a chain of promises: `Captured` is what its closure
  holds from the render, `NothingNew`, `Query`, `Ingest` and `Fail` are the
  answers it waits for. Anything may happen between them: blocks, the form's
  transaction (`Submit`, `Mine`, `Reject`), another account (`Connect`), the first
  read of `harvestableIndex` (`ReadIndex`), a reload. An event is the block it is in.
  `Calls` is how many fetches wait at a time, and an account can only be
  connected when its fetch can be among them. Left out: a wallet that changes the
  chain. The effect runs then too (`field/updater.ts:111`), caches are kept by
  account and chain (`getEventCacheId`), and the protocol's Field, with its
  `harvestableIndex`, is cleared and read again; no property speaks of chains.
- `MCFertilizer`, `MCFairPlenty`, `MCFollowers`, `MCSubgraph`, `MCEventCache`:
  instances for TLC.
- `SumsProofs`, `LibTransferProofs`: lemmas about induction, sums and banks.
  `MarketplaceProofs`, `PodLineProofs`, `EventCacheProofs`, `FertilizerProofs`,
  `SiloProofs`, `PlentyProofs` (of `FairPlenty`): the theorems about each module.

## Runs

| Run | Question | Instance |
|---|---|---|
| `market` | do plots stay a partition and listings stay backed, tied to their seller and fairly paid, through every order of list, fill, relist, cancel, harvest and transfer? is escrow exact, and does a buyer get what an order pays for? is no Pod made or lost, does a spender stay within its approval, and does it all implement the abstract line? | 2 accounts, line of 3 Pods, fixed and falling prices; listings and approvals, or orders for Pods that may be listed |
| `fertilizer_queue` | is the queue the sorted set of active ids and the debt exact, and can every sunrise pay? does it implement the plain debt? | the owner adds ids out of order; no holders |
| `fertilizer_claims` | is every claim paid once, and covered? does a chop leave those who stay at least as well off? | 2 holders, same and different ids, transfers; chops of Unripe Moons and LP at a falling penalty |
| `silo` | do Mage, Seeds, Roots and totals stay in step, can everybody leave, is nobody diluted or robbed, does a Convert make no Mage? do subgraph and interface rebuild it, and does the interface pick crates that the Silo lets go? | 2 accounts with Moons, mints of 0 and 3, or with transfers; 1 account that converts between two tokens of changing value, or enroots |
| `plenty` | does everybody get its share of every Season of Plenty, and only that? | 2 accounts; transfers at any time; two rains with one or several sales |
| `subgraph` | do the plots, totals, listings and orders of the subgraph stay those of the chain, and the plots of each interface? | 2 accounts, line of 4 Pods: plots cut and harvested; transfers of listed plots; listings filled in parts; orders |
| `event_cache` | is no event missed or taken twice, and does who connects see its Field in the end? | 2 accounts, one of which has events, 2 fetches at a time, 2 blocks |
| `rain_exit` | finding: withdrawals in rain make Plenty exceed the 3CRV | |
| `plenty_lost` | finding: an update drops the Plenty of an account that gave its Deposits away | |
| `zero_fill` | finding: an order filled with zero Pods destroys a plot | `FillAmounts` has 0 |
| `claims_of_nothing` | finding: a claim that names a Season without a Withdrawal stops the interface | `ClaimsOfNothing` |
| `stale_account` | finding: the Pods of the account that left are shown to the one that came | |

`market`, `silo` and `subgraph` ask several questions of one component. A variable
`part`, set at the start and never changed, says which calls a behaviour is made
of, and bounds it; every property is checked of all parts unless its name says
otherwise. It keeps each part small and does not weaken what is asked of it.

Bounds. `MaxPods` is where the model's addition reverts, as SafeMath's does at
2^256; three or four Pods are enough for a plot to be cut in three parts, to be
partly harvestable, and to have a neighbour on either side. Calls name plots of
the caller (or of the sender of a transfer) and indices that are listed: the
code reverts for others. Two accounts are
enough for every relation in the properties (seller and buyer, owner and
spender). Prices and amounts are chosen so that rounding happens: `PriceUnit`
is 2 or 3 where the code has 1e6, so a price is not a multiple of it.
In `Silo`, `MaxHeld` and `MaxSeeds` bound what is held of a token and all Seeds;
withdrawals arrive one Season later, where the code starts with 25, so that
a few Seasons hold a deposit, a withdrawal and its arrival. Roots start at ten
per Mage, so that new, lost and sent Roots all round (the code has 10^12). Three
or four Seasons are enough for Deposits of different age and for accounts that
skip updates; two rains with sales need six. `rain_exit` is why `plenty` has
no withdrawals and Converts: with them `PlentyCovered` is false in a rain. Those
while it is dry are part of the theorem (`DrySpec`, of which the run's behaviours
are the ones without any). For the same line of code `ExitOpen` is checked where it does not rain: in a rain, a Deposit
made after its start cannot leave when its Roots are more than the Rain has left.
`NoDilution` sees transfers of up to six Moons and no mints: each transfer rounds
the sender's Roots up, and many in a row move more than the one unit it allows. In `Fertilizer`, units of a few Moons replace millions and the humidity
falls within the first Seasons, so that ids end inside one payment.
Some instances are cut where two questions combine, and leave each of them
whole. In `market` the line begins with two Pods, nothing is listed while Pods
are approved, and one plot at a time is listed where there are orders; there and in `silo` one approval of another account is open at a
time; in `fertilizer_claims` there are chops while one of the accounts holds
all Fertilizer; in `plenty` the last two Seasons are explored for accounts that
kept Roots while they had a share (`PlentyIsFair` promises the others less;
`PlentyProofs` has no such bound).
The subgraph is right only where `MinFills` is 1 or more, as the interface sets
it: a fill of zero Pods (`zero_fill`) is outside the run. And the run assumes
`InsideLast = FALSE`: that no transfer begins inside the last plot of the line.
With `TRUE`, `PlotsMirrored` is violated in a few steps, as `handlePlotTransfer`
(`FieldHandler.ts:178`) looks for a beginning on either side of the transfer,
finds none behind the last plot, and cuts plot 0 instead. The code does so, and
the assumption is stated in the action (`Mirror`) to check the rest, of
`PlotsRebuilt` too, which shares the steps.
`PriceUnit` is 1 there: the entities copy prices and do not compute with them,
but for the Pods of an order.
Two blocks and two fetches in `event_cache` are enough for a fetch to be overtaken
by another one, by a block, a switch and a reload; `crossed` notes whose fetches
overlapped, which is when the reducer warns that 'There may be duplicates'
(`reducer.ts:25`), and `SearchedOnce` promises nothing of those.

Views. `silo` and `subgraph` are explored up to a `VIEW` that drops what no
later step reads and no property of the run is about: the history of entities
that are over, the totals of the market. What is dropped decides no guard and
no kept variable, so two states with the same view have successors with the
same views. `event_cache`, with liveness, has neither view nor symmetry.
Accounts are symmetric elsewhere: nothing distinguishes them in `Init` or
`Next`, and no property names one. `CHECK_DEADLOCK FALSE` as an instance whose
line is full or whose last Season is over has nothing left to do.

Fairness. `EventCacheFairness` is weak fairness of `Answer(c)` for each fetch: a
request to the provider is answered or fails, which its promise guarantees (it
settles). It includes failing, so `FieldIsShown` promises nothing to an account
a request of which failed: nothing in the code tries again. Nobody is obliged
to connect, to send a transaction or to mine a block, and nothing in the
contracts is obliged to happen, so liveness is stated of the interface only.

## Proofs

Eight modules hold the proofs. The theorems, listed in `PROJECT.json`, are of
`Spec` (or the specification named) for all values of the constants that satisfy
the assumptions of the modules: any accounts, ids, tokens, prices, amounts,
length of the line and Seasons, and no bound of an instance.

| Module | Proved | Hypotheses beyond the assumptions |
|---|---|---|
| `MarketplaceProofs` | `TypeOK`, `PlotsPartitionLine`, `MoonsSolvent`, `ListingBacked` | `0 \notin FillAmounts` |
| `PodLineProofs` | `PodsConserved`, `ListingDiesWithOwnership`, `NoUnauthorisedLoss`, `SellerPaid`, `BuyerProtected`, `RefinesPodLine` | `0 \notin FillAmounts` |
| `EventCacheProofs` | `CacheComplete`, `SearchedOnce` (of `MCSpec`, which adds the history `crossed`) | |
| `FertilizerProofs` | `TypeOK`, `QueueSorted`, `DebtExact`, `SunriseCanPay`, `ClaimsCovered`, `ClaimsAreKept`, `BackingNeverDiluted`, `NoOverRecapitalization`, `RefinesDebt` | |
| `SiloProofs` | `TypeOK`, `SiloTotals`, `DepositsBacked`, `NoUnauthorisedLoss` | |
| `SiloProofs` | `DepositsCarryMage`, `GrownOnlyByTime` | `UnripeTokens = {}` |
| `SiloProofs` | `ExitOpen`, in states before the first Season of Plenty and without rain | a second condition, below |
| `PlentyProofs` | `PlentyIsFair`, `PlentyCovered`; `ExitOpen` without rain, and the second condition | `DrySpec`: nobody withdraws or converts while it rains |

`SumsProofs` and `LibTransferProofs` hold what they share.
The library's induction theorems take the predicate as an operator, which the
provers cannot instantiate; `SumsProofs` states induction over a set of
the arguments that have the property (`LeastNatural`, `FiniteInduction`,
`BoundedInduction`), and that a recursively defined function satisfies its
equation (`PrimitiveRecursion`). The recursions of the model that are proved
about, the loop of payments and the search in the queue, are recursive functions
for this reason. `SumUpdate` of `SumsProofs` is the workhorse: what one changed
value does to a sum; others reindex, split and compare sums.

**Marketplace.** The inductive invariant `IInv` joins the four properties with
`ListingsListPods`. None is inductive alone. An order's price function is read
at places in line, so its cost has a type only if plots are within the line; a
cut keeps the partition only if the slots it writes were empty, which needs the
types and disjointness; a listing stays backed only if those slots are not
listed plots, which holds as a listing lists some Pods and so its plot is not
empty. `MovePodsAt` says where a move writes, `MovePodsPartition` and
`MovePodsElsewhere` what that does to the partition and to other plots, and one
lemma per action concludes. Solvency goes by `Surplus`, what the diamond holds
beyond the internal balances: a pull raises it by what it delivers, a payment
lowers it, a burn and a transfer leave it (`LibTransferProofs`). The hypothesis
`0 \notin FillAmounts` is needed: `zero_fill` is the counterexample without it.

**The Pod line.** `PlotSteps` says that a step does one of four things to the
plots: it sows at the end, harvests at the front, moves a run of Pods of one
plot, or leaves them. Conservation, the fate of listings and the refinement go by
these four; the other proofs by the calls. For `RefinesPodLine`, the holder of a
Pod is the account whose plot covers it, which the partition makes unique: a
move changes it for the run and for no other Pod. A price by place in line is a
sum over places; the code counts them from the head of the line and the
property from its start, so that sums are reindexed (`CostBound`). What an
account has in Moons (`Owns`) falls by a call of its own alone. The run checks
`BuyerProtected` in the part with orders (`OrdersProtectBuyer`), the theorem
everywhere.

**Event cache.** `CacheComplete` alone says nothing of a fetch that waits. `IInv`
adds what is before the start of such a fetch: the cache has it, and keeps it
whatever is answered in between (`CapturedIsCached`), and no fetch or cache ends
beyond the chain. For `SearchedOnce`, `Turn` says that the cache is what one query of
all its blocks would find, and that this is also what a fetch under way has
captured. That the fetch begins behind the cache is not enough: an answer of an
older fetch can empty the cache again under one that begins later.

**Fertilizer.** `QInv` is the types of the queue, `Linked` (every id that has not
ended links to the next that has not; one without Fertilizer links nowhere, as
it may come to be the last) and `Owing` (claims and debt are the sums over
these ids). There is a lemma for each place where an id can be pushed. The
payment loop is a recursive function: a state of it is a first id, claims, a
level and what was paid, and each step either keeps the state or ends one id
(`PayingByStep`, `PayFirstPaid`); as every step raises the level, the loop is done
before its bound (`PayingResult`). Within a step all claims are paid alike
(`PayTogether`). `RewardPays` and `RewardIsPayment` give what `SunriseCanPay`,
`DebtExact` and the refinement of `FertilizerDebt` need, and `PaymentReaches` that
no payment could go further. The second invariant, `Money`, says that what the
diamond holds beyond the internal balances covers the claims, the Moons behind
the Unripe Moons and those minted for others, and that no account is marked as
paid further than an id is. `BackingNeverDiluted` and `NoOverRecapitalization`
are about rounded products and quotients; the latter also needs that supplies
only fall (`SupplyFalls`).

**Silo.** `SInv` is `SiloGood` (the totals are the sums, and each account has the
Mage and the Seeds that its Deposits need) and `TokenTotals`. It compares an
account with its Deposits at the Season of its last update, where the properties
compare them now: otherwise every step would have to account for the Seasons
since. Both sides grow by the same Seeds in them (`EnoughLater`). There is one
lemma per operator of `LibSilo` about what it keeps of the totals and of one
account, and one per call. `DepositsCarryMage` turns the inequality into an
equality, and holds where nothing can be enrooted, as crates that are enrooted
together round apart (`DepositsBacked` is for those). `GrownOnlyByTime` has the
same hypothesis:
what is taken out of Deposits and put into others comes with what it has grown
(`PlusGrown`), and a Convert dates back by a quotient that is rounded down
(`AgoTypes`). Enrooting gives its new BDV the Mage of the Seasons that have passed,
as the code means to, and there the statement is false. The run checks it of
Converts (`ConvertGrowsNothing`), the theorem of all calls.

`ExitOpen` is proved while it does not rain: of `Spec` before the first Season of
Plenty (`ExitsAreOpen`), of `DrySpec` always (`ExitsStayOpen`). In a rain the
Roots that leave may exceed those that the rain has left (`rain_exit` has the
same cause). After a Season of Plenty an update subtracts what an account has
got per Root from what was sold (`LaterPPR`), which must not go below zero: that
is a consequence of the invariant of Plenty. The second condition is that a deposit can be credited
(`CanIncrementMage`), or that there are no Unripe tokens and each token has Mage
per BDV. It leaves out one state: all Mage has gone and rounding has kept Roots
back, where `LibSilo.sol:73` divides by zero. With the other alternative that
state cannot hold a Deposit.

**Plenty.** `PInv` adds to `SInv` what relates an account to the clock and to the
shares of `FairPlenty`. `ClockSound` orders the Seasons that the clock notes.
`Noted` is what an account's `lastSop`, `lastRain`, `plentyPerRoot` and `sopRoots`
mean, by when it was last updated: since the last sale it has got all
(`Settled`); since the last rain began, its Roots of then are noted (`SinceRain`);
before it, its Roots are still those of then, and the rain noted is an older one
(`BeforeRain`). From these, `RainPPR` and `LaterPPR` are never negative and add up to
what was sold since the account was last paid (`OwedByAccount`). `Fairly` compares
what an account has claimed, has noted and is owed, before the last rounding, with
its share: never more, and less by at most one unit in each Season up to its last
update (an update in which two numbers round down jumps over at least two
Seasons). A call changes an account by updating it once or not at all, as far as
Plenty is concerned (`Quiet`, one lemma per call): an update pays what was pending
and rounds (`HandledIsFair`, `RefreshedOnce`), and a sunrise raises what is fair and
what is pending by the same (`SoldKeeps`, `TickKeeps`, `RainBegunKeeps`).
`SharesCovered` says that the 3CRV bought pay all that is fair, as the shares are
the Roots of the rain: their sum is what a sale divides by. `PlentyCovered` follows
by adding up `Fairly` over the accounts. The hypothesis is needed there, and in
`Noted`: a withdrawal in a rain writes other Roots to `sopRoots` (`rain_exit`).

**Model-checked only.** `FieldIsShown` is liveness under fairness, which is out
of the prover's reach. The properties of followers (`Followers`, `Subgraph`,
`FieldFollowers`, `CratesSelected`) are about folds of handlers over sequences of
events, and would need induction over these. `NoDilution` depends on a chain of
roundings for which no inductive bound has been found, and is false where
transfers are many. The recursive price algorithm is not modelled.

## Where code and words part

Five runs end in a counterexample; `PROJECT.json` quotes the lines. Beside them,
met while modelling and left out of the models as nothing depends on them:

- Listings never become EXPIRED: `market.listingIndexes` is pushed to through a
  getter's copy (`MarketplaceHandler.ts:533`) and stays empty.
- The rest of a version 2 listing has no `pricingType` and no `pricingFunction`
  (`MarketplaceHandler.ts:514-532`): `ListingsMirrored` compares fixed prices.
- An order created again under its id keeps `podAmountFilled`, and a listing that
  is cancelled after it was filled in part keeps `filledAmount`.
- `SiloWithdraw.amount` is overwritten by a second withdrawal of the Season
  (`SiloHandler.ts:155`), and `claimableSeason` is one more than the Season of the
  event, which is already that of the arrival (`utils/SiloWithdraw.ts:13`).
- The split of an account's Pods in its field entity, unlike their sum, is not
  moved along with a harvestable plot that is transferred.
- The processing of market events in the interface is commented out.

Hazards of the code that no property is about yet, beside those in `PROJECT.json`:
`sowWithMin` compares the minimum with the amount asked for, before a tolerant pull
(`FieldFacet.sol:59`); `transferMage` rounds Roots up, maybe beyond what the sender
has (`LibSilo.sol:132`); the clock across a pause (`PauseFacet.sol:42`); the
completion of a fund (`FundraiserFacet.sol:57`); ratios of Root shares that round
(`Root.sol:450`); the `harvestableIndex` of a fetch is that of its render
(`field/updater.ts:78`).

## Plan

1. `Season.tla`: the sunrise as one handler: the clock with pause and unpause, the
   demand for Soil, the Temperature, rain, and the split of a mint between
   Fertilizer, Field and Silo, with the other components' parts as operators of
   their modules. Abstract specification of the clock across pauses.
2. The rest of the Silo: the whitelist (terms that change under Deposits), the
   legacy Unripe deposits, and an abstract ledger in which Mage grows for
   everybody at once, implemented by the lazy one.
3. `Root.tla` on top of `LibSilo`; `TokenFacet`, `Fundraiser`, `LibPolynomial`.
4. The handlers of Fertilizer and of the Season in the subgraph.
5. Proofs: that the Silo implements the ledger of item 2; a bound of `NoDilution` that grows with the
   number of transfers; what one event does to the entities and to the chain, as
   a step of an induction over events; the types and the clock of `Season`.
