------------------------------ MODULE Fertilizer ------------------------------
(***************************************************************************)
(* Fertilizer and Unripe assets.  Whoever recapitalises the protocol with  *)
(* a dollar gets one Fertilizer, which is paid a third of every mint of    *)
(* Moons until it has had as many as its id says.  bpf is what a           *)
(* Fertilizer that was always there has had so far, so an id ends when bpf *)
(* reaches it; the ids that have not ended are a linked list in order.     *)
(* The dollars back the Unripe tokens, which their holders may chop for a  *)
(* share that grows with the part of the Fertilizer that is paid.          *)
(* FertilizerFacet.sol, LibFertilizer.sol, Sun.rewardToFertilizer,         *)
(* fertilizer/*.sol, UnripeFacet.sol.                                      *)
(***************************************************************************)
EXTENDS LibTransfer, FiniteSetsExt

CONSTANTS
    ReplantSeason, EndDecreaseSeason,  \* the humidity falls between these
    Humidity0, RestartHumidity, HumidityDecrease, EndHumidity,
    HumidityBase,          \* what getBpf adds to the humidity (1000)
    FertilizerDenominator, \* the share of a mint that pays Fertilizer (3)
    Precision,             \* C.precision()
    DollarPerUnripeLP,     \* what an Unripe LP stands for, in units of
    DollarUnit,            \* which so many are a dollar (1e12)
    UnripeSupply,          \* initial supplies
    Amounts,               \* of Fertilizer that callers ask for
    OwnerSeasons,          \* Seasons whose Fertilizer the owner adds
    ChopAmounts,
    Mints,                 \* Moons minted by a sunrise
    NewLPs,                \* LP tokens that adding liquidity may return
    MaxId, MaxSeason, MaxMints \* bounds

Unripe == {"Moon", "LP"}

ASSUME FertilizerAssumption ==
    /\ IsFiniteSet(Accounts)
    /\ ReplantSeason \in Nat \ {0} /\ EndDecreaseSeason \in Nat
    /\ Humidity0 \in Nat /\ RestartHumidity \in Nat /\ HumidityDecrease \in Nat
    /\ EndHumidity \in Nat /\ HumidityBase \in Nat \ {0}
    /\ FertilizerDenominator \in Nat \ {0} /\ Precision \in Nat \ {0}
    /\ DollarPerUnripeLP \in Nat /\ DollarUnit \in Nat \ {0}
    /\ UnripeSupply \in [Unripe -> Nat]
    /\ Amounts \subseteq Nat /\ OwnerSeasons \subseteq Nat /\ ChopAmounts \subseteq Nat
    /\ Mints \subseteq Nat /\ NewLPs \subseteq Nat
    /\ MaxId \in Nat /\ MaxSeason \in Nat /\ MaxMints \in Nat

Ids == 0 .. MaxId

VARIABLES
    season,            \* s.season.current
    bpf,               \* s.bpf
    fFirst, fLast,     \* s.fFirst, s.fLast: 0 if the queue is empty
    nextFid,           \* s.nextFid
    fertilizer,        \* s.fertilizer: the supply of each id
    activeFertilizer,  \* s.activeFertilizer
    fertilizedIndex,   \* s.fertilizedIndex: Moons paid
    unfertilizedIndex, \* s.unfertilizedIndex: Moons owed in all
    fertilizing,       \* s.season.fertilizing
    recapitalized,     \* s.recapitalized, in dollars
    unripe,            \* supply and balanceOfUnderlying of the Unripe tokens
    balances,          \* Fertilizer's _balances[id][account]
    bank,              \* of the Moon token: what the Sun mints for Fertilizer
    minted             \* Moons minted, for the bound MaxMints

queueVars == <<fFirst, fLast, nextFid, fertilizer, activeFertilizer, fertilizing>>
paidVars  == <<bpf, fertilizedIndex>>
vars == <<season, paidVars, queueVars, unfertilizedIndex, recapitalized, unripe,
          balances, bank, minted>>

(***************************************************************************)
(* Minting                                                                 *)
(***************************************************************************)

\* getHumidity reverts for a season before the replant, other than 0, and
\* if the decrease is more than there is.
HasHumidity(s) ==
    \/ s = 0 \/ s >= EndDecreaseSeason
    \/ s >= ReplantSeason /\ (s - ReplantSeason) * HumidityDecrease <= RestartHumidity

Humidity(s) ==
    IF s = 0 THEN Humidity0
    ELSE IF s >= EndDecreaseSeason THEN EndHumidity
    ELSE RestartHumidity - (s - ReplantSeason) * HumidityDecrease

Bpf(s) == Humidity(s) + HumidityBase

RemainingRecapitalization ==
    Greater((DollarPerUnripeLP * unripe.supply["LP"]) \div DollarUnit - recapitalized, 0)

\* A mutant of NewDepositedMoons: of all Unripe Moons, not of what is missing.
NewMoonsOfSupply(amount) ==
    (unripe.supply["Moon"] * ((amount * Precision) \div RemainingRecapitalization))
        \div Precision

\* The share of what Unripe Moons lack that amount dollars fill.
NewDepositedMoons(amount) ==
    (Greater(unripe.supply["Moon"] - unripe.underlying["Moon"], 0)
        * ((amount * Precision) \div RemainingRecapitalization)) \div Precision

\* addUnderlying: Moons are minted to back Unripe Moons; the dollars and more
\* Moons go to the pool, for LP that backs Unripe LP.  The pool refuses to add
\* nothing.
AddUnderlying(amount, newLP) ==
    /\ RemainingRecapitalization > 0 /\ amount > 0
    /\ unripe' = [unripe EXCEPT !.underlying["Moon"] = @ + NewDepositedMoons(amount),
                                !.underlying["LP"]   = @ + newLP]
    /\ recapitalized' = recapitalized + amount

\* The id in the list after which the search stops to insert id.
PlaceOf(id) ==
    CHOOSE prev \in Ids : /\ fertilizer[prev] > 0 /\ prev >= fFirst
                          /\ prev < id /\ id <= nextFid[prev]

\* A mutant of LinkIn: the search stops at the first id.
LinkInAfterFirst(id) ==
    nextFid' = [nextFid EXCEPT ![fFirst] = id, ![id] = nextFid[fFirst]]

LinkIn(id) ==
    nextFid' = [nextFid EXCEPT ![PlaceOf(id)] = id, ![id] = nextFid[PlaceOf(id)]]

Push(id) ==
    \/ /\ fFirst = 0
       /\ fFirst' = id /\ fLast' = id /\ fertilizing' = TRUE
       /\ UNCHANGED nextFid
    \/ /\ fFirst # 0 /\ id <= fFirst
       /\ nextFid' = [nextFid EXCEPT ![id] = fFirst]
       /\ fFirst' = id
       /\ UNCHANGED <<fLast, fertilizing>>
    \/ /\ fFirst # 0 /\ id > fFirst /\ id >= fLast
       /\ nextFid' = [nextFid EXCEPT ![fLast] = id]
       /\ fLast' = id
       /\ UNCHANGED <<fFirst, fertilizing>>
    \/ /\ fFirst # 0 /\ id > fFirst /\ id < fLast
       /\ LinkIn(id)
       /\ UNCHANGED <<fFirst, fLast, fertilizing>>

\* addFertilizer: the new id comes into the queue if it is the first of it.
AddFertilizer(forSeason, amount, newLP) ==
    LET id == bpf + Bpf(forSeason)
    IN  /\ HasHumidity(forSeason) /\ id <= MaxId
        /\ unfertilizedIndex' = unfertilizedIndex + amount * Bpf(forSeason)
        /\ fertilizer' = [fertilizer EXCEPT ![id] = @ + amount]
        /\ activeFertilizer' = activeFertilizer + amount
        /\ AddUnderlying(amount, newLP)
        /\ IF fertilizer[id] > 0
           THEN UNCHANGED <<fFirst, fLast, nextFid, fertilizing>>
           ELSE Push(id)
        /\ UNCHANGED <<season, paidVars, minted>>

\* The Moons minted to back Unripe Moons are the diamond's.
BackingMinted(amount) == [bank EXCEPT !.held = @ + NewDepositedMoons(amount)]

\* addFertilizerOwner: Fertilizer of any Season, without a token for it (the
\* tokens were sold before by another contract).
AddFertilizerOwner(forSeason, amount, newLP) ==
    /\ AddFertilizer(forSeason, amount, newLP)
    /\ bank' = BackingMinted(amount)
    /\ UNCHANGED balances

(***************************************************************************)
(* The Fertilizer token                                                    *)
(***************************************************************************)

\* A mutant of StopBpf: a Fertilizer is paid on after its end.
StopBpfUncapped(id) == bpf

\* How far an id is paid.
StopBpf(id) == Lesser(bpf, id)

\* What account a has not claimed of an id.
Fertilized(a, id) == (StopBpf(id) - balances[id][a].lastBpf) * balances[id][a].amount

Update(b, a, id) == [b EXCEPT ![id][a].lastBpf = StopBpf(id)]

\* A mutant of UpdateBoth: the recipient's claim is not settled first.
UpdateSender(b, from, to, id) == Update(b, from, id)

UpdateBoth(b, from, to, id) == Update(Update(b, from, id), to, id)

\* What moonmageMint pays before it marks the tokens of a as paid up to bpf.
Settled(a, id) == IF balances[id][a].amount > 0 THEN Fertilized(a, id) ELSE 0

\* A mutant of Purchase: the tokens are marked as paid to their end.
PurchasePaid(c, id, amount) ==
    [amount |-> balances[id][c].amount + amount, lastBpf |-> id]

Purchase(c, id, amount) ==
    [amount |-> balances[id][c].amount + amount, lastBpf |-> bpf]

\* mintFertilizer: no more than is left of the recapitalisation, and no more
\* than the pull of dollars delivers.
MintFertilizer(c, asked, received, newLP) ==
    LET id == bpf + Bpf(season)
    IN  /\ received <= Lesser(asked, RemainingRecapitalization)
        /\ AddFertilizer(season, received, newLP)
        /\ bank' = SendToken(BackingMinted(received), Settled(c, id), c, "INTERNAL")
        /\ balances' = [balances EXCEPT ![id][c] = Purchase(c, id, received)]

ClaimFertilized(c, ids, mode) ==
    LET amount == Sum([id \in ids |-> Fertilized(c, id)])
    IN  /\ CanSend(bank, amount, mode)
        /\ bank' = SendToken(bank, amount, c, mode)
        /\ balances' = [id \in Ids |-> IF id \in ids THEN Update(balances, c, id)[id]
                                       ELSE balances[id]]
        /\ UNCHANGED <<season, paidVars, queueVars, unfertilizedIndex, recapitalized,
                       unripe, minted>>

\* safeTransferFrom: both are paid what they can claim first.
SafeTransferFrom(from, to, id, amount) ==
    /\ bank' = LET paid == SendToken(bank, Fertilized(from, id), from, "INTERNAL")
               IN  IF from = to THEN paid
                   ELSE SendToken(paid, Fertilized(to, id), to, "INTERNAL")
    /\ balances[id][from].amount >= amount
    /\ balances' = LET updated == UpdateBoth(balances, from, to, id)
                       taken   == [updated EXCEPT ![id][from].amount = @ - amount]
                   IN  [taken EXCEPT ![id][to].amount = @ + amount]
    /\ UNCHANGED <<season, paidVars, queueVars, unfertilizedIndex, recapitalized,
                   unripe, minted>>

(***************************************************************************)
(* Payment                                                                 *)
(***************************************************************************)

\* The bpf that what is left of max reaches, if the first id does not end.
Target(r, max) == r.bpf + (max - r.paid) \div r.active

\* A mutant of Ends: an id that is paid exactly stays first.
EndsLate(r, max) == r.first # 0 /\ r.active > 0 /\ Target(r, max) > r.first

Ends(r, max) == r.first # 0 /\ r.active > 0 /\ Target(r, max) >= r.first

\* Mutants of PayFirst: the id is popped before it is paid, or stays active.
PayFirstAfterPop(r) ==
    [first  |-> nextFid[r.first],
     active |-> r.active - fertilizer[r.first],
     bpf    |-> r.first,
     paid   |-> r.paid + (r.first - r.bpf) * (r.active - fertilizer[r.first])]

PayFirstKept(r) ==
    [first  |-> nextFid[r.first],
     active |-> r.active,
     bpf    |-> r.first,
     paid   |-> r.paid + (r.first - r.bpf) * r.active]

\* Pay all Fertilizer up to the end of the first id, and pop it.
PayFirst(r) ==
    [first  |-> nextFid[r.first],
     active |-> r.active - fertilizer[r.first],
     bpf    |-> r.first,
     paid   |-> r.paid + (r.first - r.bpf) * r.active]

\* The loop of rewardToFertilizer; an id ends at most once.
Paying(max) ==
    LET after[n \in 0 .. MaxId] ==
            IF n = 0
            THEN [first |-> fFirst, active |-> activeFertilizer, bpf |-> bpf, paid |-> 0]
            ELSE IF Ends(after[n - 1], max) THEN PayFirst(after[n - 1]) ELSE after[n - 1]
    IN  after[MaxId]

\* What each Fertilizer is paid after the last id that ends.
RestOf(r, max) == IF r.first = 0 THEN 0 ELSE (max - r.paid) \div r.active

\* The two requirements on the way, and no division by zero.
CanReward(max) ==
    LET r == Paying(max)
    IN  IF r.first = 0
        THEN r.active = 0 /\ fertilizedIndex + r.paid = unfertilizedIndex
        ELSE r.active > 0

RewardToFertilizer(max) ==
    LET r == Paying(max)
    IN  /\ CanReward(max)
        /\ bpf' = r.bpf + RestOf(r, max)
        /\ fertilizedIndex' = fertilizedIndex + r.paid + RestOf(r, max) * r.active
        /\ fFirst' = r.first
        /\ fLast' = IF r.first = 0 THEN 0 ELSE fLast
        /\ fertilizing' = (r.first # 0)
        /\ activeFertilizer' = r.active
        /\ UNCHANGED <<nextFid, fertilizer>>

\* A sunrise that mints so many Moons.
Sunrise(mint) ==
    /\ season < MaxSeason /\ minted + mint <= MaxMints
    /\ season' = season + 1
    /\ minted' = minted + mint
    /\ bank' = [bank EXCEPT !.held = @ + mint]
    /\ IF mint > 0 /\ fertilizing
       THEN RewardToFertilizer(mint \div FertilizerDenominator)
       ELSE UNCHANGED <<paidVars, queueVars>>
    /\ UNCHANGED <<unfertilizedIndex, recapitalized, unripe, balances>>

(***************************************************************************)
(* Unripe assets                                                           *)
(***************************************************************************)

\* A mutant of PenalizedUnderlying: the share of the supply after the burn.
PenalizedAfterBurn(token, amount) ==
    (unripe.underlying[token] * ((fertilizedIndex * amount) \div unfertilizedIndex))
        \div Greater(unripe.supply[token] - amount, 1)

\* The share of the underlying that amount redeems: as much of it as is paid
\* of the Fertilizer.
PenalizedUnderlying(token, amount) ==
    (unripe.underlying[token] * ((fertilizedIndex * amount) \div unfertilizedIndex))
        \div unripe.supply[token]

\* chop: some holder burns amount Unripe tokens.
Chop(c, token, amount, mode) ==
    LET redeem == PenalizedUnderlying(token, amount)
    IN  /\ unripe.supply[token] > 0 /\ unfertilizedIndex > 0
        /\ amount <= unripe.supply[token]
        /\ redeem <= unripe.underlying[token]
        /\ unripe' = [unripe EXCEPT !.supply[token] = @ - amount,
                                    !.underlying[token] = @ - redeem]
        /\ IF token = "Moon"
           THEN CanSend(bank, redeem, mode) /\ bank' = SendToken(bank, redeem, c, mode)
           ELSE UNCHANGED bank
        /\ UNCHANGED <<season, paidVars, queueVars, unfertilizedIndex, recapitalized,
                       balances, minted>>

(***************************************************************************)
(* The specification                                                       *)
(***************************************************************************)
Init ==
    /\ season = ReplantSeason
    /\ bpf = 0 /\ fertilizedIndex = 0 /\ unfertilizedIndex = 0
    /\ fFirst = 0 /\ fLast = 0 /\ nextFid = [id \in Ids |-> 0]
    /\ fertilizer = [id \in Ids |-> 0] /\ activeFertilizer = 0
    /\ fertilizing = FALSE
    /\ recapitalized = 0
    /\ unripe = [supply |-> UnripeSupply, underlying |-> [token \in Unripe |-> 0]]
    /\ balances = [id \in Ids |-> [a \in Accounts |-> [amount |-> 0, lastBpf |-> 0]]]
    /\ bank = [wallet   |-> [a \in Accounts |-> 0],
               internal |-> [a \in Accounts |-> 0], held |-> 0]
    /\ minted = 0

Mint ==
    \E c \in Accounts, asked, received \in Amounts, newLP \in NewLPs :
        MintFertilizer(c, asked, received, newLP)

AddByOwner ==
    \E s \in OwnerSeasons, amount \in Amounts, newLP \in NewLPs :
        AddFertilizerOwner(s, amount, newLP)

Claim ==
    \E c \in Accounts, ids \in SUBSET {id \in Ids : fertilizer[id] > 0}, mode \in ToModes :
        ClaimFertilized(c, ids, mode)

Transfer ==
    \E from, to \in Accounts, id \in Ids, amount \in Amounts :
        SafeTransferFrom(from, to, id, amount)

ChopSome ==
    \E c \in Accounts, token \in Unripe, amount \in ChopAmounts, mode \in ToModes :
        Chop(c, token, amount, mode)

Season == \E mint \in Mints : Sunrise(mint)

Next == Mint \/ AddByOwner \/ Claim \/ Transfer \/ ChopSome \/ Season

Spec == Init /\ [][Next]_vars

(***************************************************************************)
(* Properties                                                              *)
(***************************************************************************)
Balances == [amount : Nat, lastBpf : Nat]

TypeOK ==
    /\ season \in Nat /\ bpf \in Nat /\ minted \in Nat
    /\ fFirst \in Ids /\ fLast \in Ids /\ nextFid \in [Ids -> Ids]
    /\ fertilizer \in [Ids -> Nat] /\ activeFertilizer \in Nat
    /\ fertilizedIndex \in Nat /\ unfertilizedIndex \in Nat
    /\ fertilizing \in BOOLEAN
    /\ recapitalized \in Nat
    /\ unripe \in [supply : [Unripe -> Nat], underlying : [Unripe -> Nat]]
    /\ balances \in [Ids -> [Accounts -> Balances]]
    /\ bank \in Banks

\* The ids that have not ended.
Active == {id \in Ids : id > bpf /\ fertilizer[id] > 0}

\* Whatever the order in which ids were added and ended, the linked list is
\* the ids that have not ended, in order: each one links to the next, the last
\* one to nothing.
QueueSorted ==
    /\ fertilizing <=> Active # {}
    /\ Active = {} => fFirst = 0 /\ fLast = 0
    /\ Active # {} => fFirst = Min(Active) /\ fLast = Max(Active)
    /\ \A id \in Active : LET later == {k \in Active : k > id}
                          IN  nextFid[id] = IF later = {} THEN 0 ELSE Min(later)

\* What is owed is what the ids that have not ended have to come, over many
\* payments that each round down and that pop several ids: no Moon of debt is
\* lost or paid twice, so the check "Paid != owed" of a Sunrise that ends the
\* last id, which would stop the Seasons for good, never fails.
DebtExact ==
    /\ activeFertilizer = Sum([id \in Active |-> fertilizer[id]])
    /\ unfertilizedIndex - fertilizedIndex
          = Sum([id \in Active |-> fertilizer[id] * (id - bpf)])

\* No state makes a Sunrise revert in rewardToFertilizer, whatever is minted.
SunriseCanPay ==
    fertilizing => \A mint \in Mints : CanReward(mint \div FertilizerDenominator)

Claimable(a) == Sum([id \in Ids |-> Fertilized(a, id)])

TotalClaimable == Sum([a \in Accounts |-> Claimable(a)])

\* The diamond holds what it owes: internal balances, what the holders of
\* Fertilizer can claim, the Moons behind the Unripe Moons, and the Moons
\* minted for others.  No holder is marked as paid further than it is.
ClaimsCovered ==
    /\ \A id \in Ids, a \in Accounts : balances[id][a].lastBpf <= StopBpf(id)
    /\ \A id \in Ids : Sum([a \in Accounts |-> balances[id][a].amount]) <= fertilizer[id]
    /\ bank.held >= Sum(bank.internal) + TotalClaimable + unripe.underlying["Moon"]
                    + (minted - fertilizedIndex)

Wealth(a) == bank.wallet[a] + bank.internal[a]

\* Minting, claiming and transferring Fertilizer, in any order, neither makes
\* nor loses a Moon for anybody: what an account has and can claim is the same
\* after as before.
ClaimsAreKept ==
    [][(bpf' = bpf /\ unripe'.supply = unripe.supply) =>
          \A a \in Accounts : Wealth(a)' + Claimable(a)' = Wealth(a) + Claimable(a)]_vars

\* A chop leaves those who do not chop at least as much behind each of their
\* Unripe tokens, and so does a recapitalisation.
BackingNeverDiluted ==
    [][\A token \in Unripe :
          unripe'.underlying[token] * unripe.supply[token]
             >= unripe.underlying[token] * unripe'.supply[token]]_vars

\* As long as no more dollars come in than the target (the owner alone may
\* exceed it) and nobody chops, an Unripe Moon is backed by one Moon at most:
\* the shares of what is missing, each rounded, never add up to too much.
NoOverRecapitalization ==
    (/\ unripe.supply = UnripeSupply
     /\ recapitalized <= (DollarPerUnripeLP * UnripeSupply["LP"]) \div DollarUnit)
        => unripe.underlying["Moon"] <= UnripeSupply["Moon"]

\* The queue and the loop implement the plain debt: one payment is the most
\* that every Fertilizer can be paid alike out of the share of the mint.
Debt == INSTANCE FertilizerDebt
    WITH supply <- fertilizer, paid <- fertilizedIndex, owed <- unfertilizedIndex

RefinesDebt == Debt!DebtSpec
===============================================================================
