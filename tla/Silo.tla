--------------------------------- MODULE Silo ---------------------------------
(***************************************************************************)
(* The Silo: Deposits by token and Season, Withdrawals that arrive later,  *)
(* the Mage and the Seeds that come and go with Deposits, the Moons a      *)
(* sunrise pays to all Mage, Convert, and the Seasons of Plenty.           *)
(* SiloFacet/*.sol, ConvertFacet.sol, libraries/Silo/LibTokenSilo.sol, and *)
(* handleRain, rewardSop and rewardToSilo of a sunrise.                    *)
(*                                                                         *)
(* A token's value in Moons (its BDV), what a pool gives in a Convert and  *)
(* what a Season of Plenty is sold for come from outside: they are inputs. *)
(* The tokens are what LibTransfer delivers and pays.  The seasons and the *)
(* amounts of a call are its crates, a function from seasons to amounts.   *)
(***************************************************************************)
EXTENDS LibSilo, SiloEvents

CONSTANTS
    Tokens, MoonToken,   \* the whitelisted tokens; the Moon is one of them
    UnripeTokens,        \* those whose Deposits may be enrooted
    TokenMage,           \* s.ss[token].mage, per BDV
    TokenSeeds,          \* s.ss[token].seeds, per BDV
    SeedsPerMoon,        \* C.getSeedsPerMoon()
    WithdrawSeasons,     \* s.season.withdrawSeasons
    DepositAmounts, WithdrawAmounts, TransferAmounts, ConvertAmounts, \* inputs
    EnrootAmounts,
    Bdvs,                \* BDVs of what is deposited
    Allowances, UnlimitedAllowance,
    ClaimsOfNothing,     \* whether claims may name Seasons without a Withdrawal
    SiloMints,           \* Moons that a sunrise pays to the Silo
    Weathers,            \* whether the case of a sunrise lets it rain
    SopAmounts,          \* 3CRV that a Season of Plenty is sold for
    MaxHeld,             \* bound of what the Silo holds of a token
    MaxSeeds             \* bound of all Seeds

ASSUME SiloAssumption ==
    /\ IsFiniteSet(Accounts) /\ IsFiniteSet(Tokens)
    /\ MoonToken \in Tokens /\ UnripeTokens \subseteq Tokens
    /\ MaxSeason \in Nat \ {0} /\ MagePerMoon \in Nat \ {0} /\ RootsBase \in Nat \ {0}
    /\ SopPrecision \in Nat \ {0} /\ SeedsPerMoon \in Nat
    /\ TokenMage \in [Tokens -> Nat] /\ TokenSeeds \in [Tokens -> Nat]
    /\ TokenMage[MoonToken] = MagePerMoon /\ TokenSeeds[MoonToken] = SeedsPerMoon
    /\ WithdrawSeasons \in Nat \ {0}
    /\ DepositAmounts \union WithdrawAmounts \union TransferAmounts \union ConvertAmounts
          \union EnrootAmounts \subseteq Nat \ {0}
    /\ Bdvs \subseteq Nat /\ Allowances \subseteq Nat /\ UnlimitedAllowance \in Nat
    /\ ClaimsOfNothing \in BOOLEAN
    /\ SiloMints \subseteq Nat /\ Weathers \subseteq BOOLEAN /\ SopAmounts \subseteq Nat
    /\ MaxHeld \in Nat /\ MaxSeeds \in Nat

VARIABLES
    clock,        \* s.season and s.sops
    silo,         \* s.s, s.r.roots and what s.a[account] has
    deposits,     \* s.a[account].deposits[token][season]
    withdrawals,  \* s.a[account].withdrawals[token][season]
    siloBalances, \* s.siloBalances[token]
    earnedMoons,  \* s.earnedMoons
    allowances,   \* s.a[account].depositAllowances[spender][token]
    threeCrv      \* the 3CRV that the diamond holds for Plenty

assetVars == <<deposits, withdrawals, siloBalances>>
vars == <<clock, silo, assetVars, earnedMoons, allowances, threeCrv>>

NoDeposit == [amount |-> 0, bdv |-> 0]

(***************************************************************************)
(* Deposits                                                                *)
(***************************************************************************)
AddDeposit(d, a, token, s, amount, bdv) ==
    [d EXCEPT ![a][token][s] = [amount |-> @.amount + amount, bdv |-> @.bdv + bdv]]

AddDeposits(d, a, token, crates, bdvs) ==
    [d EXCEPT ![a][token] = [s \in Seasons |->
        IF s \in DOMAIN crates
        THEN [amount |-> @[s].amount + crates[s], bdv |-> @[s].bdv + bdvs[s]] ELSE @[s]]]

\* The BDV that amount takes out of a Deposit, rounded down for a part.
RemovedBdv(deposit, amount) ==
    IF amount < deposit.amount THEN (amount * deposit.bdv) \div deposit.amount
    ELSE deposit.bdv

BdvsOf(a, token, crates) ==
    [s \in DOMAIN crates |-> RemovedBdv(deposits[a][token][s], crates[s])]

CanRemove(a, token, crates) ==
    \A s \in DOMAIN crates : crates[s] <= deposits[a][token][s].amount

RemoveDeposits(a, token, crates) ==
    [deposits EXCEPT ![a][token] = [s \in Seasons |->
        IF s \in DOMAIN crates
        THEN [amount |-> @[s].amount - crates[s],
              bdv    |-> @[s].bdv - RemovedBdv(@[s], crates[s])] ELSE @[s]]]

\* A mutant of GrownOf: the Season of the call counts too.
GrownOfMore(token, bdvs) ==
    Sum([s \in DOMAIN bdvs |-> bdvs[s] * TokenSeeds[token] * (clock.current + 1 - s)])

\* The Mage that so much BDV of each Season has grown.
GrownOf(token, bdvs) ==
    Sum([s \in DOMAIN bdvs |-> bdvs[s] * TokenSeeds[token] * (clock.current - s)])

MageOf(token, bdvs) == Sum(bdvs) * TokenMage[token] + GrownOf(token, bdvs)

SeedsOf(token, bdvs) == Sum(bdvs) * TokenSeeds[token]

\* depositSiloAssets
DepositSiloAssets(z, c, seeds, mage) == IncrementSeeds(IncrementMage(z, c, mage), c, seeds)

\* withdrawSiloAssets, for some BDV of token.
CanWithdraw(z, c, token, bdvs) ==
    /\ CanDecrementMage(z, clock, c, MageOf(token, bdvs))
    /\ CanDecrementSeeds(z, c, SeedsOf(token, bdvs))

WithdrawSiloAssets(z, c, token, bdvs) ==
    DecrementSeeds(DecrementMage(z, clock, c, MageOf(token, bdvs)), c, SeedsOf(token, bdvs))

\* The bounds, where the additions of the model revert.
CanHold(token, amount) ==
    siloBalances[token].deposited + siloBalances[token].withdrawn + amount <= MaxHeld

CanSeed(z, seeds) == z.seeds + seeds <= MaxSeeds

Deposit(c, token, amount, bdv) ==
    LET updated == Updated(silo, clock, c)
    IN  /\ bdv > 0 /\ CanHold(token, amount) /\ CanSeed(silo, bdv * TokenSeeds[token])
        /\ token = MoonToken => bdv = amount
        /\ CanUpdate(silo, clock, c)
        /\ CanIncrementMage(updated)
        /\ silo' = DepositSiloAssets(updated, c, bdv * TokenSeeds[token], bdv * TokenMage[token])
        /\ deposits' = AddDeposit(deposits, c, token, clock.current, amount, bdv)
        /\ siloBalances' = [siloBalances EXCEPT ![token].deposited = @ + amount]
        /\ UNCHANGED <<clock, withdrawals, earnedMoons, allowances, threeCrv>>

BalanceAfterWithdrawal(token, amount) ==
    [siloBalances EXCEPT ![token] =
        [deposited |-> @.deposited - amount, withdrawn |-> @.withdrawn + amount]]

\* What is withdrawn arrives WithdrawSeasons later.
WithdrawDeposits(c, token, crates) ==
    LET updated == Updated(silo, clock, c)
        bdvs    == BdvsOf(c, token, crates)
        arrival == clock.current + WithdrawSeasons
    IN  /\ arrival \in Seasons
        /\ CanUpdate(silo, clock, c)
        /\ CanRemove(c, token, crates)
        /\ CanWithdraw(updated, c, token, bdvs)
        /\ silo' = WithdrawSiloAssets(updated, c, token, bdvs)
        /\ deposits' = RemoveDeposits(c, token, crates)
        /\ withdrawals' = [withdrawals EXCEPT ![c][token][arrival] = @ + Sum(crates)]
        /\ siloBalances' = BalanceAfterWithdrawal(token, Sum(crates))
        /\ UNCHANGED <<clock, earnedMoons, allowances, threeCrv>>

ClaimWithdrawals(c, token, seasons) ==
    /\ \A s \in seasons : s <= clock.current
    /\ siloBalances' = [siloBalances EXCEPT ![token].withdrawn =
           @ - Sum([s \in seasons |-> withdrawals[c][token][s]])]
    /\ withdrawals' = [withdrawals EXCEPT ![c][token] =
           [s \in Seasons |-> IF s \in seasons THEN 0 ELSE @[s]]]
    /\ UNCHANGED <<clock, silo, deposits, earnedMoons, allowances, threeCrv>>

(***************************************************************************)
(* Transfers of Deposits                                                   *)
(***************************************************************************)

\* A mutant of SpendAllowance: the allowance is checked and not used up.
CheckAllowance(c, owner, token, amount) ==
    /\ c = owner \/ allowances[owner][c][token] >= amount
    /\ allowances' = allowances

SpendAllowance(c, owner, token, amount) ==
    IF c = owner \/ allowances[owner][c][token] = UnlimitedAllowance
    THEN allowances' = allowances
    ELSE /\ allowances[owner][c][token] >= amount
         /\ allowances' = [allowances EXCEPT ![owner][c][token] = @ - amount]

ApproveDeposit(c, spender, token, amount) ==
    /\ allowances' = [allowances EXCEPT ![c][spender][token] = amount]
    /\ UNCHANGED <<clock, silo, assetVars, earnedMoons, threeCrv>>

\* Deposits keep their Season and their BDV.
TransferDeposits(c, sender, recipient, token, crates) ==
    LET one     == Updated(silo, clock, sender)
        updated == Updated(one, clock, recipient)
        bdvs    == BdvsOf(sender, token, crates)
    IN  /\ SpendAllowance(c, sender, token, Sum(crates))
        /\ CanUpdate(silo, clock, sender)
        /\ CanUpdate(one, clock, recipient)
        /\ CanRemove(sender, token, crates)
        /\ CanTransferMage(updated, sender, MageOf(token, bdvs))
        /\ SeedsOf(token, bdvs) <= updated.acct[sender].seeds
        /\ silo' = TransferSeeds(
                      TransferMage(updated, sender, recipient, MageOf(token, bdvs)),
                      sender, recipient, SeedsOf(token, bdvs))
        /\ deposits' = AddDeposits(RemoveDeposits(sender, token, crates),
                                   recipient, token, crates, bdvs)
        /\ UNCHANGED <<clock, withdrawals, siloBalances, earnedMoons, threeCrv>>

(***************************************************************************)
(* Updates, earned Moons and Plenty                                        *)
(***************************************************************************)
Update(a) ==
    /\ CanUpdate(silo, clock, a)
    /\ silo' = Updated(silo, clock, a)
    /\ UNCHANGED <<clock, assetVars, earnedMoons, allowances, threeCrv>>

\* The Mage of earned Moons is part of all Mage since they were minted.
PlantedMage(z, c, moons) == [z EXCEPT !.acct[c].mage = @ + moons * MagePerMoon]

\* The earned Moons become a Deposit.
Plant(c) ==
    LET updated == Updated(silo, clock, c)
        moons   == EarnedMoons(updated, earnedMoons, c)
    IN  /\ CanUpdate(silo, clock, c)
        /\ earnedMoons' = earnedMoons - moons
        /\ deposits' = AddDeposit(deposits, c, MoonToken, clock.current, moons, moons)
        /\ silo' = PlantedMage(IncrementSeeds(updated, c, moons * SeedsPerMoon), c, moons)
        /\ UNCHANGED <<clock, withdrawals, siloBalances, allowances, threeCrv>>

\* Pays what the last update has noted, without an update.
ClaimPlenty(c) ==
    /\ silo.acct[c].plenty <= threeCrv
    /\ threeCrv' = threeCrv - silo.acct[c].plenty
    /\ silo' = [silo EXCEPT !.acct[c].plenty = 0]
    /\ UNCHANGED <<clock, assetVars, earnedMoons, allowances>>

(***************************************************************************)
(* Enroot and Convert                                                      *)
(***************************************************************************)

\* A mutant of EnrootedBdvs: rounded up.
EnrootedBdvsUp(crates, newBdv) ==
    [s \in DOMAIN crates |-> (crates[s] * newBdv + Sum(crates) - 1) \div Sum(crates)]

EnrootedBdvs(crates, newBdv) ==
    [s \in DOMAIN crates |-> (crates[s] * newBdv) \div Sum(crates)]

\* Deposits of an Unripe token get the BDV of now, in proportion and rounded
\* down; it must not be less.  newBdv is the BDV of all of the crates.
EnrootDeposits(c, token, crates, newBdv) ==
    LET updated  == Updated(silo, clock, c)
        bdvs     == BdvsOf(c, token, crates)
        newBdvs  == EnrootedBdvs(crates, newBdv)
        newSeeds == newBdv * TokenSeeds[token] - SeedsOf(token, bdvs)
        newMage  == MageOf(token, newBdvs) - MageOf(token, bdvs)
    IN  /\ newSeeds >= 0 /\ newMage >= 0 /\ CanSeed(silo, newSeeds)
        /\ CanUpdate(silo, clock, c)
        /\ CanRemove(c, token, crates)
        /\ CanIncrementMage(updated)
        /\ silo' = DepositSiloAssets(updated, c, newSeeds, newMage)
        /\ deposits' = AddDeposits(RemoveDeposits(c, token, crates), c, token, crates, newBdvs)
        /\ UNCHANGED <<clock, withdrawals, siloBalances, earnedMoons, allowances, threeCrv>>

\* A mutant of SeasonsGrown: rounded up.
SeasonsGrownUp(grown, seeds) ==
    IF grown = 0 THEN 0 ELSE Lesser((grown + seeds - 1) \div seeds, clock.current - 1)

\* The whole Seasons that new Seeds need to grow as much Mage.
SeasonsGrown(grown, seeds) ==
    IF grown = 0 THEN 0 ELSE Lesser(grown \div seeds, clock.current - 1)

\* A mutant of BalanceAfterConvert: both sums are read before either is written.
BalanceBeforeConvert(from, to, amount, toAmount) ==
    [[siloBalances EXCEPT ![from].deposited = @ - amount]
        EXCEPT ![to].deposited = siloBalances[to].deposited + toAmount]

BalanceAfterConvert(from, to, amount, toAmount) ==
    [[siloBalances EXCEPT ![from].deposited = @ - amount] EXCEPT ![to].deposited = @ + toAmount]

\* Deposits of one token become one Deposit of another, that dates back as
\* far as the Mage they had grown carries it.
Convert(c, from, to, crates, toAmount, newBdv) ==
    LET updated   == Updated(silo, clock, c)
        bdvs      == BdvsOf(c, from, crates)
        grown     == GrownOf(from, bdvs)
        toBdv     == Greater(newBdv, Sum(bdvs))
        seeds     == toBdv * TokenSeeds[to]
        ago       == SeasonsGrown(grown, seeds)
        withdrawn == WithdrawSiloAssets(updated, c, from, bdvs)
    IN  /\ toBdv > 0 /\ CanHold(to, toAmount)
        /\ grown > 0 => seeds > 0
        /\ CanUpdate(silo, clock, c)
        /\ CanRemove(c, from, crates)
        /\ CanWithdraw(updated, c, from, bdvs)
        /\ CanIncrementMage(withdrawn) /\ CanSeed(withdrawn, seeds)
        /\ silo' = DepositSiloAssets(withdrawn, c, seeds, toBdv * TokenMage[to] + ago * seeds)
        /\ siloBalances' = BalanceAfterConvert(from, to, Sum(crates), toAmount)
        /\ deposits' = AddDeposit(RemoveDeposits(c, from, crates), c, to,
                                  clock.current - ago, toAmount, toBdv)
        /\ UNCHANGED <<clock, withdrawals, earnedMoons, allowances, threeCrv>>

(***************************************************************************)
(* A sunrise                                                               *)
(***************************************************************************)

RainStarts(k) ==
    [k EXCEPT !.raining = TRUE, !.rainStart = k.current,
              !.sops[k.current] = k.sops[k.rainStart]]

\* It has rained for long enough.
SopDue(k) == k.current >= k.rainStart + WithdrawSeasons - 1

RewardSop(k, roots, amount) ==
    [k EXCEPT !.sops[k.rainStart] = k.sops[k.lastSop] + (amount * SopPrecision) \div roots,
              !.lastSop = k.rainStart, !.lastSopSeason = k.current]

\* handleRain: the clock k after it; amount is what a Season of Plenty gives.
Weather(rainy, k, amount) ==
    CASE ~rainy              -> [k EXCEPT !.raining = FALSE]
      [] rainy /\ ~k.raining -> RainStarts(k)
      [] rainy /\ k.raining  -> IF amount > 0 THEN RewardSop(k, silo.rainRoots, amount) ELSE k

\* The Roots that share in the Rain are those of when it starts.
RainRoots(rainy) ==
    IF rainy /\ ~clock.raining THEN [silo EXCEPT !.rainRoots = silo.roots] ELSE silo

RewardToSilo(z, amount) == [z EXCEPT !.mage = @ + amount * MagePerMoon]

\* amount is 0 also when a Season of Plenty finds the price below peg, and
\* mint is what rewardMoons leaves to the Silo.
Sunrise(rainy, amount, mint) ==
    LET next == [clock EXCEPT !.current = @ + 1]
    IN  /\ next.current \in Seasons /\ CanHold(MoonToken, mint)
        /\ amount > 0 => rainy /\ clock.raining /\ SopDue(next) /\ silo.rainRoots > 0
        /\ clock' = Weather(rainy, next, amount)
        /\ threeCrv' = threeCrv + amount
        /\ silo' = RewardToSilo(RainRoots(rainy), mint)
        /\ earnedMoons' = earnedMoons + mint
        /\ siloBalances' = [siloBalances EXCEPT ![MoonToken].deposited = @ + mint]
        /\ UNCHANGED <<deposits, withdrawals, allowances>>

(***************************************************************************)
(* The specification                                                       *)
(***************************************************************************)
NewAccount ==
    [mage |-> 0, seeds |-> 0, roots |-> 0, lastUpdate |-> 0, lastSop |-> 0,
     lastRain |-> 0, sopRoots |-> 0, plentyPerRoot |-> 0, plenty |-> 0]

Init ==
    /\ clock = [current |-> 1, raining |-> FALSE, rainStart |-> 0, lastSop |-> 0,
                lastSopSeason |-> 0, sops |-> [s \in Seasons |-> 0]]
    /\ silo = [mage |-> 0, seeds |-> 0, roots |-> 0, rainRoots |-> 0,
               acct |-> [a \in Accounts |-> NewAccount]]
    /\ deposits = [a \in Accounts |-> [token \in Tokens |-> [s \in Seasons |-> NoDeposit]]]
    /\ withdrawals = [a \in Accounts |-> [token \in Tokens |-> [s \in Seasons |-> 0]]]
    /\ siloBalances = [token \in Tokens |-> [deposited |-> 0, withdrawn |-> 0]]
    /\ earnedMoons = 0
    /\ allowances = [a \in Accounts |-> [b \in Accounts |-> [token \in Tokens |-> 0]]]
    /\ threeCrv = 0

Held(a, token) == {s \in Seasons : deposits[a][token][s].amount > 0}

\* Crates of some amounts out of the Deposits of a.
Crates(a, token, amounts) == UNION {[S -> amounts] : S \in (SUBSET Held(a, token)) \ {{}}}

\* Each call with the events it emits, in their order.
DepositCall(c, Emit(_)) ==
    \E token \in Tokens, amount \in DepositAmounts, bdv \in Bdvs :
        /\ Deposit(c, token, amount, bdv)
        /\ Emit(<<DepositAdded(c, token, clock.current, amount, bdv)>>)

WithdrawCall(c, Emit(_)) ==
    \E token \in Tokens : \E crates \in Crates(c, token, WithdrawAmounts) :
        /\ WithdrawDeposits(c, token, crates)
        /\ Emit(<<DepositsRemoved(c, token, crates),
                  WithdrawalAdded(c, token, clock.current + WithdrawSeasons, Sum(crates))>>)

ClaimCall(c, Emit(_)) ==
    \E token \in Tokens :
        \E seasons \in (SUBSET {s \in Seasons :
                                  ClaimsOfNothing \/ withdrawals[c][token][s] > 0}) \ {{}} :
            /\ ClaimWithdrawals(c, token, seasons)
            /\ Emit(<<WithdrawalsRemoved(c, token, seasons,
                          Sum([s \in seasons |-> withdrawals[c][token][s]]))>>)

TransferCall(c, Emit(_)) ==
    \E token \in Tokens, other \in Accounts :
        \/ /\ \E amount \in Allowances : ApproveDeposit(c, other, token, amount)
           /\ Emit(<<>>)
        \/ \E to \in Accounts : \E crates \in Crates(other, token, TransferAmounts) :
              /\ TransferDeposits(c, other, to, token, crates)
              /\ \E events \in DepositsMoved(other, to, token, crates,
                                            BdvsOf(other, token, crates)) : Emit(events)

PlantCall(c, Emit(_)) ==
    LET moons == EarnedMoons(Updated(silo, clock, c), earnedMoons, c)
    IN  /\ Plant(c)
        /\ Emit(IF moons = 0 THEN <<>>
                ELSE <<DepositAdded(c, MoonToken, clock.current, moons, moons),
                       Planted(c, moons)>>)

\* Anyone may update any account.
RewardCall(c, Emit(_)) ==
    \/ PlantCall(c, Emit)
    \/ ClaimPlenty(c) /\ Emit(<<>>)
    \/ \E a \in Accounts : Update(a) /\ Emit(<<>>)

EnrootCall(c, Emit(_)) ==
    \E token \in UnripeTokens, newBdv \in Bdvs :
        \E crates \in Crates(c, token, EnrootAmounts) :
            /\ EnrootDeposits(c, token, crates, newBdv)
            /\ Emit(<<DepositsRemoved(c, token, crates)>>
                    \o DepositsAdded(c, token, crates, EnrootedBdvs(crates, newBdv)))

\* The Deposit of a Convert is the one of its Season that has grown.
Converted(c, from, to, crates, toAmount, newBdv) ==
    LET bdvs  == BdvsOf(c, from, crates)
        toBdv == Greater(newBdv, Sum(bdvs))
        ago   == SeasonsGrown(GrownOf(from, bdvs), toBdv * TokenSeeds[to])
    IN  <<DepositsRemoved(c, from, crates),
          DepositAdded(c, to, clock.current - ago, toAmount, toBdv)>>

\* A Convert within one token keeps the amount; a Moon is worth a Moon.
ConvertCall(c, Emit(_)) ==
    \E from, to \in Tokens, toAmount \in ConvertAmounts, newBdv \in Bdvs :
        \E crates \in Crates(c, from, ConvertAmounts) :
            /\ from = to => toAmount = Sum(crates)
            /\ to = MoonToken => toAmount = newBdv
            /\ Convert(c, from, to, crates, toAmount, newBdv)
            /\ Emit(Converted(c, from, to, crates, toAmount, newBdv))

Call(c, Emit(_)) ==
    \/ DepositCall(c, Emit) \/ WithdrawCall(c, Emit) \/ ClaimCall(c, Emit)
    \/ TransferCall(c, Emit) \/ RewardCall(c, Emit)
    \/ EnrootCall(c, Emit) \/ ConvertCall(c, Emit)

Season(Emit(_)) ==
    \E rainy \in Weathers, amount \in SopAmounts, mint \in SiloMints :
        /\ Sunrise(rainy, amount, mint)
        /\ Emit(<<Rewarded(mint)>>)

Next == Season(Silent) \/ \E c \in Accounts : Call(c, Silent)

Spec == Init /\ [][Next]_vars

(***************************************************************************)
(* Properties                                                              *)
(***************************************************************************)

TypeOK ==
    /\ clock \in Clocks /\ silo \in Silos
    /\ deposits \in [Accounts -> [Tokens -> [Seasons -> [amount : Nat, bdv : Nat]]]]
    /\ withdrawals \in [Accounts -> [Tokens -> [Seasons -> Nat]]]
    /\ siloBalances \in [Tokens -> [deposited : Nat, withdrawn : Nat]]
    /\ earnedMoons \in Nat /\ threeCrv \in Nat
    /\ allowances \in [Accounts -> [Accounts -> [Tokens -> Nat]]]

\* The totals are the sums over accounts; all Mage also has the Mage of
\* Moons that are earned and not planted, which are among the Moons deposited.
\* Accounts are brought up to date one by one, and plant moves Mage and Moons
\* that the sunrise has counted before.
SiloTotals ==
    /\ silo.seeds = Sum([a \in Accounts |-> silo.acct[a].seeds])
    /\ silo.roots = Sum([a \in Accounts |-> silo.acct[a].roots])
    /\ silo.mage = Sum([a \in Accounts |-> silo.acct[a].mage]) + earnedMoons * MagePerMoon
    /\ \A token \in Tokens :
          /\ siloBalances[token].deposited
               = Sum([p \in Accounts \X Seasons |-> deposits[p[1]][token][p[2]].amount])
                 + (IF token = MoonToken THEN earnedMoons ELSE 0)
          /\ siloBalances[token].withdrawn
               = Sum([p \in Accounts \X Seasons |-> withdrawals[p[1]][token][p[2]]])

Bdv(a, token) == [s \in Seasons |-> deposits[a][token][s].bdv]

\* The Mage of an account with what it has grown and not been given yet.
MageNow(a) == silo.acct[a].mage + GrownMage(silo, clock, a)

DepositSeeds(a) == Sum([token \in Tokens |-> SeedsOf(token, Bdv(a, token))])
DepositMage(a)  == Sum([token \in Tokens |-> MageOf(token, Bdv(a, token))])
DepositGrown(a) == Sum([token \in Tokens |->
    Sum([s \in 0 .. clock.current |-> Bdv(a, token)[s] * TokenSeeds[token] * (clock.current - s)])])

\* The lazily updated Mage and Seeds of an account are exactly those of its
\* Deposits: partial withdrawals, transfers, plants and Converts that date a
\* Deposit back never leave a Deposit without its Mage (it could not be
\* withdrawn), nor Mage without a Deposit.
DepositsCarryMage ==
    \A a \in Accounts : silo.acct[a].seeds = DepositSeeds(a) /\ MageNow(a) = DepositMage(a)

\* With Deposits enrooted several at a time, rounding may leave an account
\* more than its Deposits, and never less.
DepositsBacked ==
    \A a \in Accounts : silo.acct[a].seeds >= DepositSeeds(a) /\ MageNow(a) >= DepositMage(a)

\* No Deposit is locked in: whatever happened since, its owner can withdraw
\* all of it, without a division by zero or a balance that goes below zero.
ExitOpen ==
    \A a \in Accounts, token \in Tokens :
        LET crates == [s \in Held(a, token) |-> deposits[a][token][s].amount]
        IN  Held(a, token) # {} =>
               /\ CanUpdate(silo, clock, a)
               /\ CanWithdraw(Updated(silo, clock, a), a, token, BdvsOf(a, token, crates))

\* The share of all Mage that an account's Roots stand for.
MageShare(a) == IF silo.roots = 0 THEN 0 ELSE MageOfRoots(silo, a)

\* Whoever deposits, withdraws, plants or is updated: an account whose Roots
\* stay has as much of all Mage (and so of the earned Moons) as before, but
\* for one unit of rounding.
NoDilution ==
    [][\A a \in Accounts :
          silo'.acct[a].roots = silo.acct[a].roots => MageShare(a)' >= MageShare(a) - 1]_vars

\* Mage is grown by Seeds and time alone: no call makes grown Mage, in
\* particular no Convert by dating its Deposit back too far.
GrownOnlyByTime ==
    [][clock' = clock =>
          Sum([x \in Accounts |-> DepositGrown(x)])'
                                 <= Sum([x \in Accounts |-> DepositGrown(x)])]_vars

Deposited(a, token) == Sum([s \in Seasons |-> deposits[a][token][s].amount])

\* By a call of c another account loses Deposits only as its allowance to c
\* comes down by as much, in one call of several crates or in several calls.
NoUnauthorisedLoss ==
    [][\A c, a \in Accounts, token \in Tokens :
          \/ c = a \/ Deposited(a, token)' >= Deposited(a, token)
          \/ allowances[a][c][token] = UnlimitedAllowance
          \/ allowances[a][c][token] - allowances'[a][c][token]
               = Deposited(a, token) - Deposited(a, token)'
          \/ ~Call(c, Silent)]_vars

\* The diamond has the 3CRV for all Plenty that accounts can claim, now and
\* after their next update.
PlentyCovered ==
    Sum([a \in Accounts |-> BalanceOfPlenty(silo, clock, a)]) <= threeCrv
===============================================================================
