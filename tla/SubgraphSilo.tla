----------------------------- MODULE SubgraphSilo -----------------------------
(***************************************************************************)
(* The subgraph's entities of Deposits, Withdrawals and the Silo, and the  *)
(* handlers of the Silo's events: SiloHandler.ts, handleReward of          *)
(* SeasonHandler.ts.  A silo's assets are by token.  Snapshots, whose      *)
(* fields repeat these, and hashes are left out.                           *)
(***************************************************************************)
EXTENDS Integers, Sequences

LOCAL INSTANCE FiniteSetsExt

CONSTANTS Accounts, Tokens, MoonToken, Seasons, Diamond, MagePerMoon

NewSilo == [depositedBdv |-> 0, plantableMage |-> 0,
            assets |-> [token \in Tokens |-> [bdv |-> 0, amount |-> 0]]]

\* What the loaders create: a deposit and a withdrawal by account, token and
\* Season, a silo of each account and of the protocol.
EmptySilo ==
    [deposit  |-> [key \in Accounts \X Tokens \X Seasons |-> [amount |-> 0, bdv |-> 0]],
     withdraw |-> [key \in Accounts \X Tokens \X Seasons |-> [amount |-> 0, claimed |-> FALSE]],
     silo     |-> [a \in Accounts \union {Diamond} |-> NewSilo]]

\* addDepositToSilo and addDepositToSiloAsset; with negative numbers,
\* removeDepositFromSilo and removeDepositFromSiloAsset.
AddToSilo(silo, token, bdv, amount) ==
    [silo EXCEPT !.depositedBdv = @ + bdv, !.assets[token].bdv = @ + bdv,
                 !.assets[token].amount = @ + amount]

\* Of the protocol, then of the account.
AddToBoth(store, a, token, bdv, amount) ==
    [store EXCEPT !.silo[Diamond] = AddToSilo(@, token, bdv, amount),
                  !.silo[a] = AddToSilo(@, token, bdv, amount)]

HandleAddDeposit(store, e) ==
    AddToBoth([store EXCEPT !.deposit[<<e.account, e.token, e.season>>] =
                  [amount |-> @.amount + e.amount, bdv |-> @.bdv + e.bdv]],
              e.account, e.token, e.bdv, e.amount)

WithdrawnBdv(deposit, amount) ==
    IF deposit.amount = 0 THEN 0 ELSE (amount * deposit.bdv) \div deposit.amount

RemoveDeposit(store, a, token, season, amount) ==
    LET key == <<a, token, season>>
        bdv == WithdrawnBdv(store.deposit[key], amount)
    IN  AddToBoth([store EXCEPT !.deposit[key] =
                      [amount |-> @.amount - amount, bdv |-> @.bdv - bdv]],
                  a, token, -bdv, -amount)

HandleRemoveDeposits(store, e) ==
    FoldSet(LAMBDA s, known : RemoveDeposit(known, e.account, e.token, s, e.crates[s]),
            store, DOMAIN e.crates)

HandleAddWithdrawal(store, e) ==
    [store EXCEPT !.withdraw[<<e.account, e.token, e.season>>].amount = e.amount]

HandleRemoveWithdrawals(store, e) ==
    [store EXCEPT !.withdraw =
        [key \in DOMAIN @ |->
            IF key[1] = e.account /\ key[2] = e.token /\ key[3] \in e.seasons
            THEN [@[key] EXCEPT !.claimed = TRUE] ELSE @[key]]]

\* Moons minted for the Silo, or, negative, planted: they are deposited from
\* the sunrise on, and the Mage that comes with them is to be planted.
AddEarned(store, moons) ==
    [store EXCEPT !.silo[Diamond] =
        [AddToSilo(@, MoonToken, moons, moons) EXCEPT
            !.plantableMage = @ + moons * MagePerMoon]]

\* A mutant of HandlePlant: the planted Moons are deposited twice.
HandlePlantMage(store, e) ==
    [store EXCEPT !.silo[Diamond].plantableMage = @ - e.moons * MagePerMoon]

HandlePlant(store, e) == AddEarned(store, -e.moons)

HandleReward(store, e) == AddEarned(store, e.toSilo)

HandleSiloEvent(store, e) ==
    CASE e.type = "AddDeposit"        -> HandleAddDeposit(store, e)
      [] e.type = "RemoveDeposits"    -> HandleRemoveDeposits(store, e)
      [] e.type = "AddWithdrawal"     -> HandleAddWithdrawal(store, e)
      [] e.type = "RemoveWithdrawals" -> HandleRemoveWithdrawals(store, e)
      [] e.type = "Plant"             -> HandlePlant(store, e)
      [] e.type = "Reward"            -> HandleReward(store, e)
===============================================================================
