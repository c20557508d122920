------------------------------- MODULE Followers -------------------------------
(***************************************************************************)
(* The Silo followed from outside by its events: by the subgraph, which    *)
(* has the events of all accounts, and by the interface of each account,   *)
(* which has the account's.                                                *)
(***************************************************************************)
EXTENDS Silo

CONSTANTS
    Diamond,    \* the account of the protocol's own silo entity
    NaN,        \* of the program that processes events
    BdvUnit     \* the parts of a BDV that the interface counts

VARIABLES
    indexed,    \* the entities of the subgraph
    rebuilt     \* what the interface of each account has processed

SS == INSTANCE SubgraphSilo
EP == INSTANCE EventProcessor
CS == INSTANCE CrateSelection
Seqs == INSTANCE SequencesExt

followerVars == <<vars, indexed, rebuilt>>

Follow(events) ==
    /\ indexed' = Seqs!FoldLeft(SS!HandleSiloEvent, indexed, events)
    /\ rebuilt' = [a \in Accounts |-> EP!ProcessSilo(a, rebuilt[a], events, BdvUnit)]

FollowersInit ==
    /\ Init
    /\ indexed = SS!EmptySilo
    /\ rebuilt = [a \in Accounts |-> EP!NoSilo(Tokens)]

FollowersNext == Season(Follow) \/ \E c \in Accounts : Call(c, Follow)

FollowersSpec == FollowersInit /\ [][FollowersNext]_followerVars
(***************************************************************************)
(* Properties                                                              *)
(***************************************************************************)
Deposits(a, token) ==
    [amount |-> Sum([s \in Seasons |-> deposits[a][token][s].amount]),
     bdv    |-> Sum([s \in Seasons |-> deposits[a][token][s].bdv])]

\* The subgraph's deposits are those of the Silo, to the unit of BDV, and its
\* silos add them up: the protocol's also has the Moons that are earned and
\* not planted, whose Mage it says can be planted.
SiloMirrored ==
    /\ \A a \in Accounts, token \in Tokens :
          /\ \A s \in Seasons : indexed.deposit[<<a, token, s>>] = deposits[a][token][s]
          /\ indexed.silo[a].assets[token] = Deposits(a, token)
    /\ \A a \in Accounts :
          indexed.silo[a].depositedBdv = Sum([token \in Tokens |-> Deposits(a, token).bdv])
    /\ \A token \in Tokens :
          indexed.silo[Diamond].assets[token].amount = siloBalances[token].deposited
    /\ indexed.silo[Diamond].depositedBdv
          = earnedMoons + Sum([a \in Accounts |-> indexed.silo[a].depositedBdv])
    /\ indexed.silo[Diamond].plantableMage = earnedMoons * MagePerMoon

\* What the interface rebuilds of an account are the account's Deposits,
\* Season by Season, with a BDV that is never more than the Silo's, and its
\* Withdrawals, of which it offers to claim what has arrived.
SiloRebuilt ==
    \A a \in Accounts, token \in Tokens :
        LET crates  == rebuilt[a].deposits[token]
            claims  == rebuilt[a].withdrawals[token]
            arrived == {s \in Seasons : s <= clock.current}
        IN  /\ DOMAIN crates = Held(a, token)
            /\ \A s \in Held(a, token) :
                  /\ crates[s].amount = deposits[a][token][s].amount
                  /\ crates[s].bdv \div BdvUnit <= deposits[a][token][s].bdv
            /\ EP!DepositedAmount(crates) = Deposits(a, token).amount
            /\ EP!Claimable(claims, clock.current)
                  = Sum([s \in arrived |-> withdrawals[a][token][s]])
            /\ EP!Withdrawn(claims, clock.current)
                  = Sum([s \in Seasons \ arrived |-> withdrawals[a][token][s]])

CanLeave(a, token, crates) ==
    /\ CanRemove(a, token, crates)
    /\ CanUpdate(silo, clock, a)
    /\ CanWithdraw(Updated(silo, clock, a), a, token, BdvsOf(a, token, crates))

\* One unit of what is picked from crate s, picked from crate t instead.
Exchanged(picked, s, t) ==
    [u \in DOMAIN picked \union {t} |->
        (IF u \in DOMAIN picked THEN picked[u] ELSE 0)
            - (IF u = s THEN 1 ELSE 0) + (IF u = t THEN 1 ELSE 0)]

\* No other choice of Moons that are deposited at par loses less Mage.
LosesLeast(a, token, picked) ==
    (\A s \in Held(a, token) : deposits[a][token][s].amount = deposits[a][token][s].bdv) =>
        \A s \in DOMAIN picked, t \in Held(a, token) \ DOMAIN picked :
            MageOf(token, BdvsOf(a, token, picked))
                <= MageOf(token, BdvsOf(a, token, Exchanged(picked, s, t)))

\* For any amount that an account has deposited, the crates that the
\* interface picks, from what it rebuilt, to be withdrawn or converted add up
\* to the amount, and the Silo lets them go; those to be withdrawn lose the
\* account the least Mage.
CratesSelected ==
    \A a \in Accounts, token \in Tokens :
        LET crates == rebuilt[a].deposits[token]
        IN  \A amount \in 1..Deposits(a, token).amount :
                /\ \A picked \in {CS!CratesToWithdraw(crates, amount),
                                  CS!CratesToConvertToLP(crates, amount),
                                  CS!CratesToConvertToMoon(crates, amount)} :
                       Sum(picked) = amount /\ CanLeave(a, token, picked)
                /\ LosesLeast(a, token, CS!CratesToWithdraw(crates, amount))

\* The interface can process all of an account's events
\* (EventProcessor.ts:518: claims of "a season that doesn't exist" are
\* among "these cases we just ignore").
NeverThrows == \A a \in Accounts : ~rebuilt[a].thrown

===============================================================================
