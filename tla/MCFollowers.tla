------------------------------ MODULE MCFollowers ------------------------------
(***************************************************************************)
(* Instances of Followers for TLC: a Moon and one other token with more    *)
(* Seeds per BDV.                                                          *)
(***************************************************************************)
EXTENDS Followers, TLC

Symmetry == Permutations(Accounts)

MCTokenMage  == [token \in Tokens |-> IF token = MoonToken THEN MagePerMoon ELSE 2]
MCTokenSeeds == [token \in Tokens |-> IF token = MoonToken THEN SeedsPerMoon ELSE 3]

\* What a behaviour is about.  "mage": two accounts deposit Moons, withdraw,
\* and plant what sunrises pay.  "transfers": they transfer Deposits of
\* Moons, with allowances or without.  "convert" and "enroot": one account
\* converts its Deposits, or enroots and withdraws those of the other token.
CONSTANT Parts
VARIABLE part

MCInit == FollowersInit /\ part \in Parts

OnlyMoons ==
    \A a \in Accounts, token \in Tokens \ {MoonToken} :
        Held(a, token)' = {} /\ \A b \in Accounts : allowances'[a][b][token] = 0
OnlyOther == \A a \in Accounts : Held(a, MoonToken)' = {}
OneAccount == \E a \in Accounts : \A b \in Accounts \ {a} : silo'.acct[b] = NewAccount
WholeDeposits ==
    \A a \in Accounts, token \in Tokens, s \in Seasons :
        deposits'[a][token][s].amount % 2 = 0

\* One allowance at a time, to another account.
OneAllowance ==
    /\ \A a \in Accounts : allowances'[a][a][MoonToken] = 0
    /\ Cardinality({p \in Accounts \X Accounts : allowances'[p[1]][p[2]][MoonToken] > 0}) <= 1

HeldAtMost(n) ==
    \A token \in Tokens : siloBalances'[token].deposited + siloBalances'[token].withdrawn <= n

InBounds ==
    CASE part = "mage"      -> OnlyMoons
      [] part = "transfers" -> OnlyMoons /\ OneAllowance /\ earnedMoons' = 0 /\ HeldAtMost(6)
      [] part = "convert"   -> /\ OneAccount /\ earnedMoons' = 0 /\ HeldAtMost(3)
                               /\ silo'.seeds <= 9
      [] part = "enroot"    -> /\ OneAccount /\ OnlyOther /\ WholeDeposits
                               /\ earnedMoons' = 0 /\ HeldAtMost(4) /\ silo'.seeds <= 18

MCCall(c) ==
    \/ DepositCall(c, Follow)
    \/ RewardCall(c, Follow)
    \/ part \in {"mage", "enroot"} /\ WithdrawCall(c, Follow)
    \/ part = "mage" /\ ClaimCall(c, Follow)
    \/ part = "transfers" /\ TransferCall(c, Follow)
    \/ part = "convert" /\ ConvertCall(c, Follow)
    \/ part = "enroot" /\ EnrootCall(c, Follow)

MCNext ==
    /\ part' = part
    /\ Season(Follow) \/ \E c \in Accounts : MCCall(c)
    /\ InBounds

MCSpec == MCInit /\ [][MCNext]_<<followerVars, part>>

\* A state without the withdrawals of the subgraph, which no property of the
\* run with this view is about.
View == <<vars, part, rebuilt, indexed.deposit, indexed.silo>>

\* DepositsCarryMage, but for several crates enrooted at a time, which round
\* apart: DepositsBacked is for them.
DepositsCarryMageExactly == part # "enroot" => DepositsCarryMage

\* GrownOnlyByTime, for the calls that could date a Deposit back.
ConvertGrowsNothing ==
    [][part = "convert" /\ clock' = clock =>
          Sum([x \in Accounts |-> DepositGrown(x)])'
                                 <= Sum([x \in Accounts |-> DepositGrown(x)])]_vars
===============================================================================
