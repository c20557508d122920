------------------------------- MODULE FairPlenty -------------------------------
(***************************************************************************)
(* What Seasons of Plenty promise, beside how the Silo keeps it: every     *)
(* account's Roots are written down when it starts to rain, and each time  *)
(* a Season of Plenty is sold all of them are paid at once.  The Silo      *)
(* writes down two numbers per sale, and works out what an account gets    *)
(* many Seasons later, when the account is next updated.                   *)
(***************************************************************************)
EXTENDS Silo

VARIABLES
    share,  \* the Roots of each account when it last started to rain
    fair,   \* what it should have got, in units of 1 / SopPrecision 3CRV
    paid,   \* what it has claimed
    stayed  \* those who never gave all Roots away while they had a share

plentyVars == <<vars, share, fair, paid, stayed>>

FairInit ==
    /\ Init
    /\ share = [a \in Accounts |-> 0]
    /\ fair = [a \in Accounts |-> 0]
    /\ paid = [a \in Accounts |-> 0]
    /\ stayed = Accounts

\* What a sunrise sells goes to the shares of the Rain it is sold in.
PerRoot == clock'.sops[clock'.lastSop] - clock.sops[clock.lastSop]

FairSeason ==
    /\ Season(Silent)
    /\ share' = IF clock'.rainStart # clock.rainStart
                THEN [a \in Accounts |-> silo.acct[a].roots] ELSE share
    /\ fair' = [a \in Accounts |-> fair[a] + PerRoot * share[a]]
    /\ UNCHANGED <<paid, stayed>>

FairCall(c) ==
    /\ Call(c, Silent)
    /\ paid' = [paid EXCEPT ![c] = @ + threeCrv - threeCrv']
    /\ stayed' = {a \in stayed : share[a] = 0 \/ silo'.acct[a].roots > 0}
    /\ UNCHANGED <<share, fair>>

FairNext == FairSeason \/ \E c \in Accounts : FairCall(c)

FairSpec == FairInit /\ [][FairNext]_plentyVars

\* Nobody withdraws or converts while it rains: such a call makes all Roots
\* of its caller a share of the Rain.
ExitsWhenDry ==
    clock.raining => ~\E c \in Accounts : WithdrawCall(c, Silent) \/ ConvertCall(c, Silent)

DrySpec == FairInit /\ [][FairNext /\ ExitsWhenDry]_plentyVars

\* What an account has claimed and can claim is its share of every Season of
\* Plenty, rounded down once for each: however seldom it is updated, in
\* which Season, between which sales, and whatever it deposits or transfers
\* in the meantime.  Who gives all Roots away may lose Plenty, not gain any.
PlentyIsFair ==
    \A a \in Accounts :
        LET got == SopPrecision * (paid[a] + BalanceOfPlenty(silo, clock, a))
        IN  /\ got <= fair[a]
            /\ a \in stayed => fair[a] < got + SopPrecision * clock.current

\* An update only adds to the Plenty of an account.
UpdateKeepsPlenty ==
    [][\A a \in Accounts : Update(a) =>
          BalanceOfPlenty(silo, clock, a)' >= BalanceOfPlenty(silo, clock, a)]_plentyVars
=================================================================================
