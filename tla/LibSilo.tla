-------------------------------- MODULE LibSilo --------------------------------
(***************************************************************************)
(* Mage, Seeds, Roots and Plenty (libraries/Silo/LibSilo.sol, and the part *)
(* of farm/facets/SiloFacet/Silo.sol and SiloExit.sol that brings one      *)
(* account up to date).  A silo is a record with the totals, the Roots     *)
(* that share in the Rain, and what each account has; the Season of the    *)
(* clock is an argument.  The operators are pure: a handler composes them. *)
(*                                                                         *)
(* Seeds grow Mage every Season, which an account gets when it is updated. *)
(* Roots are shares of all Mage, also of the Mage that came with Moons     *)
(* minted for the Silo.  Plenty is what the Seasons of Plenty pay to those *)
(* who had Roots when it started to rain.                                  *)
(***************************************************************************)
EXTENDS Sums

CONSTANTS Accounts, MaxSeason, MagePerMoon, RootsBase, SopPrecision

Seasons == 0 .. MaxSeason

AccountStates ==
    [mage : Nat, seeds : Nat, roots : Nat,
     lastUpdate : Seasons, lastSop : Seasons, lastRain : Seasons,
     sopRoots : Nat, plentyPerRoot : Nat, plenty : Nat]

Silos == [mage : Nat, seeds : Nat, roots : Nat, rainRoots : Nat,
          acct : [Accounts -> AccountStates]]

Clocks == [current : Seasons, raining : BOOLEAN, rainStart : Seasons,
           lastSop : Seasons, lastSopSeason : Seasons, sops : [Seasons -> Nat]]

(***************************************************************************)
(* Mage, Roots and Seeds                                                   *)
(***************************************************************************)
IncrementSeeds(z, a, seeds) ==
    [z EXCEPT !.seeds = @ + seeds, !.acct[a].seeds = @ + seeds]

CanDecrementSeeds(z, a, seeds) == seeds <= z.seeds /\ seeds <= z.acct[a].seeds

DecrementSeeds(z, a, seeds) ==
    [z EXCEPT !.seeds = @ - seeds, !.acct[a].seeds = @ - seeds]

\* A mutant of NewRoots: Mage has the same Roots whenever it comes.
NewRootsFixed(z, mage) == mage * RootsBase

\* The Roots that come with new Mage: as many as other Mage has.
NewRoots(z, mage) ==
    IF z.roots = 0 THEN mage * RootsBase ELSE (z.roots * mage) \div z.mage

\* No division by zero.
CanIncrementMage(z) == z.roots > 0 => z.mage > 0

IncrementMage(z, a, mage) ==
    [z EXCEPT !.mage = @ + mage, !.acct[a].mage = @ + mage,
              !.roots = @ + NewRoots(z, mage), !.acct[a].roots = @ + NewRoots(z, mage)]

\* The Roots that leave with Mage.
LostRoots(z, a, mage) ==
    IF mage = 0 THEN 0 ELSE Lesser((z.roots * mage) \div z.mage, z.acct[a].roots)

CanDecrementMage(z, clock, a, mage) ==
    mage > 0 => /\ mage <= z.mage /\ mage <= z.acct[a].mage
                /\ clock.raining => LostRoots(z, a, mage) <= z.rainRoots

\* While it rains, what the account is left with is its share of the Rain.
DecrementMage(z, clock, a, mage) ==
    LET roots == LostRoots(z, a, mage)
        left  == [z EXCEPT !.mage = @ - mage, !.acct[a].mage = @ - mage,
                           !.roots = @ - roots, !.acct[a].roots = @ - roots]
    IN  IF mage > 0 /\ clock.raining
        THEN [left EXCEPT !.rainRoots = @ - roots,
                          !.acct[a].sopRoots = z.acct[a].roots - roots]
        ELSE left

\* The Roots that a sender of Mage gives: all with all Mage, else rounded up.
SentRoots(z, a, mage) ==
    IF mage = z.acct[a].mage THEN z.acct[a].roots
    ELSE ((z.roots - 1) * mage) \div z.mage + 1

CanTransferMage(z, a, mage) ==
    /\ mage <= z.acct[a].mage
    /\ mage # z.acct[a].mage => z.roots > 0 /\ z.mage > 0
    /\ SentRoots(z, a, mage) <= z.acct[a].roots

TransferMage(z, from, to, mage) ==
    LET roots == SentRoots(z, from, mage)
        sent  == [z EXCEPT !.acct[from].mage = @ - mage, !.acct[from].roots = @ - roots]
    IN  [sent EXCEPT !.acct[to].mage = @ + mage, !.acct[to].roots = @ + roots]

TransferSeeds(z, from, to, seeds) ==
    LET sent == [z EXCEPT !.acct[from].seeds = @ - seeds]
    IN  [sent EXCEPT !.acct[to].seeds = @ + seeds]

(***************************************************************************)
(* Plenty                                                                  *)
(***************************************************************************)

\* sops up to which the account has been paid, for Roots of the Rain.
PreviousPPR(z, clock, a) ==
    IF z.acct[a].lastRain > 0 /\ z.acct[a].lastSop = z.acct[a].lastRain
    THEN z.acct[a].plentyPerRoot
    ELSE clock.sops[z.acct[a].lastSop]

\* What Seasons of Plenty of the account's last Rain pay to its Roots of then.
RainPPR(z, clock, a) ==
    IF z.acct[a].lastRain > 0
    THEN Greater(clock.sops[z.acct[a].lastRain] - PreviousPPR(z, clock, a), 0)
    ELSE 0

\* A mutant of LaterPPR: Plenty of the account's last Rain is paid again.
LaterPPRAgain(z, clock, a) ==
    IF clock.lastSop > z.acct[a].lastUpdate
    THEN clock.sops[clock.lastSop] - PreviousPPR(z, clock, a) ELSE 0

\* What later ones pay to its Roots of now.
LaterPPR(z, clock, a) ==
    IF clock.lastSop > z.acct[a].lastUpdate
    THEN clock.sops[clock.lastSop] - PreviousPPR(z, clock, a) - RainPPR(z, clock, a)
    ELSE 0

BalanceOfPlenty(z, clock, a) ==
    z.acct[a].plenty
      + (RainPPR(z, clock, a) * z.acct[a].sopRoots) \div SopPrecision
      + (LaterPPR(z, clock, a) * z.acct[a].roots) \div SopPrecision

\* handleRainAndSops
HandleSops(z, clock, a) ==
    IF clock.lastSopSeason > z.acct[a].lastUpdate
    THEN [z EXCEPT !.acct[a].plenty = BalanceOfPlenty(z, clock, a),
                   !.acct[a].lastSop = clock.lastSop]
    ELSE z

\* A mutant of StartRain: each update in a Rain takes the Roots of now.
StartRainAgain(z, clock, a) ==
    [z EXCEPT !.acct[a].lastRain = clock.rainStart, !.acct[a].sopRoots = z.acct[a].roots]

StartRain(z, clock, a) ==
    IF clock.rainStart > z.acct[a].lastUpdate
    THEN [z EXCEPT !.acct[a].lastRain = clock.rainStart,
                   !.acct[a].sopRoots = z.acct[a].roots]
    ELSE z

HandleRain(z, clock, a) ==
    IF ~clock.raining THEN [z EXCEPT !.acct[a].lastRain = 0]
    ELSE IF clock.lastSop = clock.rainStart
    THEN [StartRain(z, clock, a) EXCEPT !.acct[a].plentyPerRoot = clock.sops[clock.lastSop]]
    ELSE StartRain(z, clock, a)

HandleRainAndSops(z, clock, a) ==
    IF z.acct[a].roots = 0
    THEN [z EXCEPT !.acct[a].lastSop = clock.rainStart, !.acct[a].lastRain = 0]
    ELSE HandleRain(HandleSops(z, clock, a), clock, a)

\* The Mage that Seeds have grown since the last update.
GrownMage(z, clock, a) ==
    z.acct[a].seeds * (clock.current - z.acct[a].lastUpdate)

\* A mutant of EarnGrownMage: the Season of the update counts twice.
EarnGrownMageTwice(z, clock, a) ==
    IF z.acct[a].seeds = 0 THEN z
    ELSE IncrementMage(z, a, GrownMage(z, clock, a) + z.acct[a].seeds)

EarnGrownMage(z, clock, a) ==
    IF z.acct[a].seeds = 0 THEN z ELSE IncrementMage(z, a, GrownMage(z, clock, a))

\* _update: once a Season.
CanUpdate(z, clock, a) ==
    z.acct[a].lastUpdate < clock.current =>
        /\ z.acct[a].seeds > 0 => CanIncrementMage(z)
        /\ z.acct[a].roots > 0 => LaterPPR(z, clock, a) >= 0

Updated(z, clock, a) ==
    IF z.acct[a].lastUpdate >= clock.current THEN z
    ELSE [EarnGrownMage(HandleRainAndSops(z, clock, a), clock, a)
             EXCEPT !.acct[a].lastUpdate = clock.current]

(***************************************************************************)
(* Earned Moons                                                            *)
(***************************************************************************)

\* The share of all Mage that the Roots of a stand for.
MageOfRoots(z, a) == (z.mage * z.acct[a].roots) \div z.roots

\* A mutant of EarnedMoons: without the case that rounding needs.
EarnedMoonsUnchecked(z, earnedMoons, a) ==
    IF z.roots = 0 THEN 0
    ELSE Lesser((MageOfRoots(z, a) - z.acct[a].mage) \div MagePerMoon, earnedMoons)

\* _balanceOfEarnedMoons
EarnedMoons(z, earnedMoons, a) ==
    IF z.roots = 0 THEN 0
    ELSE Lesser(Greater(MageOfRoots(z, a) - z.acct[a].mage, 0) \div MagePerMoon,
                earnedMoons)
===============================================================================
