------------------------------ MODULE MCFairPlenty ------------------------------
(***************************************************************************)
(* An instance of FairPlenty for TLC, with Moons as the only token.        *)
(***************************************************************************)
EXTENDS FairPlenty, TLC

Symmetry == Permutations(Accounts)

MCTokenMage  == [token \in Tokens |-> MagePerMoon]
MCTokenSeeds == [token \in Tokens |-> SeedsPerMoon]

\* Bounds the instance with two rains: the later Seasons are explored for
\* accounts that kept Roots while they had a share.
LaterForThoseWhoStayed == stayed = Accounts \/ clock.current < MaxSeason - 1
=================================================================================
