------------------------------ MODULE SiloProofs ------------------------------
(***************************************************************************)
(* What is proved about the Silo, for any accounts, tokens, Mage and Seeds *)
(* per BDV, amounts, BDVs and Weather:                                     *)
(*                                                                         *)
(*   - TypeOK: no balance goes below zero;                                 *)
(*   - SiloTotals: the totals are the sums over the accounts;              *)
(*   - DepositsBacked: an account has the Mage and the Seeds that its      *)
(*     Deposits need, and exactly those where nothing can be enrooted;     *)
(*   - ExitOpen, before the first Season of Plenty and while it is dry;    *)
(*   - NoUnauthorisedLoss: calls take what an allowance gives, no more.    *)
(*   - GrownOnlyByTime, where nothing can be enrooted: no call makes Mage  *)
(*     that Deposits have grown.                                           *)
(*                                                                         *)
(* The invariant SInv compares each account with its Deposits at the       *)
(* Season it was last updated: with MageNow and the Deposits' Mage of now, *)
(* as the properties do, the Seasons between would be in every step.  Both *)
(* grow by the same Seeds in them (EnoughLater), so that what holds at the *)
(* last update holds now.                                                  *)
(***************************************************************************)
EXTENDS Silo, SumsProofs

(***************************************************************************)
(* Sums                                                                    *)
(***************************************************************************)

\* A function with one other value.
With(f, x, v) == [f EXCEPT ![x] = v]

\* A sum of which one term gets another value.
LEMMA SumWith ==
    ASSUME NEW S, IsFiniteSet(S), NEW f \in [S -> Nat], NEW x \in S, NEW v \in Nat
    PROVE  Sum(With(f, x, v)) = (Sum(f) - f[x]) + v
BY SumUpdate DEF With

\* A sum of which one term changes.
LEMMA SumOfOne ==
    ASSUME NEW S, IsFiniteSet(S), NEW f \in [S -> Nat], NEW g \in [S -> Nat], NEW a \in S,
           \A b \in S : b # a => g[b] = f[b]
    PROVE  /\ Sum(f) \in Nat /\ Sum(g) \in Nat /\ f[a] <= Sum(f)
           /\ Sum(g) = (Sum(f) - f[a]) + g[a]
<1>1. g = With(f, a, g[a]) /\ g[a] \in Nat
    BY DEF With
<1>2. Sum(f) \in Nat /\ Sum(g) \in Nat
    BY SumType
<1>3. f[a] <= Sum(f)
    BY SumAtLeast
<1>4. Sum(With(f, a, g[a])) = (Sum(f) - f[a]) + g[a]
    BY <1>1, SumWith
<1> QED
    BY <1>1, <1>2, <1>3, <1>4

\* One crate.
Single(x, n) == [y \in {x} |-> n]

\* The sum of one term.
LEMMA SumOfSingle ==
    ASSUME NEW x, NEW n \in Nat
    PROVE  Sum(Single(x, n)) = n
<1> DEFINE f == Single(x, n)
<1>1. DOMAIN f = {x} /\ f[x] = n
    BY DEF Single
<1> HIDE DEF f
<1>2. Units(f) = {x} \X (1 .. n)
    BY <1>1 DEF Units
<1> QED
    BY <1>2, UnitsOfOne DEF Sum, f

\* A sum to some terms of which something is added.
LEMMA SumAdded ==
    ASSUME NEW S, IsFiniteSet(S), NEW T \in SUBSET S, NEW f \in [S -> Nat], NEW g \in [S -> Nat],
           NEW h \in [T -> Nat],
           \A x \in S : g[x] = f[x] + (IF x \in T THEN h[x] ELSE 0)
    PROVE  Sum(g) = Sum(f) + Sum(h) /\ Sum(f) \in Nat /\ Sum(g) \in Nat /\ Sum(h) \in Nat
<1> DEFINE e == [x \in S |-> IF x \in T THEN h[x] ELSE 0]
<1>1. e \in [S -> Nat] /\ (\A x \in S \ T : e[x] = 0) /\ h = [x \in T |-> e[x]]
      /\ g = [x \in S |-> f[x] + e[x]]
    OBVIOUS
<1>2. IsFiniteSet(T)
    BY FS_Subset
<1> HIDE DEF e
<1>3. Sum([x \in S |-> f[x] + e[x]]) = Sum(f) + Sum(e)
    BY <1>1, SumPlus
<1>4. Sum(e) = Sum([x \in T |-> e[x]])
    BY <1>1, SumSupport
<1>5. Sum(f) \in Nat /\ Sum(g) \in Nat /\ Sum(h) \in Nat
  <2>1. \A k \in [S -> Nat] : IsFiniteSet(DOMAIN k) /\ \A x \in DOMAIN k : k[x] \in Nat
      OBVIOUS
  <2>2. \A k \in [T -> Nat] : IsFiniteSet(DOMAIN k) /\ \A x \in DOMAIN k : k[x] \in Nat
      BY <1>2
  <2> QED
      BY <2>1, <2>2, SumType
<1> QED
    BY <1>1, <1>3, <1>4, <1>5

(***************************************************************************)
(* One account of the silo                                                 *)
(***************************************************************************)

\* y is z with other totals and other numbers of account a.
Put(z, m, s, r, rr, a, q, y) ==
    y = [z EXCEPT !.mage = m, !.seeds = s, !.roots = r, !.rainRoots = rr, !.acct[a] = q]

\* y is z after account a was left with so much Mage, Seeds and Roots, and
\* with an update at u.
Moved(z, a, y, m, s, r, u) ==
    /\ y \in Silos
    /\ \A b \in Accounts : b # a => y.acct[b] = z.acct[b]
    /\ y.acct[a].mage = m
    /\ y.acct[a].seeds = s
    /\ y.acct[a].roots = r
    /\ y.acct[a].lastUpdate = u

Totals(y, m, s, r) == y.mage = m /\ y.seeds = s /\ y.roots = r

\* What a silo has are natural numbers, and Seasons.
LEMMA SilosHaveTypes ==
    ASSUME NEW z \in Silos
    PROVE  /\ z.mage \in Nat /\ z.seeds \in Nat /\ z.roots \in Nat /\ z.rainRoots \in Nat
           /\ \A a \in Accounts :
                 /\ z.acct[a] \in AccountStates
                 /\ z.acct[a].mage \in Nat /\ z.acct[a].seeds \in Nat /\ z.acct[a].roots \in Nat
                 /\ z.acct[a].lastUpdate \in Seasons /\ z.acct[a].lastSop \in Seasons
                 /\ z.acct[a].lastRain \in Seasons /\ z.acct[a].sopRoots \in Nat
                 /\ z.acct[a].plentyPerRoot \in Nat /\ z.acct[a].plenty \in Nat
BY DEF Silos, AccountStates

IsPut(z, m, s, r, rr, a, q, y) ==
    /\ y \in Silos
    /\ y.mage = m /\ y.seeds = s /\ y.roots = r /\ y.rainRoots = rr
    /\ y.acct[a] = q
    /\ \A b \in Accounts : b # a => y.acct[b] = z.acct[b]

\* A silo with other totals and another account is a silo.
LEMMA PutTypes ==
    ASSUME NEW z \in Silos, NEW a \in Accounts, NEW m \in Nat, NEW s \in Nat, NEW r \in Nat,
           NEW rr \in Nat, NEW q \in AccountStates, NEW y, Put(z, m, s, r, rr, a, q, y)
    PROVE  IsPut(z, m, s, r, rr, a, q, y)
<1>1. y \in Silos
    BY DEF Put, Silos
<1> QED
    BY <1>1 DEF Put, Silos, IsPut

\* The numbers of an account with some of them changed.
SeedsSet(q, s)   == [q EXCEPT !.seeds = s]
MageSet(q, m)    == [q EXCEPT !.mage = m]
UpdateSet(q, u)  == [q EXCEPT !.lastUpdate = u]
SharesSet(q, m, r) == [q EXCEPT !.mage = m, !.roots = r]
SopRootsSet(q, p)  == [q EXCEPT !.sopRoots = p]

\* It is still the numbers of an account.
SameBut(q, y, m, s, r, u) ==
    y \in AccountStates /\ y.mage = m /\ y.seeds = s /\ y.roots = r /\ y.lastUpdate = u

\* Other Seeds, and all else the same.
LEMMA SeedsSetTypes ==
    ASSUME NEW q \in AccountStates, NEW s \in Nat
    PROVE  SameBut(q, SeedsSet(q, s), q.mage, s, q.roots, q.lastUpdate)
BY DEF AccountStates, SeedsSet, SameBut

\* Other Mage, and all else the same.
LEMMA MageSetTypes ==
    ASSUME NEW q \in AccountStates, NEW m \in Nat
    PROVE  SameBut(q, MageSet(q, m), m, q.seeds, q.roots, q.lastUpdate)
BY DEF AccountStates, MageSet, SameBut

\* Another Season of the last update, and all else the same.
LEMMA UpdateSetTypes ==
    ASSUME NEW q \in AccountStates, NEW u \in Seasons
    PROVE  SameBut(q, UpdateSet(q, u), q.mage, q.seeds, q.roots, u)
BY DEF AccountStates, UpdateSet, SameBut

\* Other Mage and Roots, and all else the same.
LEMMA SharesSetTypes ==
    ASSUME NEW q \in AccountStates, NEW m \in Nat, NEW r \in Nat
    PROVE  SameBut(q, SharesSet(q, m, r), m, q.seeds, r, q.lastUpdate)
BY DEF AccountStates, SharesSet, SameBut

\* Another share of the Rain, and all else the same.
LEMMA SopRootsSetTypes ==
    ASSUME NEW q \in AccountStates, NEW p \in Nat
    PROVE  SameBut(q, SopRootsSet(q, p), q.mage, q.seeds, q.roots, q.lastUpdate)
BY DEF AccountStates, SopRootsSet, SameBut

\* Put moves the account and the totals.
LEMMA PutMoves ==
    ASSUME NEW z \in Silos, NEW a \in Accounts, NEW m \in Nat, NEW s \in Nat, NEW r \in Nat,
           NEW rr \in Nat, NEW q, NEW y, Put(z, m, s, r, rr, a, q, y),
           NEW am, NEW as, NEW ar, NEW u, SameBut(z.acct[a], q, am, as, ar, u)
    PROVE  Moved(z, a, y, am, as, ar, u) /\ Totals(y, m, s, r)
<1>1. q \in AccountStates /\ q.mage = am /\ q.seeds = as /\ q.roots = ar /\ q.lastUpdate = u
    BY DEF SameBut
<1>2. IsPut(z, m, s, r, rr, a, q, y)
    BY <1>1, PutTypes
<1> QED
    BY <1>1, <1>2, Zenon DEF Moved, Totals, IsPut

\* incrementBalanceOfSeeds, for the account and in all.
LEMMA SeedsUp ==
    ASSUME NEW z \in Silos, NEW a \in Accounts, NEW n \in Nat, NEW y, y = IncrementSeeds(z, a, n)
    PROVE  /\ Moved(z, a, y, z.acct[a].mage, z.acct[a].seeds + n, z.acct[a].roots,
                    z.acct[a].lastUpdate)
           /\ Totals(y, z.mage, z.seeds + n, z.roots)
<1> DEFINE x == SeedsSet(z.acct[a], z.acct[a].seeds + n)
<1>1. Put(z, z.mage, z.seeds + n, z.roots, z.rainRoots, a, x, y)
    BY DEF Silos, AccountStates, IncrementSeeds, Put, SeedsSet
<1>2. z.acct[a] \in AccountStates /\ z.mage \in Nat /\ z.seeds + n \in Nat /\ z.roots \in Nat
      /\ z.rainRoots \in Nat /\ z.acct[a].seeds + n \in Nat
    BY SilosHaveTypes
<1>3. SameBut(z.acct[a], x, z.acct[a].mage, z.acct[a].seeds + n, z.acct[a].roots, z.acct[a].lastUpdate)
    BY <1>2, SeedsSetTypes
<1> HIDE DEF x
<1> QED
    BY <1>1, <1>2, <1>3, PutMoves, Zenon

\* decrementBalanceOfSeeds, for the account and in all.
LEMMA SeedsDown ==
    ASSUME NEW z \in Silos, NEW a \in Accounts, NEW n \in Nat, CanDecrementSeeds(z, a, n),
           NEW y, y = DecrementSeeds(z, a, n)
    PROVE  /\ Moved(z, a, y, z.acct[a].mage, z.acct[a].seeds - n, z.acct[a].roots,
                    z.acct[a].lastUpdate)
           /\ Totals(y, z.mage, z.seeds - n, z.roots)
<1> DEFINE x == SeedsSet(z.acct[a], z.acct[a].seeds - n)
<1>1. Put(z, z.mage, z.seeds - n, z.roots, z.rainRoots, a, x, y)
    BY DEF Silos, AccountStates, DecrementSeeds, Put, SeedsSet
<1>2. z.acct[a] \in AccountStates /\ z.mage \in Nat /\ z.seeds - n \in Nat /\ z.roots \in Nat
      /\ z.rainRoots \in Nat /\ z.acct[a].seeds - n \in Nat
    BY SilosHaveTypes DEF CanDecrementSeeds
<1>3. SameBut(z.acct[a], x, z.acct[a].mage, z.acct[a].seeds - n, z.acct[a].roots, z.acct[a].lastUpdate)
    BY <1>2, SeedsSetTypes
<1> HIDE DEF x
<1> QED
    BY <1>1, <1>2, <1>3, PutMoves, Zenon

\* New Mage brings new Roots.
LEMMA RootsNew ==
    ASSUME NEW z \in Silos, NEW n \in Nat, CanIncrementMage(z)
    PROVE  NewRoots(z, n) \in Nat
<1>1. z.roots \in Nat /\ z.mage \in Nat /\ z.roots * n \in Nat /\ n * RootsBase \in Nat
    BY SilosHaveTypes, SiloAssumption
<1>2. CASE z.roots = 0
    BY <1>1, <1>2 DEF NewRoots
<1>3. CASE z.roots # 0
  <2>1. z.mage \in Nat \ {0}
      BY <1>1, <1>3 DEF CanIncrementMage
  <2> DEFINE p == z.roots * n
  <2>2. p \in Nat
      BY <1>1
  <2> HIDE DEF p
  <2>3. p \div z.mage \in Nat
      BY <2>1, <2>2, DivNat
  <2> QED
      BY <1>3, <2>3 DEF NewRoots, p
<1> QED
    BY <1>2, <1>3

\* incrementBalanceOfMage: the same Mage and the same Roots for both.
LEMMA MageUp ==
    ASSUME NEW z \in Silos, NEW a \in Accounts, NEW n \in Nat, CanIncrementMage(z),
           NEW y, y = IncrementMage(z, a, n)
    PROVE  /\ NewRoots(z, n) \in Nat
           /\ Moved(z, a, y, z.acct[a].mage + n, z.acct[a].seeds,
                    z.acct[a].roots + NewRoots(z, n), z.acct[a].lastUpdate)
           /\ Totals(y, z.mage + n, z.seeds, z.roots + NewRoots(z, n))
<1> DEFINE r == NewRoots(z, n)
           x == SharesSet(z.acct[a], z.acct[a].mage + n, z.acct[a].roots + r)
<1>1. Put(z, z.mage + n, z.seeds, z.roots + r, z.rainRoots, a, x, y)
    BY DEF Silos, AccountStates, IncrementMage, Put, SharesSet
<1>2. r \in Nat
    BY RootsNew
<1> HIDE DEF r
<1>3. z.acct[a] \in AccountStates /\ z.mage + n \in Nat /\ z.seeds \in Nat /\ z.roots + r \in Nat
      /\ z.rainRoots \in Nat /\ z.acct[a].mage + n \in Nat /\ z.acct[a].roots + r \in Nat
    BY <1>2, SilosHaveTypes
<1>4. SameBut(z.acct[a], x, z.acct[a].mage + n, z.acct[a].seeds, z.acct[a].roots + r,
              z.acct[a].lastUpdate)
    BY <1>3, SharesSetTypes
<1> HIDE DEF x
<1>5. Moved(z, a, y, z.acct[a].mage + n, z.acct[a].seeds, z.acct[a].roots + r, z.acct[a].lastUpdate)
      /\ Totals(y, z.mage + n, z.seeds, z.roots + r)
    BY <1>1, <1>3, <1>4, PutMoves, Zenon
<1> QED
    BY <1>2, <1>5 DEF r

\* The Roots that leave are no more than there are.
LEMMA RootsLost ==
    ASSUME NEW z \in Silos, NEW a \in Accounts, NEW n \in Nat, n > 0, n <= z.mage
    PROVE  /\ LostRoots(z, a, n) \in Nat
           /\ LostRoots(z, a, n) <= z.roots /\ LostRoots(z, a, n) <= z.acct[a].roots
<1> DEFINE p == z.roots * n
           q == p \div z.mage
<1>1. z.roots \in Nat /\ z.mage \in Nat \ {0} /\ z.acct[a].roots \in Nat
    BY SilosHaveTypes
<1>2. p \in Nat /\ p <= z.mage * z.roots
  <2>1. n * z.roots <= z.mage * z.roots /\ z.roots * n = n * z.roots /\ n * z.roots \in Nat
      BY <1>1, ProductMonotone
  <2> QED
      BY <2>1
<1> HIDE DEF p
<1>3. q \in Nat /\ q <= z.roots
    BY <1>1, <1>2, QuotientBound
<1>4. LostRoots(z, a, n) = Lesser(q, z.acct[a].roots)
    BY DEF LostRoots, p
<1> HIDE DEF q
<1> QED
    BY <1>1, <1>3, <1>4 DEF Lesser

\* decrementBalanceOfMage: the same Mage and the same Roots for both.
LEMMA MageDown ==
    ASSUME NEW z \in Silos, NEW k \in Clocks, NEW a \in Accounts, NEW n \in Nat,
           CanDecrementMage(z, k, a, n), NEW y, y = DecrementMage(z, k, a, n)
    PROVE  /\ LostRoots(z, a, n) \in Nat
           /\ Moved(z, a, y, z.acct[a].mage - n, z.acct[a].seeds,
                    z.acct[a].roots - LostRoots(z, a, n), z.acct[a].lastUpdate)
           /\ Totals(y, z.mage - n, z.seeds, z.roots - LostRoots(z, a, n))
<1> DEFINE r == LostRoots(z, a, n)
           x == SharesSet(z.acct[a], z.acct[a].mage - n, z.acct[a].roots - r)
<1>1. z.acct[a] \in AccountStates /\ z.mage \in Nat /\ z.seeds \in Nat /\ z.roots \in Nat
      /\ z.rainRoots \in Nat /\ z.acct[a].mage \in Nat /\ z.acct[a].roots \in Nat
    BY SilosHaveTypes
<1>2. /\ r \in Nat /\ r <= z.roots /\ r <= z.acct[a].roots /\ n <= z.mage /\ n <= z.acct[a].mage
      /\ n > 0 /\ k.raining => r <= z.rainRoots
  <2>1. CASE n = 0
    <3>1. r = 0
        BY <2>1 DEF LostRoots
    <3> QED
        BY <1>1, <2>1, <3>1
  <2>2. CASE n > 0
    <3>1. n <= z.mage /\ n <= z.acct[a].mage /\ (k.raining => r <= z.rainRoots)
        BY <2>2 DEF CanDecrementMage
    <3> QED
        BY <2>2, <3>1, RootsLost
  <2> QED
      BY <2>1, <2>2
<1>3. CASE n > 0 /\ k.raining
  <2> DEFINE left == [z EXCEPT !.mage = @ - n, !.acct[a].mage = @ - n,
                               !.roots = @ - r, !.acct[a].roots = @ - r]
             rain == [left EXCEPT !.rainRoots = @ - r, !.acct[a].sopRoots = z.acct[a].roots - r]
  <2>1. y = rain
      BY <1>3, Zenon DEF DecrementMage
  <2> HIDE DEF r
  <2>2. Put(z, z.mage - n, z.seeds, z.roots - r, z.rainRoots, a, x, left)
      BY DEF Silos, AccountStates, Put, SharesSet
  <2>3. z.mage - n \in Nat /\ z.roots - r \in Nat /\ z.rainRoots - r \in Nat
        /\ z.acct[a].mage - n \in Nat /\ z.acct[a].roots - r \in Nat
      BY <1>1, <1>2, <1>3
  <2>4. SameBut(z.acct[a], x, z.acct[a].mage - n, z.acct[a].seeds, z.acct[a].roots - r,
                z.acct[a].lastUpdate)
      BY <1>1, <2>3, SharesSetTypes
  <2>5. /\ left \in Silos /\ left.mage = z.mage - n /\ left.seeds = z.seeds
        /\ left.roots = z.roots - r /\ left.rainRoots = z.rainRoots /\ left.acct[a] = x
        /\ \A b \in Accounts : b # a => left.acct[b] = z.acct[b]
    <3>1. x \in AccountStates
        BY <2>4 DEF SameBut
    <3> HIDE DEF left, x
    <3>2. IsPut(z, z.mage - n, z.seeds, z.roots - r, z.rainRoots, a, x, left)
        BY <1>1, <2>2, <2>3, <3>1, PutTypes
    <3> QED
        BY <3>2 DEF IsPut
  <2>6. x \in AccountStates /\ x.mage = z.acct[a].mage - n /\ x.seeds = z.acct[a].seeds
        /\ x.roots = z.acct[a].roots - r /\ x.lastUpdate = z.acct[a].lastUpdate
      BY <2>4 DEF SameBut
  <2> HIDE DEF left, x
  <2> DEFINE p == z.acct[a].roots - r
             w == SopRootsSet(x, p)
  <2>7. Put(left, left.mage, left.seeds, left.roots, left.rainRoots - r, a, w, y)
      BY <2>1, <2>5, <2>6 DEF Put, Silos, AccountStates, SopRootsSet
  <2>8. SameBut(x, w, x.mage, x.seeds, x.roots, x.lastUpdate)
      BY <2>3, <2>6, SopRootsSetTypes
  <2>9. left.mage \in Nat /\ left.seeds \in Nat /\ left.roots \in Nat /\ left.rainRoots - r \in Nat
      BY <1>1, <2>3, <2>5
  <2> HIDE DEF w
  <2>10. Moved(left, a, y, x.mage, x.seeds, x.roots, x.lastUpdate)
         /\ Totals(y, left.mage, left.seeds, left.roots)
      BY <2>5, <2>7, <2>8, <2>9, PutMoves, Zenon
  <2> QED
      BY <1>2, <2>5, <2>6, <2>10 DEF Moved, Totals, r
<1>4. CASE ~(n > 0 /\ k.raining)
  <2>1. Put(z, z.mage - n, z.seeds, z.roots - r, z.rainRoots, a, x, y)
      BY <1>4 DEF Silos, AccountStates, DecrementMage, Put, SharesSet
  <2> HIDE DEF r
  <2>2. z.mage - n \in Nat /\ z.roots - r \in Nat
        /\ z.acct[a].mage - n \in Nat /\ z.acct[a].roots - r \in Nat
      BY <1>1, <1>2
  <2>3. SameBut(z.acct[a], x, z.acct[a].mage - n, z.acct[a].seeds, z.acct[a].roots - r,
                z.acct[a].lastUpdate)
      BY <1>1, <2>2, SharesSetTypes
  <2> HIDE DEF x
  <2>4. /\ Moved(z, a, y, z.acct[a].mage - n, z.acct[a].seeds, z.acct[a].roots - r,
                 z.acct[a].lastUpdate)
        /\ Totals(y, z.mage - n, z.seeds, z.roots - r)
      BY <1>1, <2>1, <2>2, <2>3, PutMoves, Zenon
  <2> QED
      BY <1>2, <2>4 DEF r
<1> QED
    BY <1>3, <1>4

\* plant: the Mage of an account rises, all Mage does not.
LEMMA MagePlanted ==
    ASSUME NEW z \in Silos, NEW a \in Accounts, NEW n \in Nat, NEW y, y = PlantedMage(z, a, n)
    PROVE  /\ n * MagePerMoon \in Nat
           /\ Moved(z, a, y, z.acct[a].mage + n * MagePerMoon, z.acct[a].seeds, z.acct[a].roots,
                    z.acct[a].lastUpdate)
           /\ Totals(y, z.mage, z.seeds, z.roots)
<1> DEFINE d == n * MagePerMoon
           x == MageSet(z.acct[a], z.acct[a].mage + d)
<1>1. d \in Nat
    BY SiloAssumption
<1>2. y = [z EXCEPT !.acct[a].mage = @ + d]
    BY DEF PlantedMage
<1> HIDE DEF d
<1>3. Put(z, z.mage, z.seeds, z.roots, z.rainRoots, a, x, y)
    BY <1>2 DEF Silos, AccountStates, Put, MageSet
<1>4. z.acct[a] \in AccountStates /\ z.mage \in Nat /\ z.seeds \in Nat /\ z.roots \in Nat
      /\ z.rainRoots \in Nat /\ z.acct[a].mage + d \in Nat
    BY <1>1, SilosHaveTypes
<1>5. SameBut(z.acct[a], x, z.acct[a].mage + d, z.acct[a].seeds, z.acct[a].roots,
              z.acct[a].lastUpdate)
    BY <1>4, MageSetTypes
<1> HIDE DEF x
<1>6. Moved(z, a, y, z.acct[a].mage + d, z.acct[a].seeds, z.acct[a].roots, z.acct[a].lastUpdate)
      /\ Totals(y, z.mage, z.seeds, z.roots)
    BY <1>3, <1>4, <1>5, PutMoves, Zenon
<1> QED
    BY <1>1, <1>6 DEF d

\* Mage, Roots and Seeds that an account gives or gets.
Shares(z, a, m, r) == [z EXCEPT !.acct[a].mage = m, !.acct[a].roots = r]

\* A transfer changes Mage and Roots of accounts, and no total.
LEMMA SharesMove ==
    ASSUME NEW z \in Silos, NEW a \in Accounts, NEW m \in Nat, NEW r \in Nat,
           NEW y, y = Shares(z, a, m, r)
    PROVE  /\ Moved(z, a, y, m, z.acct[a].seeds, r, z.acct[a].lastUpdate)
           /\ Totals(y, z.mage, z.seeds, z.roots)
<1> DEFINE x == SharesSet(z.acct[a], m, r)
<1>1. Put(z, z.mage, z.seeds, z.roots, z.rainRoots, a, x, y)
    BY DEF Silos, AccountStates, Put, SharesSet, Shares
<1>2. z.acct[a] \in AccountStates /\ z.mage \in Nat /\ z.seeds \in Nat /\ z.roots \in Nat
      /\ z.rainRoots \in Nat
    BY SilosHaveTypes
<1>3. SameBut(z.acct[a], x, m, z.acct[a].seeds, r, z.acct[a].lastUpdate)
    BY <1>2, SharesSetTypes
<1> HIDE DEF x
<1> QED
    BY <1>1, <1>2, <1>3, PutMoves, Zenon

SeedsOnly(z, a, s) == [z EXCEPT !.acct[a].seeds = s]

\* A transfer changes Seeds of accounts, and no total.
LEMMA SeedsMove ==
    ASSUME NEW z \in Silos, NEW a \in Accounts, NEW s \in Nat, NEW y, y = SeedsOnly(z, a, s)
    PROVE  /\ Moved(z, a, y, z.acct[a].mage, s, z.acct[a].roots, z.acct[a].lastUpdate)
           /\ Totals(y, z.mage, z.seeds, z.roots)
<1> DEFINE x == SeedsSet(z.acct[a], s)
<1>1. Put(z, z.mage, z.seeds, z.roots, z.rainRoots, a, x, y)
    BY DEF Silos, AccountStates, Put, SeedsSet, SeedsOnly
<1>2. z.acct[a] \in AccountStates /\ z.mage \in Nat /\ z.seeds \in Nat /\ z.roots \in Nat
      /\ z.rainRoots \in Nat
    BY SilosHaveTypes
<1>3. SameBut(z.acct[a], x, z.acct[a].mage, s, z.acct[a].roots, z.acct[a].lastUpdate)
    BY <1>2, SeedsSetTypes
<1> HIDE DEF x
<1> QED
    BY <1>1, <1>2, <1>3, PutMoves, Zenon

\* A sender gives no more Roots than it has.
LEMMA RootsSent ==
    ASSUME NEW z \in Silos, NEW a \in Accounts, NEW n \in Nat, CanTransferMage(z, a, n)
    PROVE  /\ SentRoots(z, a, n) \in Nat /\ SentRoots(z, a, n) <= z.acct[a].roots
           /\ n <= z.acct[a].mage
<1>1. z.roots \in Nat /\ z.mage \in Nat /\ z.acct[a].roots \in Nat
    BY SilosHaveTypes
<1>2. CASE n = z.acct[a].mage
    BY <1>1, <1>2 DEF SentRoots, CanTransferMage
<1>3. CASE n # z.acct[a].mage
  <2> DEFINE p == (z.roots - 1) * n
  <2>1. z.roots - 1 \in Nat /\ z.mage \in Nat \ {0}
      BY <1>1, <1>3 DEF CanTransferMage
  <2>2. p \in Nat
      BY <2>1
  <2>3. SentRoots(z, a, n) = p \div z.mage + 1
      BY <1>3 DEF SentRoots
  <2> HIDE DEF p
  <2>4. p \div z.mage \in Nat
      BY <2>1, <2>2, DivNat
  <2> QED
      BY <2>3, <2>4 DEF CanTransferMage
<1> QED
    BY <1>2, <1>3

\* z, what is left when a sender has given so much, and y.
SentMage(z, from, to, sent, y, n, r) ==
    /\ Moved(z, from, sent, z.acct[from].mage - n, z.acct[from].seeds,
             z.acct[from].roots - r, z.acct[from].lastUpdate)
    /\ Totals(sent, z.mage, z.seeds, z.roots)
    /\ Moved(sent, to, y, sent.acct[to].mage + n, sent.acct[to].seeds,
             sent.acct[to].roots + r, sent.acct[to].lastUpdate)
    /\ Totals(y, z.mage, z.seeds, z.roots)

\* transferMage: what one gives the other gets, or both are the same.
LEMMA MageTransferred ==
    ASSUME NEW z \in Silos, NEW from \in Accounts, NEW to \in Accounts, NEW n \in Nat,
           CanTransferMage(z, from, n), NEW y, y = TransferMage(z, from, to, n)
    PROVE  \E r \in Nat, sent \in Silos : SentMage(z, from, to, sent, y, n, r)
<1> DEFINE r == SentRoots(z, from, n)
           sent == Shares(z, from, z.acct[from].mage - n, z.acct[from].roots - r)
<1>1. r \in Nat /\ r <= z.acct[from].roots /\ n <= z.acct[from].mage
    BY RootsSent
<1>2. y = [[z EXCEPT !.acct[from].mage = @ - n, !.acct[from].roots = @ - r]
              EXCEPT !.acct[to].mage = @ + n, !.acct[to].roots = @ + r]
    BY Zenon DEF TransferMage
<1> HIDE DEF r
<1>3. sent = [z EXCEPT !.acct[from].mage = @ - n, !.acct[from].roots = @ - r]
    BY DEF Silos, AccountStates, Shares
<1>4. z.acct[from].mage - n \in Nat /\ z.acct[from].roots - r \in Nat
    BY <1>1, SilosHaveTypes
<1>5. Moved(z, from, sent, z.acct[from].mage - n, z.acct[from].seeds, z.acct[from].roots - r,
            z.acct[from].lastUpdate)
      /\ Totals(sent, z.mage, z.seeds, z.roots)
    BY <1>4, SharesMove
<1>6. sent \in Silos
    BY <1>5 DEF Moved
<1> HIDE DEF sent
<1>7. y = Shares(sent, to, sent.acct[to].mage + n, sent.acct[to].roots + r)
    BY <1>2, <1>3, <1>6 DEF Silos, AccountStates, Shares
<1>8. sent.acct[to].mage + n \in Nat /\ sent.acct[to].roots + r \in Nat
    BY <1>1, <1>6, SilosHaveTypes
<1>9. Moved(sent, to, y, sent.acct[to].mage + n, sent.acct[to].seeds, sent.acct[to].roots + r,
            sent.acct[to].lastUpdate)
      /\ Totals(y, sent.mage, sent.seeds, sent.roots)
    BY <1>6, <1>7, <1>8, SharesMove
<1>10. SentMage(z, from, to, sent, y, n, r)
    BY <1>5, <1>9 DEF SentMage, Totals
<1> QED
    BY <1>1, <1>6, <1>10

SentSeeds(z, from, to, sent, y, n) ==
    /\ Moved(z, from, sent, z.acct[from].mage, z.acct[from].seeds - n,
             z.acct[from].roots, z.acct[from].lastUpdate)
    /\ Totals(sent, z.mage, z.seeds, z.roots)
    /\ Moved(sent, to, y, sent.acct[to].mage, sent.acct[to].seeds + n,
             sent.acct[to].roots, sent.acct[to].lastUpdate)
    /\ Totals(y, z.mage, z.seeds, z.roots)

\* transferSeeds: what one gives the other gets, or both are the same.
LEMMA SeedsTransferred ==
    ASSUME NEW z \in Silos, NEW from \in Accounts, NEW to \in Accounts, NEW n \in Nat,
           n <= z.acct[from].seeds, NEW y, y = TransferSeeds(z, from, to, n)
    PROVE  \E sent \in Silos : SentSeeds(z, from, to, sent, y, n)
<1> DEFINE sent == SeedsOnly(z, from, z.acct[from].seeds - n)
<1>2. y = [[z EXCEPT !.acct[from].seeds = @ - n] EXCEPT !.acct[to].seeds = @ + n]
    BY Zenon DEF TransferSeeds
<1>3. sent = [z EXCEPT !.acct[from].seeds = @ - n]
    BY DEF Silos, AccountStates, SeedsOnly
<1>4. z.acct[from].seeds - n \in Nat
    BY SilosHaveTypes
<1>5. Moved(z, from, sent, z.acct[from].mage, z.acct[from].seeds - n, z.acct[from].roots,
            z.acct[from].lastUpdate)
      /\ Totals(sent, z.mage, z.seeds, z.roots)
    BY <1>4, SeedsMove
<1>6. sent \in Silos
    BY <1>5 DEF Moved
<1> HIDE DEF sent
<1>7. y = SeedsOnly(sent, to, sent.acct[to].seeds + n)
    BY <1>2, <1>3, <1>6 DEF Silos, AccountStates, SeedsOnly
<1>8. sent.acct[to].seeds + n \in Nat
    BY <1>6, SilosHaveTypes
<1>9. Moved(sent, to, y, sent.acct[to].mage, sent.acct[to].seeds + n, sent.acct[to].roots,
            sent.acct[to].lastUpdate)
      /\ Totals(y, sent.mage, sent.seeds, sent.roots)
    BY <1>6, <1>7, <1>8, SeedsMove
<1>10. SentSeeds(z, from, to, sent, y, n)
    BY <1>5, <1>9 DEF SentSeeds, Totals
<1> QED
    BY <1>6, <1>10

(***************************************************************************)
(* Updates                                                                 *)
(***************************************************************************)

\* y is z but for what account a is noted to have of Rain and Plenty.
Kept(z, a, y) ==
    /\ Moved(z, a, y, z.acct[a].mage, z.acct[a].seeds, z.acct[a].roots, z.acct[a].lastUpdate)
    /\ Totals(y, z.mage, z.seeds, z.roots)

\* Two changes of this kind are one.
LEMMA KeptTwice ==
    ASSUME NEW z, NEW a \in Accounts, NEW x, NEW y, Kept(z, a, x), Kept(x, a, y)
    PROVE  Kept(z, a, y)
BY DEF Kept, Moved, Totals

\* Other numbers of an account.
PlentySet(q, p, s)  == [q EXCEPT !.plenty = p, !.lastSop = s]
NoRainSet(q, s)     == [q EXCEPT !.lastSop = s, !.lastRain = 0]
LastRainSet(q, s)   == [q EXCEPT !.lastRain = s]
RainSet(q, s, r)    == [q EXCEPT !.lastRain = s, !.sopRoots = r]
PerRootSet(q, p)    == [q EXCEPT !.plentyPerRoot = p]

\* None of these is Mage, Seeds, Roots or the last update.
LEMMA AsideTypes ==
    ASSUME NEW q \in AccountStates, NEW p \in Nat, NEW s \in Seasons, NEW r \in Nat
    PROVE  /\ SameBut(q, PlentySet(q, p, s), q.mage, q.seeds, q.roots, q.lastUpdate)
           /\ SameBut(q, NoRainSet(q, s), q.mage, q.seeds, q.roots, q.lastUpdate)
           /\ SameBut(q, LastRainSet(q, s), q.mage, q.seeds, q.roots, q.lastUpdate)
           /\ SameBut(q, RainSet(q, s, r), q.mage, q.seeds, q.roots, q.lastUpdate)
           /\ SameBut(q, PerRootSet(q, p), q.mage, q.seeds, q.roots, q.lastUpdate)
<1>1. 0 \in Seasons
    BY SiloAssumption DEF Seasons
<1>2. SameBut(q, PlentySet(q, p, s), q.mage, q.seeds, q.roots, q.lastUpdate)
    BY DEF AccountStates, SameBut, PlentySet
<1>3. SameBut(q, NoRainSet(q, s), q.mage, q.seeds, q.roots, q.lastUpdate)
    BY <1>1 DEF AccountStates, SameBut, NoRainSet
<1>4. SameBut(q, LastRainSet(q, s), q.mage, q.seeds, q.roots, q.lastUpdate)
    BY DEF AccountStates, SameBut, LastRainSet
<1>5. SameBut(q, RainSet(q, s, r), q.mage, q.seeds, q.roots, q.lastUpdate)
    BY DEF AccountStates, SameBut, RainSet
<1>6. SameBut(q, PerRootSet(q, p), q.mage, q.seeds, q.roots, q.lastUpdate)
    BY DEF AccountStates, SameBut, PerRootSet
<1> QED
    BY <1>2, <1>3, <1>4, <1>5, <1>6

\* A silo with such an account is the same in Mage, Seeds and Roots.
LEMMA PutKeeps ==
    ASSUME NEW z \in Silos, NEW a \in Accounts, NEW q, NEW y,
           Put(z, z.mage, z.seeds, z.roots, z.rainRoots, a, q, y),
           SameBut(z.acct[a], q, z.acct[a].mage, z.acct[a].seeds, z.acct[a].roots,
                   z.acct[a].lastUpdate)
    PROVE  Kept(z, a, y)
<1>1. z.mage \in Nat /\ z.seeds \in Nat /\ z.roots \in Nat /\ z.rainRoots \in Nat
    BY SilosHaveTypes
<1>2. Moved(z, a, y, z.acct[a].mage, z.acct[a].seeds, z.acct[a].roots, z.acct[a].lastUpdate)
      /\ Totals(y, z.mage, z.seeds, z.roots)
    BY <1>1, PutMoves, Zenon
<1> QED
    BY <1>2 DEF Kept

\* Plenty is a natural number when LaterPPR is not negative.
LEMMA PlentyType ==
    ASSUME NEW z \in Silos, NEW k \in Clocks, NEW a \in Accounts, LaterPPR(z, k, a) >= 0
    PROVE  BalanceOfPlenty(z, k, a) \in Nat
<1>1. /\ k.lastSop \in Seasons /\ k.sops \in [Seasons -> Nat]
      /\ z.acct[a].lastSop \in Seasons /\ z.acct[a].lastRain \in Seasons
      /\ z.acct[a].sopRoots \in Nat /\ z.acct[a].plentyPerRoot \in Nat
      /\ z.acct[a].plenty \in Nat /\ z.acct[a].roots \in Nat
    BY SilosHaveTypes DEF Clocks
<1>2. PreviousPPR(z, k, a) \in Nat
    BY <1>1 DEF PreviousPPR
<1>3. RainPPR(z, k, a) \in Nat
  <2>1. k.sops[z.acct[a].lastRain] \in Nat
      BY <1>1
  <2> QED
      BY <1>2, <2>1 DEF RainPPR, Greater
<1>4. LaterPPR(z, k, a) \in Nat
  <2>1. k.sops[k.lastSop] \in Nat
      BY <1>1
  <2>2. LaterPPR(z, k, a) \in Int
      BY <1>2, <1>3, <2>1 DEF LaterPPR
  <2> QED
      BY <2>2
<1> DEFINE p == RainPPR(z, k, a) * z.acct[a].sopRoots
           q == LaterPPR(z, k, a) * z.acct[a].roots
<1>5. p \in Nat /\ q \in Nat
  <2>1. \A m, n \in Nat : m * n \in Nat
      OBVIOUS
  <2> QED
      BY <1>1, <1>3, <1>4, <2>1
<1>6. BalanceOfPlenty(z, k, a) = (z.acct[a].plenty + p \div SopPrecision) + q \div SopPrecision
    BY DEF BalanceOfPlenty
<1> HIDE DEF p, q
<1>7. p \div SopPrecision \in Nat /\ q \div SopPrecision \in Nat
    BY <1>5, DivNat, SiloAssumption
<1> QED
    BY <1>1, <1>6, <1>7

\* Plenty is noted, and nothing else.
LEMMA SopsHandled ==
    ASSUME NEW z \in Silos, NEW k \in Clocks, NEW a \in Accounts, LaterPPR(z, k, a) >= 0,
           NEW y, y = HandleSops(z, k, a)
    PROVE  Kept(z, a, y)
<1>1. z.acct[a] \in AccountStates /\ k.lastSop \in Seasons /\ BalanceOfPlenty(z, k, a) \in Nat
    BY SilosHaveTypes, PlentyType DEF Clocks
<1>2. CASE k.lastSopSeason > z.acct[a].lastUpdate
  <2> DEFINE p == BalanceOfPlenty(z, k, a)
             q == PlentySet(z.acct[a], p, k.lastSop)
  <2>1. y = [z EXCEPT !.acct[a].plenty = p, !.acct[a].lastSop = k.lastSop]
      BY <1>2 DEF HandleSops
  <2>2. p \in Nat
      BY <1>1
  <2> HIDE DEF p
  <2>3. Put(z, z.mage, z.seeds, z.roots, z.rainRoots, a, q, y)
      BY <2>1 DEF Silos, AccountStates, Put, PlentySet
  <2>4. SameBut(z.acct[a], q, z.acct[a].mage, z.acct[a].seeds, z.acct[a].roots,
                z.acct[a].lastUpdate)
      BY <1>1, <2>2, AsideTypes
  <2> HIDE DEF q
  <2> QED
      BY <2>3, <2>4, PutKeeps
<1>3. CASE ~(k.lastSopSeason > z.acct[a].lastUpdate)
  <2>1. y = z
      BY <1>3 DEF HandleSops
  <2> QED
      BY <2>1 DEF Kept, Moved, Totals
<1> QED
    BY <1>2, <1>3

\* A share of the Rain is noted, and nothing else.
LEMMA RainStarted ==
    ASSUME NEW z \in Silos, NEW k \in Clocks, NEW a \in Accounts, NEW y, y = StartRain(z, k, a)
    PROVE  Kept(z, a, y)
<1>1. z.acct[a] \in AccountStates /\ k.rainStart \in Seasons /\ z.acct[a].roots \in Nat
    BY SilosHaveTypes DEF Clocks
<1>2. CASE k.rainStart > z.acct[a].lastUpdate
  <2> DEFINE q == RainSet(z.acct[a], k.rainStart, z.acct[a].roots)
  <2>1. Put(z, z.mage, z.seeds, z.roots, z.rainRoots, a, q, y)
      BY <1>2 DEF Silos, AccountStates, Put, RainSet, StartRain
  <2>2. SameBut(z.acct[a], q, z.acct[a].mage, z.acct[a].seeds, z.acct[a].roots,
                z.acct[a].lastUpdate)
      BY <1>1, AsideTypes
  <2> HIDE DEF q
  <2> QED
      BY <2>1, <2>2, PutKeeps
<1>3. CASE ~(k.rainStart > z.acct[a].lastUpdate)
  <2>1. y = z
      BY <1>3 DEF StartRain
  <2> QED
      BY <2>1 DEF Kept, Moved, Totals
<1> QED
    BY <1>2, <1>3

\* The end of a Rain is noted, and nothing else.
LEMMA RainHandled ==
    ASSUME NEW z \in Silos, NEW k \in Clocks, NEW a \in Accounts, NEW y, y = HandleRain(z, k, a)
    PROVE  Kept(z, a, y)
<1>1. z.acct[a] \in AccountStates /\ k.lastSop \in Seasons /\ k.sops[k.lastSop] \in Nat
      /\ 0 \in Seasons
    BY SilosHaveTypes, SiloAssumption DEF Clocks, Seasons
<1>2. CASE ~k.raining
  <2> DEFINE q == LastRainSet(z.acct[a], 0)
  <2>1. Put(z, z.mage, z.seeds, z.roots, z.rainRoots, a, q, y)
      BY <1>2 DEF Silos, AccountStates, Put, LastRainSet, HandleRain
  <2>2. SameBut(z.acct[a], q, z.acct[a].mage, z.acct[a].seeds, z.acct[a].roots,
                z.acct[a].lastUpdate)
      BY <1>1, AsideTypes
  <2> HIDE DEF q
  <2> QED
      BY <2>1, <2>2, PutKeeps
<1>3. CASE k.raining
  <2> DEFINE x == StartRain(z, k, a)
             q == PerRootSet(x.acct[a], k.sops[k.lastSop])
  <2>1. Kept(z, a, x)
      BY RainStarted
  <2>2. x \in Silos /\ x.acct[a] \in AccountStates
      BY <2>1, SilosHaveTypes DEF Kept, Moved
  <2>3. CASE k.lastSop = k.rainStart
    <3>1. y = [x EXCEPT !.acct[a].plentyPerRoot = k.sops[k.lastSop]]
        BY <1>3, <2>3, Zenon DEF HandleRain
    <3> HIDE DEF x
    <3>2. Put(x, x.mage, x.seeds, x.roots, x.rainRoots, a, q, y)
        BY <2>2, <3>1 DEF Silos, AccountStates, Put, PerRootSet
    <3>3. SameBut(x.acct[a], q, x.acct[a].mage, x.acct[a].seeds, x.acct[a].roots,
                  x.acct[a].lastUpdate)
        BY <1>1, <2>2, AsideTypes
    <3> HIDE DEF q
    <3>4. Kept(x, a, y)
        BY <2>2, <3>2, <3>3, PutKeeps
    <3> QED
        BY <2>1, <3>4, KeptTwice
  <2>4. CASE k.lastSop # k.rainStart
    <3>1. y = x
        BY <1>3, <2>4 DEF HandleRain
    <3> QED
        BY <2>1, <3>1
  <2> QED
      BY <2>3, <2>4
<1> QED
    BY <1>2, <1>3

\* handleRainAndSops changes neither Mage nor Seeds nor Roots.
LEMMA RainAndSopsHandled ==
    ASSUME NEW z \in Silos, NEW k \in Clocks, NEW a \in Accounts,
           z.acct[a].roots > 0 => LaterPPR(z, k, a) >= 0,
           NEW y, y = HandleRainAndSops(z, k, a)
    PROVE  Kept(z, a, y)
<1>1. z.acct[a] \in AccountStates /\ k.rainStart \in Seasons /\ z.acct[a].roots \in Nat
    BY SilosHaveTypes DEF Clocks
<1>2. CASE z.acct[a].roots = 0
  <2> DEFINE q == NoRainSet(z.acct[a], k.rainStart)
  <2>1. Put(z, z.mage, z.seeds, z.roots, z.rainRoots, a, q, y)
      BY <1>2 DEF Silos, AccountStates, Put, NoRainSet, HandleRainAndSops
  <2>2. SameBut(z.acct[a], q, z.acct[a].mage, z.acct[a].seeds, z.acct[a].roots,
                z.acct[a].lastUpdate)
      BY <1>1, AsideTypes
  <2> HIDE DEF q
  <2> QED
      BY <2>1, <2>2, PutKeeps
<1>3. CASE z.acct[a].roots # 0
  <2> DEFINE x == HandleSops(z, k, a)
  <2>1. y = HandleRain(x, k, a)
      BY <1>3 DEF HandleRainAndSops
  <2>2. Kept(z, a, x)
      BY <1>1, <1>3, SopsHandled
  <2>3. x \in Silos
      BY <2>2 DEF Kept, Moved
  <2> HIDE DEF x
  <2>4. Kept(x, a, y)
      BY <2>1, <2>3, RainHandled
  <2> QED
      BY <2>2, <2>4, KeptTwice
<1> QED
    BY <1>2, <1>3

\* What Seeds have grown is a natural number.
LEMMA GrownTypes ==
    ASSUME NEW z \in Silos, NEW k \in Clocks, NEW a \in Accounts,
           z.acct[a].lastUpdate <= k.current
    PROVE  /\ GrownMage(z, k, a) \in Nat
           /\ z.acct[a].seeds = 0 \/ z.acct[a].lastUpdate = k.current => GrownMage(z, k, a) = 0
<1>1. z.acct[a].seeds \in Nat /\ z.acct[a].lastUpdate \in Nat /\ k.current \in Nat
    BY SilosHaveTypes, SiloAssumption DEF Clocks, Seasons
<1>2. k.current - z.acct[a].lastUpdate \in Nat
    BY <1>1
<1>3. \A m, n \in Nat : m * n \in Nat /\ m * 0 = 0 /\ 0 * n = 0
    OBVIOUS
<1> QED
    BY <1>1, <1>2, <1>3 DEF GrownMage

\* _update: an account gets the Mage its Seeds have grown, and Roots for it.
LEMMA AccountUpdated ==
    ASSUME NEW z \in Silos, NEW k \in Clocks, NEW a \in Accounts, CanUpdate(z, k, a),
           z.acct[a].lastUpdate <= k.current, NEW y, y = Updated(z, k, a)
    PROVE  \E r \in Nat :
              /\ Moved(z, a, y, z.acct[a].mage + GrownMage(z, k, a), z.acct[a].seeds,
                       z.acct[a].roots + r, k.current)
              /\ Totals(y, z.mage + GrownMage(z, k, a), z.seeds, z.roots + r)
<1> DEFINE g == GrownMage(z, k, a)
           Result(v, r, u) ==
               /\ Moved(z, a, v, z.acct[a].mage + g, z.acct[a].seeds, z.acct[a].roots + r, u)
               /\ Totals(v, z.mage + g, z.seeds, z.roots + r)
<1>1. z.acct[a].lastUpdate \in Nat /\ k.current \in Nat /\ k.current \in Seasons
      /\ z.acct[a].mage \in Nat /\ z.acct[a].roots \in Nat /\ z.acct[a].seeds \in Nat
      /\ z.mage \in Nat /\ z.roots \in Nat
  <2>1. k.current \in Seasons /\ k.current \in Nat
      BY SiloAssumption DEF Clocks, Seasons
  <2>2. /\ z.acct[a].lastUpdate \in Nat
        /\ z.acct[a].mage \in Nat /\ z.acct[a].roots \in Nat /\ z.acct[a].seeds \in Nat
        /\ z.mage \in Nat /\ z.roots \in Nat
      BY SilosHaveTypes, SiloAssumption, SMTT(60) DEF Seasons
  <2> QED
      BY <2>1, <2>2
<1>2. g \in Nat
    BY GrownTypes
<1>3. CASE z.acct[a].lastUpdate >= k.current
  <2>1. y = z /\ g = 0 /\ z.acct[a].lastUpdate = k.current
      BY <1>1, <1>3, GrownTypes DEF Updated
  <2> HIDE DEF g
  <2>2. Result(y, 0, k.current)
      BY <1>1, <2>1 DEF Moved, Totals
  <2> QED
      BY <2>2 DEF g
<1>4. CASE z.acct[a].lastUpdate < k.current
  <2> DEFINE x == HandleRainAndSops(z, k, a)
             w == EarnGrownMage(x, k, a)
  <2>1. Kept(z, a, x)
      BY <1>4, RainAndSopsHandled DEF CanUpdate
  <2>2. y = [w EXCEPT !.acct[a].lastUpdate = k.current]
    <3>1. ~(z.acct[a].lastUpdate >= k.current)
        BY <1>1, <1>4
    <3> QED
        BY <3>1, Zenon DEF Updated
  <2>3. x \in Silos /\ x.acct[a].mage = z.acct[a].mage /\ x.acct[a].seeds = z.acct[a].seeds
        /\ x.acct[a].roots = z.acct[a].roots /\ x.acct[a].lastUpdate = z.acct[a].lastUpdate
        /\ x.mage = z.mage /\ x.seeds = z.seeds /\ x.roots = z.roots
        /\ \A b \in Accounts : b # a => x.acct[b] = z.acct[b]
      BY <2>1 DEF Kept, Moved, Totals
  <2> HIDE DEF x
  <2>4. GrownMage(x, k, a) = g
      BY <2>3 DEF GrownMage
  <2>5. \E r \in Nat : Result(w, r, z.acct[a].lastUpdate)
    <3>1. CASE z.acct[a].seeds = 0
      <4>1. w = x /\ g = 0
          BY <2>3, <3>1, GrownTypes DEF EarnGrownMage
      <4> HIDE DEF w, g
      <4>2. Result(w, 0, z.acct[a].lastUpdate)
          BY <1>1, <2>3, <4>1 DEF Moved, Totals
      <4> QED
          BY <4>2
    <3>2. CASE z.acct[a].seeds # 0
      <4>1. w = IncrementMage(x, a, g)
          BY <2>3, <2>4, <3>2 DEF EarnGrownMage
      <4>2. CanIncrementMage(x)
          BY <1>1, <1>4, <2>3, <3>2 DEF CanUpdate, CanIncrementMage
      <4> HIDE DEF w, g
      <4> DEFINE r == NewRoots(x, g)
      <4>3. /\ r \in Nat
            /\ Moved(x, a, w, x.acct[a].mage + g, x.acct[a].seeds, x.acct[a].roots + r,
                     x.acct[a].lastUpdate)
            /\ Totals(w, x.mage + g, x.seeds, x.roots + r)
          BY <1>2, <2>3, <4>1, <4>2, MageUp
      <4> HIDE DEF r
      <4>4. Result(w, r, z.acct[a].lastUpdate)
          BY <2>3, <4>3 DEF Moved, Totals
      <4> QED
          BY <4>3, <4>4
    <3> QED
        BY <3>1, <3>2
  <2>6. PICK r \in Nat : Result(w, r, z.acct[a].lastUpdate)
      BY <2>5
  <2>7. w \in Silos /\ w.acct[a].mage = z.acct[a].mage + g /\ w.acct[a].seeds = z.acct[a].seeds
        /\ w.acct[a].roots = z.acct[a].roots + r
        /\ w.mage = z.mage + g /\ w.seeds = z.seeds /\ w.roots = z.roots + r
        /\ \A b \in Accounts : b # a => w.acct[b] = z.acct[b]
      BY <2>6 DEF Moved, Totals
  <2> HIDE DEF w, g
  <2> DEFINE q == UpdateSet(w.acct[a], k.current)
  <2>8. Put(w, w.mage, w.seeds, w.roots, w.rainRoots, a, q, y)
      BY <2>2, <2>7 DEF Silos, AccountStates, Put, UpdateSet
  <2>9. w.acct[a] \in AccountStates /\ w.mage \in Nat /\ w.seeds \in Nat /\ w.roots \in Nat
        /\ w.rainRoots \in Nat
      BY <2>7, SilosHaveTypes
  <2>10. SameBut(w.acct[a], q, w.acct[a].mage, w.acct[a].seeds, w.acct[a].roots, k.current)
      BY <1>1, <2>9, UpdateSetTypes
  <2> HIDE DEF q
  <2>11. Moved(w, a, y, w.acct[a].mage, w.acct[a].seeds, w.acct[a].roots, k.current)
         /\ Totals(y, w.mage, w.seeds, w.roots)
      BY <2>7, <2>8, <2>9, <2>10, PutMoves, Zenon
  <2>12. Result(y, r, k.current)
      BY <2>7, <2>11 DEF Moved, Totals
  <2> QED
      BY <2>6, <2>12 DEF g
<1> QED
    BY <1>1, <1>3, <1>4

(***************************************************************************)
(* The sums over accounts                                                  *)
(***************************************************************************)
MageIn(z)  == Sum([a \in Accounts |-> z.acct[a].mage])
SeedsIn(z) == Sum([a \in Accounts |-> z.acct[a].seeds])
RootsIn(z) == Sum([a \in Accounts |-> z.acct[a].roots])

\* When one account changes, the sums change as it does.
LEMMA SumsMoved ==
    ASSUME NEW z \in Silos, NEW a \in Accounts, NEW y,
           NEW m, NEW s, NEW r, NEW u, Moved(z, a, y, m, s, r, u)
    PROVE  /\ MageIn(z) \in Nat /\ SeedsIn(z) \in Nat /\ RootsIn(z) \in Nat
           /\ MageIn(y) \in Nat /\ SeedsIn(y) \in Nat /\ RootsIn(y) \in Nat
           /\ m \in Nat /\ s \in Nat /\ r \in Nat
           /\ MageIn(y) = (MageIn(z) - z.acct[a].mage) + m
           /\ SeedsIn(y) = (SeedsIn(z) - z.acct[a].seeds) + s
           /\ RootsIn(y) = (RootsIn(z) - z.acct[a].roots) + r
<1>1. y \in Silos /\ y.acct[a].mage = m /\ y.acct[a].seeds = s /\ y.acct[a].roots = r
      /\ \A b \in Accounts : b # a => y.acct[b] = z.acct[b]
    BY DEF Moved
<1>2. \A b \in Accounts :
         /\ z.acct[b].mage \in Nat /\ z.acct[b].seeds \in Nat /\ z.acct[b].roots \in Nat
         /\ y.acct[b].mage \in Nat /\ y.acct[b].seeds \in Nat /\ y.acct[b].roots \in Nat
    BY <1>1, SilosHaveTypes
<1> DEFINE f1 == [b \in Accounts |-> z.acct[b].mage]
           g1 == [b \in Accounts |-> y.acct[b].mage]
           f2 == [b \in Accounts |-> z.acct[b].seeds]
           g2 == [b \in Accounts |-> y.acct[b].seeds]
           f3 == [b \in Accounts |-> z.acct[b].roots]
           g3 == [b \in Accounts |-> y.acct[b].roots]
<1>3. /\ f1 \in [Accounts -> Nat] /\ g1 \in [Accounts -> Nat]
      /\ \A b \in Accounts : b # a => g1[b] = f1[b]
      /\ f1[a] = z.acct[a].mage /\ g1[a] = m
    BY <1>1, <1>2
<1>4. /\ f2 \in [Accounts -> Nat] /\ g2 \in [Accounts -> Nat]
      /\ \A b \in Accounts : b # a => g2[b] = f2[b]
      /\ f2[a] = z.acct[a].seeds /\ g2[a] = s
    BY <1>1, <1>2
<1>5. /\ f3 \in [Accounts -> Nat] /\ g3 \in [Accounts -> Nat]
      /\ \A b \in Accounts : b # a => g3[b] = f3[b]
      /\ f3[a] = z.acct[a].roots /\ g3[a] = r
    BY <1>1, <1>2
<1>6. /\ MageIn(z) = Sum(f1) /\ MageIn(y) = Sum(g1)
      /\ SeedsIn(z) = Sum(f2) /\ SeedsIn(y) = Sum(g2)
      /\ RootsIn(z) = Sum(f3) /\ RootsIn(y) = Sum(g3)
    BY DEF MageIn, SeedsIn, RootsIn
<1>7. IsFiniteSet(Accounts)
    BY SiloAssumption
<1> HIDE DEF f1, g1, f2, g2, f3, g3
<1>8. Sum(f1) \in Nat /\ Sum(g1) \in Nat /\ Sum(g1) = (Sum(f1) - f1[a]) + g1[a]
    BY <1>3, <1>7, SumOfOne
<1>9. Sum(f2) \in Nat /\ Sum(g2) \in Nat /\ Sum(g2) = (Sum(f2) - f2[a]) + g2[a]
    BY <1>4, <1>7, SumOfOne
<1>10. Sum(f3) \in Nat /\ Sum(g3) \in Nat /\ Sum(g3) = (Sum(f3) - f3[a]) + g3[a]
    BY <1>5, <1>7, SumOfOne
<1>11. m \in Nat /\ s \in Nat /\ r \in Nat
    BY <1>1, <1>2
<1> QED
    BY <1>3, <1>4, <1>5, <1>6, <1>8, <1>9, <1>10, <1>11

\* The totals are the sums over the accounts, but for the Mage e of earned Moons.
Balanced(z, e) ==
    /\ z \in Silos
    /\ z.mage = MageIn(z) + e /\ z.seeds = SeedsIn(z) /\ z.roots = RootsIn(z)

\* Account a has so much more Mage and Seeds, and was updated at u.
Gains(z, a, y, dm, ds, u) ==
    /\ \A b \in Accounts : b # a => y.acct[b] = z.acct[b]
    /\ y.acct[a].mage = z.acct[a].mage + dm
    /\ y.acct[a].seeds = z.acct[a].seeds + ds
    /\ y.acct[a].lastUpdate = u

\* A balanced silo has no less than any of its accounts.
LEMMA AccountInTotals ==
    ASSUME NEW e \in Nat, NEW z, Balanced(z, e), NEW a \in Accounts
    PROVE  z.acct[a].mage + e <= z.mage /\ z.acct[a].seeds <= z.seeds
           /\ z.acct[a].roots <= z.roots
<1>1. z \in Silos /\ z.mage = MageIn(z) + e /\ z.seeds = SeedsIn(z) /\ z.roots = RootsIn(z)
    BY DEF Balanced
<1> DEFINE f == [b \in Accounts |-> z.acct[b].mage]
           g == [b \in Accounts |-> z.acct[b].seeds]
           h == [b \in Accounts |-> z.acct[b].roots]
<1>2. f \in [Accounts -> Nat] /\ g \in [Accounts -> Nat] /\ h \in [Accounts -> Nat]
      /\ f[a] = z.acct[a].mage /\ g[a] = z.acct[a].seeds /\ h[a] = z.acct[a].roots
    BY <1>1, SilosHaveTypes
<1>3. MageIn(z) = Sum(f) /\ SeedsIn(z) = Sum(g) /\ RootsIn(z) = Sum(h)
    BY DEF MageIn, SeedsIn, RootsIn
<1>4. IsFiniteSet(Accounts)
    BY SiloAssumption
<1> HIDE DEF f, g, h
<1>5. Sum(f) \in Nat /\ f[a] <= Sum(f)
    BY <1>2, <1>4, SumOfOne
<1>6. Sum(g) \in Nat /\ g[a] <= Sum(g)
    BY <1>2, <1>4, SumOfOne
<1>7. Sum(h) \in Nat /\ h[a] <= Sum(h)
    BY <1>2, <1>4, SumOfOne
<1>8. z.acct[a].mage \in Nat
    BY <1>1, SilosHaveTypes
<1> QED
    BY <1>1, <1>2, <1>3, <1>5, <1>6, <1>7, <1>8

\* An update leaves the totals the sums.
LEMMA UpdateBalanced ==
    ASSUME NEW e \in Nat, NEW z, Balanced(z, e), NEW k \in Clocks, NEW a \in Accounts,
           CanUpdate(z, k, a), z.acct[a].lastUpdate <= k.current, NEW y, y = Updated(z, k, a)
    PROVE  Balanced(y, e) /\ Gains(z, a, y, GrownMage(z, k, a), 0, k.current)
<1>1. z \in Silos /\ z.mage = MageIn(z) + e /\ z.seeds = SeedsIn(z) /\ z.roots = RootsIn(z)
    BY DEF Balanced
<1> DEFINE g == GrownMage(z, k, a)
<1>2. PICK r \in Nat :
         /\ Moved(z, a, y, z.acct[a].mage + g, z.acct[a].seeds, z.acct[a].roots + r, k.current)
         /\ Totals(y, z.mage + g, z.seeds, z.roots + r)
    BY <1>1, AccountUpdated
<1>3. g \in Nat
    BY <1>1, GrownTypes
<1> HIDE DEF g
<1>4. /\ MageIn(z) \in Nat /\ SeedsIn(z) \in Nat /\ RootsIn(z) \in Nat
      /\ MageIn(y) = (MageIn(z) - z.acct[a].mage) + (z.acct[a].mage + g)
      /\ SeedsIn(y) = (SeedsIn(z) - z.acct[a].seeds) + z.acct[a].seeds
      /\ RootsIn(y) = (RootsIn(z) - z.acct[a].roots) + (z.acct[a].roots + r)
    BY <1>1, <1>2, SumsMoved
<1>5. z.acct[a].mage \in Nat /\ z.acct[a].seeds \in Nat /\ z.acct[a].roots \in Nat
    BY <1>1, SilosHaveTypes
<1>6. y.mage = z.mage + g /\ y.seeds = z.seeds /\ y.roots = z.roots + r /\ y \in Silos
    BY <1>2 DEF Totals, Moved
<1>7. Balanced(y, e)
  <2>1. MageIn(y) = MageIn(z) + g /\ SeedsIn(y) = SeedsIn(z) /\ RootsIn(y) = RootsIn(z) + r
      BY <1>2, <1>3, <1>4, <1>5
  <2> QED
      BY <1>1, <1>2, <1>3, <1>4, <1>6, <2>1 DEF Balanced
<1>8. Gains(z, a, y, g, 0, k.current)
    BY <1>2, <1>5 DEF Moved, Gains
<1> QED
    BY <1>7, <1>8 DEF g

\* depositSiloAssets leaves the totals the sums.
LEMMA DepositBalanced ==
    ASSUME NEW e \in Nat, NEW z, Balanced(z, e), NEW a \in Accounts, NEW s \in Nat, NEW m \in Nat,
           CanIncrementMage(z), NEW y, y = DepositSiloAssets(z, a, s, m)
    PROVE  Balanced(y, e) /\ Gains(z, a, y, m, s, z.acct[a].lastUpdate)
<1>1. z \in Silos /\ z.mage = MageIn(z) + e /\ z.seeds = SeedsIn(z) /\ z.roots = RootsIn(z)
    BY DEF Balanced
<1> DEFINE r == NewRoots(z, m)
           x == IncrementMage(z, a, m)
<1>2. /\ r \in Nat
      /\ Moved(z, a, x, z.acct[a].mage + m, z.acct[a].seeds, z.acct[a].roots + r,
               z.acct[a].lastUpdate)
      /\ Totals(x, z.mage + m, z.seeds, z.roots + r)
    BY <1>1, MageUp
<1>3. y = IncrementSeeds(x, a, s)
    BY DEF DepositSiloAssets
<1> HIDE DEF r, x
<1>4. x \in Silos /\ x.acct[a].mage = z.acct[a].mage + m /\ x.acct[a].seeds = z.acct[a].seeds
      /\ x.acct[a].roots = z.acct[a].roots + r /\ x.acct[a].lastUpdate = z.acct[a].lastUpdate
      /\ x.mage = z.mage + m /\ x.seeds = z.seeds /\ x.roots = z.roots + r
      /\ \A b \in Accounts : b # a => x.acct[b] = z.acct[b]
    BY <1>2 DEF Moved, Totals
<1>5. /\ Moved(x, a, y, x.acct[a].mage, x.acct[a].seeds + s, x.acct[a].roots, x.acct[a].lastUpdate)
      /\ Totals(y, x.mage, x.seeds + s, x.roots)
    BY <1>3, <1>4, SeedsUp
<1>6. Moved(z, a, y, z.acct[a].mage + m, z.acct[a].seeds + s, z.acct[a].roots + r,
            z.acct[a].lastUpdate)
      /\ Totals(y, z.mage + m, z.seeds + s, z.roots + r)
    BY <1>4, <1>5 DEF Moved, Totals
<1>7. /\ MageIn(z) \in Nat /\ SeedsIn(z) \in Nat /\ RootsIn(z) \in Nat
      /\ MageIn(y) = (MageIn(z) - z.acct[a].mage) + (z.acct[a].mage + m)
      /\ SeedsIn(y) = (SeedsIn(z) - z.acct[a].seeds) + (z.acct[a].seeds + s)
      /\ RootsIn(y) = (RootsIn(z) - z.acct[a].roots) + (z.acct[a].roots + r)
    BY <1>1, <1>6, SumsMoved
<1>8. z.acct[a].mage \in Nat /\ z.acct[a].seeds \in Nat /\ z.acct[a].roots \in Nat
    BY <1>1, SilosHaveTypes
<1>9. y.mage = z.mage + m /\ y.seeds = z.seeds + s /\ y.roots = z.roots + r /\ y \in Silos
    BY <1>6 DEF Totals, Moved
<1>10. Balanced(y, e)
  <2>1. MageIn(y) = MageIn(z) + m /\ SeedsIn(y) = SeedsIn(z) + s /\ RootsIn(y) = RootsIn(z) + r
      BY <1>2, <1>7, <1>8
  <2> QED
      BY <1>1, <1>2, <1>7, <1>9, <2>1 DEF Balanced
<1> QED
    BY <1>6, <1>10 DEF Moved, Gains

\* withdrawSiloAssets, for Mage m and Seeds s.
LEMMA WithdrawBalanced ==
    ASSUME NEW e \in Nat, NEW z, Balanced(z, e), NEW k \in Clocks, NEW a \in Accounts,
           NEW s \in Nat, NEW m \in Nat,
           CanDecrementMage(z, k, a, m), CanDecrementSeeds(z, a, s),
           NEW y, y = DecrementSeeds(DecrementMage(z, k, a, m), a, s)
    PROVE  Balanced(y, e) /\ Gains(z, a, y, -m, -s, z.acct[a].lastUpdate)
<1>1. z \in Silos /\ z.mage = MageIn(z) + e /\ z.seeds = SeedsIn(z) /\ z.roots = RootsIn(z)
    BY DEF Balanced
<1> DEFINE r == LostRoots(z, a, m)
           x == DecrementMage(z, k, a, m)
<1>2. /\ r \in Nat
      /\ Moved(z, a, x, z.acct[a].mage - m, z.acct[a].seeds, z.acct[a].roots - r,
               z.acct[a].lastUpdate)
      /\ Totals(x, z.mage - m, z.seeds, z.roots - r)
    BY <1>1, MageDown
<1> HIDE DEF r, x
<1>4. x \in Silos /\ x.acct[a].mage = z.acct[a].mage - m /\ x.acct[a].seeds = z.acct[a].seeds
      /\ x.acct[a].roots = z.acct[a].roots - r /\ x.acct[a].lastUpdate = z.acct[a].lastUpdate
      /\ x.mage = z.mage - m /\ x.seeds = z.seeds /\ x.roots = z.roots - r
      /\ \A b \in Accounts : b # a => x.acct[b] = z.acct[b]
    BY <1>2 DEF Moved, Totals
<1>3. y = DecrementSeeds(x, a, s) /\ CanDecrementSeeds(x, a, s)
    BY <1>4 DEF CanDecrementSeeds, x
<1>5. /\ Moved(x, a, y, x.acct[a].mage, x.acct[a].seeds - s, x.acct[a].roots, x.acct[a].lastUpdate)
      /\ Totals(y, x.mage, x.seeds - s, x.roots)
    BY <1>3, <1>4, SeedsDown
<1>6. Moved(z, a, y, z.acct[a].mage - m, z.acct[a].seeds - s, z.acct[a].roots - r,
            z.acct[a].lastUpdate)
      /\ Totals(y, z.mage - m, z.seeds - s, z.roots - r)
    BY <1>4, <1>5 DEF Moved, Totals
<1>7. /\ MageIn(z) \in Nat /\ SeedsIn(z) \in Nat /\ RootsIn(z) \in Nat
      /\ MageIn(y) = (MageIn(z) - z.acct[a].mage) + (z.acct[a].mage - m)
      /\ SeedsIn(y) = (SeedsIn(z) - z.acct[a].seeds) + (z.acct[a].seeds - s)
      /\ RootsIn(y) = (RootsIn(z) - z.acct[a].roots) + (z.acct[a].roots - r)
    BY <1>1, <1>6, SumsMoved
<1>8. z.acct[a].mage \in Nat /\ z.acct[a].seeds \in Nat /\ z.acct[a].roots \in Nat
    BY <1>1, SilosHaveTypes
<1>9. y.mage = z.mage - m /\ y.seeds = z.seeds - s /\ y.roots = z.roots - r /\ y \in Silos
    BY <1>6 DEF Totals, Moved
<1>10. Balanced(y, e)
  <2>1. MageIn(y) = MageIn(z) - m /\ SeedsIn(y) = SeedsIn(z) - s /\ RootsIn(y) = RootsIn(z) - r
      BY <1>2, <1>7, <1>8
  <2>2. z.mage - m = MageIn(y) + e
      BY <1>1, <1>7, <2>1
  <2> QED
      BY <1>1, <1>2, <1>7, <1>9, <2>1, <2>2 DEF Balanced
<1>11. z.acct[a].mage - m = z.acct[a].mage + (-m) /\ z.acct[a].seeds - s = z.acct[a].seeds + (-s)
    BY <1>8
<1> QED
    BY <1>6, <1>10, <1>11 DEF Moved, Gains

\* plant: the Mage of the planted Moons was among all Mage.
LEMMA PlantBalanced ==
    ASSUME NEW e \in Nat, NEW z, Balanced(z, e), NEW a \in Accounts, NEW s \in Nat, NEW n \in Nat,
           n * MagePerMoon <= e,
           NEW y, y = PlantedMage(IncrementSeeds(z, a, s), a, n)
    PROVE  Balanced(y, e - n * MagePerMoon)
           /\ Gains(z, a, y, n * MagePerMoon, s, z.acct[a].lastUpdate)
<1>1. z \in Silos /\ z.mage = MageIn(z) + e /\ z.seeds = SeedsIn(z) /\ z.roots = RootsIn(z)
    BY DEF Balanced
<1> DEFINE x == IncrementSeeds(z, a, s)
           d == n * MagePerMoon
<1>2. /\ Moved(z, a, x, z.acct[a].mage, z.acct[a].seeds + s, z.acct[a].roots, z.acct[a].lastUpdate)
      /\ Totals(x, z.mage, z.seeds + s, z.roots)
    BY <1>1, SeedsUp
<1>3. y = PlantedMage(x, a, n)
    OBVIOUS
<1> HIDE DEF x
<1>4. x \in Silos /\ x.acct[a].mage = z.acct[a].mage /\ x.acct[a].seeds = z.acct[a].seeds + s
      /\ x.acct[a].roots = z.acct[a].roots /\ x.acct[a].lastUpdate = z.acct[a].lastUpdate
      /\ x.mage = z.mage /\ x.seeds = z.seeds + s /\ x.roots = z.roots
      /\ \A b \in Accounts : b # a => x.acct[b] = z.acct[b]
    BY <1>2 DEF Moved, Totals
<1>5. /\ d \in Nat
      /\ Moved(x, a, y, x.acct[a].mage + d, x.acct[a].seeds, x.acct[a].roots, x.acct[a].lastUpdate)
      /\ Totals(y, x.mage, x.seeds, x.roots)
    BY <1>3, <1>4, MagePlanted
<1>6. d <= e
    OBVIOUS
<1> HIDE DEF d
<1>7. Moved(z, a, y, z.acct[a].mage + d, z.acct[a].seeds + s, z.acct[a].roots,
            z.acct[a].lastUpdate)
      /\ Totals(y, z.mage, z.seeds + s, z.roots)
    BY <1>4, <1>5 DEF Moved, Totals
<1>8. /\ MageIn(z) \in Nat /\ SeedsIn(z) \in Nat /\ RootsIn(z) \in Nat
      /\ MageIn(y) = (MageIn(z) - z.acct[a].mage) + (z.acct[a].mage + d)
      /\ SeedsIn(y) = (SeedsIn(z) - z.acct[a].seeds) + (z.acct[a].seeds + s)
      /\ RootsIn(y) = (RootsIn(z) - z.acct[a].roots) + z.acct[a].roots
    BY <1>1, <1>7, SumsMoved
<1>9. z.acct[a].mage \in Nat /\ z.acct[a].seeds \in Nat /\ z.acct[a].roots \in Nat
    BY <1>1, SilosHaveTypes
<1>10. y.mage = z.mage /\ y.seeds = z.seeds + s /\ y.roots = z.roots /\ y \in Silos
    BY <1>7 DEF Totals, Moved
<1>11. Balanced(y, e - d)
  <2>1. MageIn(y) = MageIn(z) + d /\ SeedsIn(y) = SeedsIn(z) + s /\ RootsIn(y) = RootsIn(z)
      BY <1>5, <1>8, <1>9
  <2>2. z.mage = MageIn(y) + (e - d)
      BY <1>1, <1>5, <1>8, <2>1
  <2> QED
      BY <1>1, <1>8, <1>10, <2>1, <2>2 DEF Balanced
<1> QED
    BY <1>7, <1>11 DEF Moved, Gains, d

\* y is z after one account gave another so much Mage and Seeds.
Gives(z, from, to, y, m, s) ==
    \A b \in Accounts :
        /\ y.acct[b].mage = (z.acct[b].mage - (IF b = from THEN m ELSE 0))
                              + (IF b = to THEN m ELSE 0)
        /\ y.acct[b].seeds = (z.acct[b].seeds - (IF b = from THEN s ELSE 0))
                              + (IF b = to THEN s ELSE 0)
        /\ y.acct[b].lastUpdate = z.acct[b].lastUpdate

\* transferMage leaves the totals the sums.
LEMMA MageGiven ==
    ASSUME NEW e \in Nat, NEW z, Balanced(z, e), NEW from \in Accounts, NEW to \in Accounts,
           NEW m \in Nat, CanTransferMage(z, from, m), NEW y, y = TransferMage(z, from, to, m)
    PROVE  Balanced(y, e) /\ Gives(z, from, to, y, m, 0)
<1>1. z \in Silos /\ z.mage = MageIn(z) + e /\ z.seeds = SeedsIn(z) /\ z.roots = RootsIn(z)
    BY DEF Balanced
<1>2. PICK r \in Nat, sent \in Silos : SentMage(z, from, to, sent, y, m, r)
    BY <1>1, MageTransferred
<1>3. /\ Moved(z, from, sent, z.acct[from].mage - m, z.acct[from].seeds,
               z.acct[from].roots - r, z.acct[from].lastUpdate)
      /\ Totals(sent, z.mage, z.seeds, z.roots)
    BY <1>2 DEF SentMage
<1>4. /\ Moved(sent, to, y, sent.acct[to].mage + m, sent.acct[to].seeds,
               sent.acct[to].roots + r, sent.acct[to].lastUpdate)
      /\ Totals(y, z.mage, z.seeds, z.roots)
    BY <1>2 DEF SentMage
<1>5. /\ MageIn(z) \in Nat /\ SeedsIn(z) \in Nat /\ RootsIn(z) \in Nat
      /\ MageIn(sent) = (MageIn(z) - z.acct[from].mage) + (z.acct[from].mage - m)
      /\ SeedsIn(sent) = (SeedsIn(z) - z.acct[from].seeds) + z.acct[from].seeds
      /\ RootsIn(sent) = (RootsIn(z) - z.acct[from].roots) + (z.acct[from].roots - r)
    BY <1>1, <1>3, SumsMoved
<1>6. /\ MageIn(sent) \in Nat /\ SeedsIn(sent) \in Nat /\ RootsIn(sent) \in Nat
      /\ MageIn(y) = (MageIn(sent) - sent.acct[to].mage) + (sent.acct[to].mage + m)
      /\ SeedsIn(y) = (SeedsIn(sent) - sent.acct[to].seeds) + sent.acct[to].seeds
      /\ RootsIn(y) = (RootsIn(sent) - sent.acct[to].roots) + (sent.acct[to].roots + r)
    BY <1>2, <1>4, SumsMoved
<1>7. /\ z.acct[from].mage \in Nat /\ z.acct[from].seeds \in Nat /\ z.acct[from].roots \in Nat
      /\ sent.acct[to].mage \in Nat /\ sent.acct[to].seeds \in Nat /\ sent.acct[to].roots \in Nat
    BY <1>1, <1>2, SilosHaveTypes
<1>8. MageIn(y) = MageIn(z) /\ SeedsIn(y) = SeedsIn(z) /\ RootsIn(y) = RootsIn(z)
    BY <1>2, <1>5, <1>6, <1>7
<1>9. Balanced(y, e)
    BY <1>1, <1>4, <1>8 DEF Balanced, Totals, Moved
<1>10. Gives(z, from, to, y, m, 0)
  <2> SUFFICES ASSUME NEW b \in Accounts
               PROVE  /\ y.acct[b].mage = (z.acct[b].mage - (IF b = from THEN m ELSE 0))
                                            + (IF b = to THEN m ELSE 0)
                      /\ y.acct[b].seeds = z.acct[b].seeds
                      /\ y.acct[b].lastUpdate = z.acct[b].lastUpdate
      BY <1>1, SilosHaveTypes DEF Gives
  <2>1. z.acct[b].mage \in Nat /\ z.acct[b].seeds \in Nat
      BY <1>1, SilosHaveTypes
  <2>2. sent.acct[b].mage = z.acct[b].mage - (IF b = from THEN m ELSE 0)
        /\ sent.acct[b].seeds = z.acct[b].seeds /\ sent.acct[b].lastUpdate = z.acct[b].lastUpdate
      BY <1>3, <2>1 DEF Moved
  <2>3. sent.acct[b].mage \in Nat
      BY <1>2, SilosHaveTypes
  <2>4. y.acct[b].mage = sent.acct[b].mage + (IF b = to THEN m ELSE 0)
        /\ y.acct[b].seeds = sent.acct[b].seeds /\ y.acct[b].lastUpdate = sent.acct[b].lastUpdate
      BY <1>4, <2>3 DEF Moved
  <2> QED
      BY <2>2, <2>4
<1> QED
    BY <1>9, <1>10

\* transferSeeds leaves the totals the sums.
LEMMA SeedsGiven ==
    ASSUME NEW e \in Nat, NEW z, Balanced(z, e), NEW from \in Accounts, NEW to \in Accounts,
           NEW s \in Nat, s <= z.acct[from].seeds, NEW y, y = TransferSeeds(z, from, to, s)
    PROVE  Balanced(y, e) /\ Gives(z, from, to, y, 0, s)
<1>1. z \in Silos /\ z.mage = MageIn(z) + e /\ z.seeds = SeedsIn(z) /\ z.roots = RootsIn(z)
    BY DEF Balanced
<1>2. PICK sent \in Silos : SentSeeds(z, from, to, sent, y, s)
    BY <1>1, SeedsTransferred
<1>3. /\ Moved(z, from, sent, z.acct[from].mage, z.acct[from].seeds - s,
               z.acct[from].roots, z.acct[from].lastUpdate)
      /\ Totals(sent, z.mage, z.seeds, z.roots)
    BY <1>2 DEF SentSeeds
<1>4. /\ Moved(sent, to, y, sent.acct[to].mage, sent.acct[to].seeds + s,
               sent.acct[to].roots, sent.acct[to].lastUpdate)
      /\ Totals(y, z.mage, z.seeds, z.roots)
    BY <1>2 DEF SentSeeds
<1>5. /\ MageIn(z) \in Nat /\ SeedsIn(z) \in Nat /\ RootsIn(z) \in Nat
      /\ MageIn(sent) = (MageIn(z) - z.acct[from].mage) + z.acct[from].mage
      /\ SeedsIn(sent) = (SeedsIn(z) - z.acct[from].seeds) + (z.acct[from].seeds - s)
      /\ RootsIn(sent) = (RootsIn(z) - z.acct[from].roots) + z.acct[from].roots
    BY <1>1, <1>3, SumsMoved
<1>6. /\ MageIn(sent) \in Nat /\ SeedsIn(sent) \in Nat /\ RootsIn(sent) \in Nat
      /\ MageIn(y) = (MageIn(sent) - sent.acct[to].mage) + sent.acct[to].mage
      /\ SeedsIn(y) = (SeedsIn(sent) - sent.acct[to].seeds) + (sent.acct[to].seeds + s)
      /\ RootsIn(y) = (RootsIn(sent) - sent.acct[to].roots) + sent.acct[to].roots
    BY <1>2, <1>4, SumsMoved
<1>7. /\ z.acct[from].mage \in Nat /\ z.acct[from].seeds \in Nat /\ z.acct[from].roots \in Nat
      /\ sent.acct[to].mage \in Nat /\ sent.acct[to].seeds \in Nat /\ sent.acct[to].roots \in Nat
    BY <1>1, <1>2, SilosHaveTypes
<1>8. MageIn(y) = MageIn(z) /\ SeedsIn(y) = SeedsIn(z) /\ RootsIn(y) = RootsIn(z)
    BY <1>2, <1>5, <1>6, <1>7
<1>9. Balanced(y, e)
    BY <1>1, <1>4, <1>8 DEF Balanced, Totals, Moved
<1>10. Gives(z, from, to, y, 0, s)
  <2> SUFFICES ASSUME NEW b \in Accounts
               PROVE  /\ y.acct[b].seeds = (z.acct[b].seeds - (IF b = from THEN s ELSE 0))
                                            + (IF b = to THEN s ELSE 0)
                      /\ y.acct[b].mage = z.acct[b].mage
                      /\ y.acct[b].lastUpdate = z.acct[b].lastUpdate
      BY <1>1, SilosHaveTypes DEF Gives
  <2>1. z.acct[b].mage \in Nat /\ z.acct[b].seeds \in Nat
      BY <1>1, SilosHaveTypes
  <2>2. sent.acct[b].seeds = z.acct[b].seeds - (IF b = from THEN s ELSE 0)
        /\ sent.acct[b].mage = z.acct[b].mage /\ sent.acct[b].lastUpdate = z.acct[b].lastUpdate
      BY <1>3, <2>1 DEF Moved
  <2>3. sent.acct[b].seeds \in Nat
      BY <1>2, SilosHaveTypes
  <2>4. y.acct[b].seeds = sent.acct[b].seeds + (IF b = to THEN s ELSE 0)
        /\ y.acct[b].mage = sent.acct[b].mage /\ y.acct[b].lastUpdate = sent.acct[b].lastUpdate
      BY <1>4, <2>3 DEF Moved
  <2> QED
      BY <2>2, <2>4
<1> QED
    BY <1>9, <1>10

\* A transfer of Deposits gives Mage, then Seeds.
LEMMA TransferBalanced ==
    ASSUME NEW e \in Nat, NEW z, Balanced(z, e), NEW from \in Accounts, NEW to \in Accounts,
           NEW m \in Nat, NEW s \in Nat, CanTransferMage(z, from, m), s <= z.acct[from].seeds,
           NEW y, y = TransferSeeds(TransferMage(z, from, to, m), from, to, s)
    PROVE  Balanced(y, e) /\ Gives(z, from, to, y, m, s)
<1> DEFINE x == TransferMage(z, from, to, m)
<1>1. Balanced(x, e) /\ Gives(z, from, to, x, m, 0)
    BY MageGiven
<1>2. y = TransferSeeds(x, from, to, s)
    OBVIOUS
<1> HIDE DEF x
<1>3. x.acct[from].seeds = z.acct[from].seeds
    BY <1>1, SilosHaveTypes DEF Gives, Balanced
<1>4. Balanced(y, e) /\ Gives(x, from, to, y, 0, s)
    BY <1>1, <1>2, <1>3, SeedsGiven
<1>5. z \in Silos /\ x \in Silos /\ y \in Silos
    BY <1>1, <1>4 DEF Balanced
<1>6. Gives(z, from, to, y, m, s)
  <2> SUFFICES ASSUME NEW b \in Accounts
               PROVE  /\ y.acct[b].mage = (z.acct[b].mage - (IF b = from THEN m ELSE 0))
                                            + (IF b = to THEN m ELSE 0)
                      /\ y.acct[b].seeds = (z.acct[b].seeds - (IF b = from THEN s ELSE 0))
                                            + (IF b = to THEN s ELSE 0)
                      /\ y.acct[b].lastUpdate = z.acct[b].lastUpdate
      BY DEF Gives
  <2>1. /\ z.acct[b].mage \in Nat /\ z.acct[b].seeds \in Nat
        /\ x.acct[b].mage \in Nat /\ x.acct[b].seeds \in Nat
      BY <1>5, SilosHaveTypes
  <2>2. /\ x.acct[b].mage = (z.acct[b].mage - (IF b = from THEN m ELSE 0))
                               + (IF b = to THEN m ELSE 0)
        /\ x.acct[b].seeds = z.acct[b].seeds
        /\ x.acct[b].lastUpdate = z.acct[b].lastUpdate
      BY <1>1, <2>1 DEF Gives
  <2>3. /\ y.acct[b].mage = x.acct[b].mage
        /\ y.acct[b].seeds = (x.acct[b].seeds - (IF b = from THEN s ELSE 0))
                                + (IF b = to THEN s ELSE 0)
        /\ y.acct[b].lastUpdate = x.acct[b].lastUpdate
      BY <1>4, <2>1 DEF Gives
  <2> QED
      BY <2>2, <2>3
<1> QED
    BY <1>4, <1>6

\* claimPlenty leaves what an account has of Mage and Seeds.
LEMMA ClaimBalanced ==
    ASSUME NEW e \in Nat, NEW z, Balanced(z, e), NEW a \in Accounts,
           NEW y, y = [z EXCEPT !.acct[a].plenty = 0]
    PROVE  Balanced(y, e) /\ Gains(z, a, y, 0, 0, z.acct[a].lastUpdate)
<1>1. z \in Silos /\ z.mage = MageIn(z) + e /\ z.seeds = SeedsIn(z) /\ z.roots = RootsIn(z)
    BY DEF Balanced
<1> DEFINE q == PlentySet(z.acct[a], 0, z.acct[a].lastSop)
<1>2. Put(z, z.mage, z.seeds, z.roots, z.rainRoots, a, q, y)
    BY <1>1 DEF Silos, AccountStates, Put, PlentySet
<1>3. SameBut(z.acct[a], q, z.acct[a].mage, z.acct[a].seeds, z.acct[a].roots,
              z.acct[a].lastUpdate)
    BY <1>1, SilosHaveTypes, AsideTypes
<1> HIDE DEF q
<1>4. Kept(z, a, y)
    BY <1>1, <1>2, <1>3, PutKeeps
<1>5. Moved(z, a, y, z.acct[a].mage, z.acct[a].seeds, z.acct[a].roots, z.acct[a].lastUpdate)
      /\ Totals(y, z.mage, z.seeds, z.roots)
    BY <1>4 DEF Kept
<1>6. /\ MageIn(z) \in Nat /\ SeedsIn(z) \in Nat /\ RootsIn(z) \in Nat
      /\ MageIn(y) = (MageIn(z) - z.acct[a].mage) + z.acct[a].mage
      /\ SeedsIn(y) = (SeedsIn(z) - z.acct[a].seeds) + z.acct[a].seeds
      /\ RootsIn(y) = (RootsIn(z) - z.acct[a].roots) + z.acct[a].roots
    BY <1>1, <1>5, SumsMoved
<1>7. z.acct[a].mage \in Nat /\ z.acct[a].seeds \in Nat /\ z.acct[a].roots \in Nat
    BY <1>1, SilosHaveTypes
<1>8. MageIn(y) = MageIn(z) /\ SeedsIn(y) = SeedsIn(z) /\ RootsIn(y) = RootsIn(z)
    BY <1>6, <1>7
<1>9. Balanced(y, e)
    BY <1>1, <1>5, <1>8 DEF Balanced, Totals, Moved
<1>10. Gains(z, a, y, 0, 0, z.acct[a].lastUpdate)
    BY <1>5, <1>7 DEF Moved, Gains
<1> QED
    BY <1>9, <1>10

\* A sunrise adds the Mage of earned Moons, and no account changes.
LEMMA SunriseBalanced ==
    ASSUME NEW e \in Nat, NEW z, Balanced(z, e), NEW x,
           x = z \/ x = [z EXCEPT !.rainRoots = z.roots],
           NEW n \in Nat, NEW y, y = RewardToSilo(x, n)
    PROVE  /\ n * MagePerMoon \in Nat
           /\ Balanced(y, e + n * MagePerMoon) /\ y.acct = z.acct
<1>1. z \in Silos /\ z.mage = MageIn(z) + e /\ z.seeds = SeedsIn(z) /\ z.roots = RootsIn(z)
    BY DEF Balanced
<1> DEFINE d == n * MagePerMoon
<1>2. d \in Nat
    BY SiloAssumption
<1>3. y = [x EXCEPT !.mage = @ + d]
    BY DEF RewardToSilo
<1> HIDE DEF d
<1>4. x \in Silos /\ x.acct = z.acct /\ x.mage = z.mage /\ x.seeds = z.seeds /\ x.roots = z.roots
    BY <1>1 DEF Silos
<1>5. y \in Silos /\ y.acct = z.acct /\ y.mage = z.mage + d /\ y.seeds = z.seeds
      /\ y.roots = z.roots
    BY <1>2, <1>3, <1>4 DEF Silos
<1>6. MageIn(y) = MageIn(z) /\ SeedsIn(y) = SeedsIn(z) /\ RootsIn(y) = RootsIn(z)
    BY <1>5 DEF MageIn, SeedsIn, RootsIn
<1>7. MageIn(z) \in Nat
  <2> DEFINE f == [b \in Accounts |-> z.acct[b].mage]
  <2>1. f \in [Accounts -> Nat] /\ IsFiniteSet(Accounts)
      BY <1>1, SilosHaveTypes, SiloAssumption
  <2> HIDE DEF f
  <2>2. Sum(f) \in Nat
      BY <2>1, SumType
  <2> QED
      BY <2>2 DEF MageIn, f
<1>8. Balanced(y, e + d)
    BY <1>1, <1>2, <1>5, <1>6, <1>7 DEF Balanced
<1> QED
    BY <1>2, <1>5, <1>8 DEF d

(***************************************************************************)
(* Deposits                                                                *)
(***************************************************************************)
OneDeposit == [amount : Nat, bdv : Nat]
AllDeposits == [Accounts -> [Tokens -> [Seasons -> OneDeposit]]]

\* Between d and e, account a got these amounts of token, and these BDVs, at
\* the Seasons S.
Plus(d, e, a, token, S, crates, bdvs) ==
    /\ d \in AllDeposits /\ e \in AllDeposits /\ S \in SUBSET Seasons
    /\ crates \in [S -> Nat] /\ bdvs \in [S -> Nat]
    /\ \A b \in Accounts, t \in Tokens : b # a \/ t # token => e[b][t] = d[b][t]
    /\ \A s \in Seasons :
          /\ e[a][token][s].amount = d[a][token][s].amount + (IF s \in S THEN crates[s] ELSE 0)
          /\ e[a][token][s].bdv = d[a][token][s].bdv + (IF s \in S THEN bdvs[s] ELSE 0)

\* Deposits of which those of one account and token are others.
Row(d, a, token, row) == [d EXCEPT ![a][token] = row]

\* They are Deposits, and all others are the same.
LEMMA RowTypes ==
    ASSUME NEW d \in AllDeposits, NEW a \in Accounts, NEW token \in Tokens,
           NEW row \in [Seasons -> OneDeposit], NEW e, e = Row(d, a, token, row)
    PROVE  /\ e \in AllDeposits /\ e[a][token] = row
           /\ \A b \in Accounts, t \in Tokens : b # a \/ t # token => e[b][t] = d[b][t]
<1>1. e \in AllDeposits
    BY DEF Row, AllDeposits
<1>2. d[a] \in [Tokens -> [Seasons -> OneDeposit]]
    BY DEF AllDeposits
<1>3. e[a] = [d[a] EXCEPT ![token] = row]
    BY DEF Row, AllDeposits
<1>4. \A b \in Accounts : b # a => e[b] = d[b]
    BY DEF Row, AllDeposits
<1> QED
    BY <1>1, <1>2, <1>3, <1>4

\* The Seasons of an account and a token have Deposits.
LEMMA RowOf ==
    ASSUME NEW d \in AllDeposits, NEW a \in Accounts, NEW token \in Tokens
    PROVE  /\ d[a][token] \in [Seasons -> OneDeposit]
           /\ \A s \in Seasons : d[a][token][s].amount \in Nat /\ d[a][token][s].bdv \in Nat
BY DEF AllDeposits, OneDeposit

\* addDepositToAccount, for several Seasons.
LEMMA DepositsAreAdded ==
    ASSUME NEW d \in AllDeposits, NEW a \in Accounts, NEW token \in Tokens,
           NEW S \in SUBSET Seasons, NEW crates \in [S -> Nat], NEW bdvs \in [S -> Nat],
           NEW e, e = AddDeposits(d, a, token, crates, bdvs)
    PROVE  Plus(d, e, a, token, S, crates, bdvs)
<1> DEFINE old == d[a][token]
           row == [s \in Seasons |->
                      IF s \in S
                      THEN [amount |-> old[s].amount + crates[s], bdv |-> old[s].bdv + bdvs[s]]
                      ELSE old[s]]
<1>1. old \in [Seasons -> OneDeposit]
      /\ \A s \in Seasons : old[s].amount \in Nat /\ old[s].bdv \in Nat
    BY RowOf
<1>2. e = Row(d, a, token, row)
    BY DEF AddDeposits, Row, AllDeposits
<1> HIDE DEF old
<1>3. row \in [Seasons -> OneDeposit]
    BY <1>1 DEF OneDeposit
<1>4. \A s \in Seasons : /\ row[s].amount = old[s].amount + (IF s \in S THEN crates[s] ELSE 0)
                         /\ row[s].bdv = old[s].bdv + (IF s \in S THEN bdvs[s] ELSE 0)
    BY <1>1
<1> HIDE DEF row
<1>5. /\ e \in AllDeposits /\ e[a][token] = row
      /\ \A b \in Accounts, t \in Tokens : b # a \/ t # token => e[b][t] = d[b][t]
    BY <1>2, <1>3, RowTypes
<1> QED
    BY <1>4, <1>5 DEF Plus, old

\* addDepositToAccount, for one Season.
LEMMA DepositIsAdded ==
    ASSUME NEW d \in AllDeposits, NEW a \in Accounts, NEW token \in Tokens,
           NEW s \in Seasons, NEW n \in Nat, NEW m \in Nat,
           NEW e, e = AddDeposit(d, a, token, s, n, m)
    PROVE  Plus(d, e, a, token, {s}, Single(s, n), Single(s, m))
<1> DEFINE old == d[a][token]
           one == [amount |-> old[s].amount + n, bdv |-> old[s].bdv + m]
           row == [old EXCEPT ![s] = one]
<1>1. old \in [Seasons -> OneDeposit]
      /\ \A x \in Seasons : old[x].amount \in Nat /\ old[x].bdv \in Nat
    BY RowOf
<1>2. e = Row(d, a, token, row)
    BY DEF AddDeposit, Row, AllDeposits
<1> HIDE DEF old
<1>3. one \in OneDeposit /\ one.amount = old[s].amount + n /\ one.bdv = old[s].bdv + m
    BY <1>1 DEF OneDeposit
<1> HIDE DEF one
<1>4. row \in [Seasons -> OneDeposit] /\ row[s] = one
      /\ \A x \in Seasons : x # s => row[x] = old[x]
    BY <1>1, <1>3
<1> HIDE DEF row
<1>5. /\ e \in AllDeposits /\ e[a][token] = row
      /\ \A b \in Accounts, t \in Tokens : b # a \/ t # token => e[b][t] = d[b][t]
    BY <1>2, <1>4, RowTypes
<1>6. \A x \in Seasons :
         /\ row[x].amount = old[x].amount + (IF x \in {s} THEN Single(s, n)[x] ELSE 0)
         /\ row[x].bdv = old[x].bdv + (IF x \in {s} THEN Single(s, m)[x] ELSE 0)
    BY <1>1, <1>3, <1>4 DEF Single
<1>7. {s} \in SUBSET Seasons /\ Single(s, n) \in [{s} -> Nat]
      /\ Single(s, m) \in [{s} -> Nat]
    BY DEF Single
<1> QED
    BY <1>5, <1>6, <1>7 DEF Plus, old

\* What is taken out of a Deposit is not more than it has.
LEMMA RemovedBdvTypes ==
    ASSUME NEW q \in OneDeposit, NEW n \in Nat, n <= q.amount
    PROVE  RemovedBdv(q, n) \in Nat /\ RemovedBdv(q, n) <= q.bdv
           /\ (n = q.amount => RemovedBdv(q, n) = q.bdv)
<1>1. q.amount \in Nat /\ q.bdv \in Nat
    BY DEF OneDeposit
<1>2. CASE n < q.amount
  <2> DEFINE p == n * q.bdv
  <2>1. p \in Nat /\ p <= q.amount * q.bdv
      BY <1>1, ProductMonotone
  <2>2. q.amount \in Nat \ {0}
      BY <1>1, <1>2
  <2>3. RemovedBdv(q, n) = p \div q.amount
      BY <1>2 DEF RemovedBdv
  <2> HIDE DEF p
  <2>4. p \div q.amount \in Nat /\ p \div q.amount <= q.bdv
      BY <1>1, <2>1, <2>2, QuotientBound
  <2> QED
      BY <1>1, <1>2, <2>3, <2>4
<1>3. CASE ~(n < q.amount)
    BY <1>1, <1>3 DEF RemovedBdv
<1> QED
    BY <1>2, <1>3

\* removeDepositFromAccount, for several Seasons: a Deposit of which nothing
\* is left has no BDV left.
LEMMA DepositsAreRemoved ==
    ASSUME deposits \in AllDeposits, NEW a \in Accounts, NEW token \in Tokens,
           NEW S \in SUBSET Seasons, NEW crates \in [S -> Nat], CanRemove(a, token, crates),
           NEW e, e = RemoveDeposits(a, token, crates)
    PROVE  /\ Plus(e, deposits, a, token, S, crates, BdvsOf(a, token, crates))
           /\ \A s \in Seasons :
                 \/ e[a][token][s] = deposits[a][token][s] /\ s \notin S
                 \/ e[a][token][s].amount # 0
                 \/ e[a][token][s].bdv = 0
<1> DEFINE old == deposits[a][token]
           bdvs == BdvsOf(a, token, crates)
           row == [s \in Seasons |->
                      IF s \in S
                      THEN [amount |-> old[s].amount - crates[s],
                            bdv |-> old[s].bdv - RemovedBdv(old[s], crates[s])]
                      ELSE old[s]]
<1>1. old \in [Seasons -> OneDeposit]
      /\ \A s \in Seasons : old[s].amount \in Nat /\ old[s].bdv \in Nat /\ old[s] \in OneDeposit
    BY RowOf
<1>2. e = Row(deposits, a, token, row)
    BY DEF RemoveDeposits, Row, AllDeposits
<1>3. \A s \in S : crates[s] \in Nat /\ crates[s] <= old[s].amount
    BY DEF CanRemove
<1>4. bdvs = [s \in S |-> RemovedBdv(old[s], crates[s])]
    BY DEF BdvsOf
<1> HIDE DEF old, bdvs
<1>5. \A s \in S : /\ RemovedBdv(old[s], crates[s]) \in Nat
                   /\ RemovedBdv(old[s], crates[s]) <= old[s].bdv
                   /\ (crates[s] = old[s].amount => RemovedBdv(old[s], crates[s]) = old[s].bdv)
    BY <1>1, <1>3, RemovedBdvTypes
<1>6. bdvs \in [S -> Nat]
      /\ \A s \in S : bdvs[s] \in Nat /\ bdvs[s] <= old[s].bdv
                      /\ (crates[s] = old[s].amount => bdvs[s] = old[s].bdv)
    BY <1>4, <1>5
<1>7. \A s \in S : row[s] = [amount |-> old[s].amount - crates[s], bdv |-> old[s].bdv - bdvs[s]]
    BY <1>4
<1>8. \A s \in Seasons \ S : row[s] = old[s]
    OBVIOUS
<1>9. \A s \in S : row[s].amount = old[s].amount - crates[s] /\ row[s].bdv = old[s].bdv - bdvs[s]
                   /\ row[s].amount \in Nat /\ row[s].bdv \in Nat /\ row[s] \in OneDeposit
  <2> SUFFICES ASSUME NEW s \in S
               PROVE  /\ row[s].amount = old[s].amount - crates[s]
                      /\ row[s].bdv = old[s].bdv - bdvs[s]
                      /\ row[s].amount \in Nat /\ row[s].bdv \in Nat /\ row[s] \in OneDeposit
      OBVIOUS
  <2> DEFINE n == old[s].amount - crates[s]
             m == old[s].bdv - bdvs[s]
  <2>1. n \in Nat /\ m \in Nat
      BY <1>1, <1>3, <1>6
  <2>2. row[s] = [amount |-> n, bdv |-> m]
      BY <1>7
  <2> HIDE DEF n, m, row
  <2>3. row[s] \in OneDeposit /\ row[s].amount = n /\ row[s].bdv = m
      BY <2>1, <2>2 DEF OneDeposit
  <2> QED
      BY <2>1, <2>3 DEF n, m
<1>10. row \in [Seasons -> OneDeposit]
    BY <1>1, <1>8, <1>9
<1> HIDE DEF row
<1>11. /\ e \in AllDeposits /\ e[a][token] = row
       /\ \A b \in Accounts, t \in Tokens : b # a \/ t # token => e[b][t] = deposits[b][t]
    BY <1>2, <1>10, RowTypes
<1>12. \A s \in Seasons :
         /\ old[s].amount = row[s].amount + (IF s \in S THEN crates[s] ELSE 0)
         /\ old[s].bdv = row[s].bdv + (IF s \in S THEN bdvs[s] ELSE 0)
    BY <1>1, <1>3, <1>6, <1>8, <1>9
<1>13. \A b \in Accounts, t \in Tokens : b # a \/ t # token => deposits[b][t] = e[b][t]
    BY <1>11
<1>14. Plus(e, deposits, a, token, S, crates, bdvs)
  <2>1. \A s \in Seasons :
           /\ deposits[a][token][s].amount
                = e[a][token][s].amount + (IF s \in S THEN crates[s] ELSE 0)
           /\ deposits[a][token][s].bdv
                = e[a][token][s].bdv + (IF s \in S THEN bdvs[s] ELSE 0)
      BY <1>11, <1>12 DEF old
  <2> QED
      BY <1>6, <1>11, <1>13, <2>1, Zenon DEF Plus
<1>15. \A s \in S : row[s].amount # 0 \/ row[s].bdv = 0
  <2> SUFFICES ASSUME NEW s \in S, row[s].amount = 0
               PROVE  row[s].bdv = 0
      OBVIOUS
  <2>1. /\ old[s].amount \in Nat /\ old[s].bdv \in Nat /\ crates[s] \in Nat /\ bdvs[s] \in Nat
        /\ row[s].amount = old[s].amount - crates[s] /\ row[s].bdv = old[s].bdv - bdvs[s]
      BY <1>1, <1>3, <1>6, <1>9
  <2>2. bdvs[s] = old[s].bdv
      BY <1>6, <2>1
  <2> QED
      BY <2>1, <2>2
<1> QED
    BY <1>8, <1>11, <1>14, <1>15 DEF old, bdvs

(***************************************************************************)
(* Sums of Deposits                                                        *)
(***************************************************************************)
Places == Accounts \X Seasons

\* The sets that sums are over are finite.
LEMMA FiniteSets ==
    IsFiniteSet(Seasons) /\ IsFiniteSet(Places) /\ IsFiniteSet(Accounts) /\ IsFiniteSet(Tokens)
<1>1. IsFiniteSet(Seasons)
    BY SiloAssumption, FS_Interval DEF Seasons
<1> QED
    BY <1>1, SiloAssumption, FS_Product DEF Places

\* What accounts have at some Seasons, as a sum over places.
LEMMA SumAtPlaces ==
    ASSUME NEW a \in Accounts, NEW S \in SUBSET Seasons, NEW f \in [S -> Nat]
    PROVE  Sum([p \in {a} \X S |-> f[p[2]]]) = Sum(f) /\ Sum(f) \in Nat
<1> DEFINE T == {a} \X S
           e == [s \in S |-> <<a, s>>]
           g == [p \in T |-> f[p[2]]]
<1>1. IsFiniteSet(S) /\ IsFiniteSet(T)
  <2>1. IsFiniteSet(S)
      BY FiniteSets, FS_Subset
  <2> QED
      BY <2>1, FS_Singleton, FS_Product
<1>2. e \in Injection(S, T)
    BY DEF Injection, IsInjective
<1>3. g \in [T -> Nat]
    OBVIOUS
<1>4. \A y \in T : \E x \in S : y = e[x]
    OBVIOUS
<1>5. f = [x \in S |-> g[e[x]]]
    OBVIOUS
<1> HIDE DEF T, e, g
<1>6. Sum(g) = Sum([x \in S |-> g[e[x]]])
    BY <1>1, <1>2, <1>3, <1>4, SumAt
<1>7. Sum(f) \in Nat
  <2>1. IsFiniteSet(DOMAIN f) /\ \A x \in DOMAIN f : f[x] \in Nat
      BY <1>1
  <2> QED
      BY <2>1, SumType
<1> QED
    BY <1>5, <1>6, <1>7 DEF g, T

AmountsIn(d, token) == Sum([p \in Accounts \X Seasons |-> d[p[1]][token][p[2]].amount])

\* All accounts have n more of a token in e than in d.
AmountsGrow(d, e, token, n) ==
    /\ n \in Nat
    /\ \A t \in Tokens : /\ AmountsIn(d, t) \in Nat
                          /\ AmountsIn(e, t) = AmountsIn(d, t) + (IF t = token THEN n ELSE 0)

\* What all accounts have of a token grows by the crates that one gets.
LEMMA PlusAmounts ==
    ASSUME NEW d, NEW e, NEW a \in Accounts, NEW token \in Tokens, NEW S, NEW crates, NEW bdvs,
           Plus(d, e, a, token, S, crates, bdvs)
    PROVE  AmountsGrow(d, e, token, Sum(crates))
<1>1. /\ d \in AllDeposits /\ e \in AllDeposits /\ S \in SUBSET Seasons /\ crates \in [S -> Nat]
      /\ \A b \in Accounts, t \in Tokens : b # a \/ t # token => e[b][t] = d[b][t]
      /\ \A s \in Seasons :
            e[a][token][s].amount = d[a][token][s].amount + (IF s \in S THEN crates[s] ELSE 0)
    BY Zenon DEF Plus
<1> DEFINE F(x, t) == [p \in Places |-> x[p[1]][t][p[2]].amount]
<1>2. \A x \in AllDeposits, t \in Tokens : F(x, t) \in [Places -> Nat]
  <2> SUFFICES ASSUME NEW x \in AllDeposits, NEW t \in Tokens, NEW p \in Places
               PROVE  x[p[1]][t][p[2]].amount \in Nat
      OBVIOUS
  <2>1. p[1] \in Accounts /\ p[2] \in Seasons
      BY DEF Places
  <2> QED
      BY <2>1, RowOf
<1>3. \A x, t : AmountsIn(x, t) = Sum(F(x, t))
    BY Zenon DEF AmountsIn, Places
<1>4. Sum(crates) \in Nat
    BY <1>1, SumAtPlaces
<1>5. ASSUME NEW t \in Tokens, t # token
      PROVE  AmountsIn(d, t) \in Nat /\ AmountsIn(e, t) = AmountsIn(d, t)
  <2>1. F(e, t) = F(d, t)
      BY <1>1, <1>5 DEF Places
  <2>2. F(d, t) \in [Places -> Nat]
      BY <1>1, <1>2
  <2> HIDE DEF F
  <2>3. IsFiniteSet(DOMAIN F(d, t)) /\ \A p \in DOMAIN F(d, t) : F(d, t)[p] \in Nat
      BY <2>2, FiniteSets
  <2>4. Sum(F(d, t)) \in Nat
      BY <2>3, SumType
  <2> QED
      BY <1>3, <2>1, <2>4
<1>6. AmountsIn(d, token) \in Nat /\ AmountsIn(e, token) = AmountsIn(d, token) + Sum(crates)
  <2> DEFINE f == F(d, token)
             g == F(e, token)
             T == {a} \X S
             h == [p \in T |-> crates[p[2]]]
  <2>1. f \in [Places -> Nat] /\ g \in [Places -> Nat]
      BY <1>1, <1>2
  <2>2. T \in SUBSET Places /\ h \in [T -> Nat]
      BY <1>1 DEF Places
  <2>3. \A p \in Places : g[p] = f[p] + (IF p \in T THEN h[p] ELSE 0)
    <3> SUFFICES ASSUME NEW b \in Accounts, NEW s \in Seasons
                 PROVE  e[b][token][s].amount
                          = d[b][token][s].amount
                              + (IF b = a /\ s \in S THEN crates[s] ELSE 0)
        BY <1>1 DEF Places
    <3>1. d[b][token][s].amount \in Nat
        BY <1>1, RowOf
    <3> QED
        BY <1>1, <3>1
  <2>4. Sum(h) = Sum(crates)
      BY <1>1, SumAtPlaces
  <2> HIDE DEF f, g, h, T
  <2>5. Sum(g) = Sum(f) + Sum(h) /\ Sum(f) \in Nat
      BY <2>1, <2>2, <2>3, FiniteSets, SumAdded
  <2>6. AmountsIn(d, token) = Sum(f) /\ AmountsIn(e, token) = Sum(g)
      BY <1>3 DEF f, g
  <2> QED
      BY <2>4, <2>5, <2>6
<1> HIDE DEF F
<1> QED
    BY <1>4, <1>5, <1>6 DEF AmountsGrow

\* The BDV of an account's Deposits of a token by Season.
BdvIn(d, a, token) == [s \in Seasons |-> d[a][token][s].bdv]

\* What so much BDV of each Season has grown, when u is the current Season.
Growth(token, f, u) == [s \in DOMAIN f |-> f[s] * TokenSeeds[token] * (u - s)]

MageAt(token, f, u) == Sum(f) * TokenMage[token] + Sum(Growth(token, f, u))

\* No BDV is of a Season after u.
Early(f, u) == \A s \in DOMAIN f : s > u => f[s] = 0

\* What BDV has grown are natural numbers.
LEMMA GrowthTypes ==
    ASSUME NEW token \in Tokens, NEW u \in Nat, NEW S \in SUBSET Seasons, NEW f \in [S -> Nat],
           Early(f, u)
    PROVE  /\ Growth(token, f, u) \in [S -> Nat]
           /\ TokenSeeds[token] \in Nat /\ TokenMage[token] \in Nat
<1>1. TokenSeeds[token] \in Nat /\ TokenMage[token] \in Nat
    BY SiloAssumption
<1>2. ASSUME NEW s \in S PROVE f[s] * TokenSeeds[token] * (u - s) \in Nat
  <2>1. s \in Nat /\ f[s] \in Nat
      BY DEF Seasons
  <2>2. \A m, n \in Nat : m * n \in Nat
      OBVIOUS
  <2>3. CASE s <= u
    <3>1. u - s \in Nat /\ f[s] * TokenSeeds[token] \in Nat
        BY <1>1, <2>1, <2>2, <2>3
    <3> QED
        BY <2>2, <3>1
  <2>4. CASE s > u
    <3>1. f[s] = 0 /\ u - s \in Int
        BY <2>1, <2>4 DEF Early
    <3>2. 0 * TokenSeeds[token] = 0
        BY <1>1
    <3>3. 0 * (u - s) = 0
        BY <3>1
    <3> QED
        BY <3>1, <3>2, <3>3
  <2> QED
      BY <2>1, <2>3, <2>4
<1> QED
    BY <1>1, <1>2 DEF Growth

\* A sum over Seasons is a natural number.
LEMMA SeasonsSum ==
    ASSUME NEW S \in SUBSET Seasons, NEW f \in [S -> Nat]
    PROVE  Sum(f) \in Nat
<1>1. IsFiniteSet(DOMAIN f) /\ \A x \in DOMAIN f : f[x] \in Nat
    BY FiniteSets, FS_Subset
<1> QED
    BY <1>1, SumType

\* The Mage of BDV is a natural number.
LEMMA MageAtTypes ==
    ASSUME NEW token \in Tokens, NEW u \in Nat, NEW S \in SUBSET Seasons, NEW f \in [S -> Nat],
           Early(f, u)
    PROVE  /\ MageAt(token, f, u) \in Nat
           /\ Sum(f) \in Nat /\ Sum(f) * TokenSeeds[token] \in Nat
<1>1. Growth(token, f, u) \in [S -> Nat] /\ TokenSeeds[token] \in Nat /\ TokenMage[token] \in Nat
    BY GrowthTypes
<1>2. Sum(f) \in Nat /\ Sum(Growth(token, f, u)) \in Nat
    BY <1>1, SeasonsSum
<1>3. \A m, n \in Nat : m * n \in Nat
    OBVIOUS
<1>4. Sum(f) * TokenMage[token] \in Nat /\ Sum(f) * TokenSeeds[token] \in Nat
    BY <1>1, <1>2, <1>3
<1> QED
    BY <1>2, <1>4 DEF MageAt

\* g has at S what f and h have.
Joins(f, S, h, g) ==
    /\ S \in SUBSET Seasons /\ f \in [Seasons -> Nat] /\ g \in [Seasons -> Nat]
    /\ h \in [S -> Nat]
    /\ \A s \in Seasons : g[s] = f[s] + (IF s \in S THEN h[s] ELSE 0)

\* The sum of what is joined.
LEMMA JoinedSum ==
    ASSUME NEW S, NEW f, NEW g, NEW h, Joins(f, S, h, g)
    PROVE  Sum(f) \in Nat /\ Sum(h) \in Nat /\ Sum(g) = Sum(f) + Sum(h)
<1>1. /\ S \in SUBSET Seasons /\ f \in [Seasons -> Nat] /\ g \in [Seasons -> Nat]
      /\ h \in [S -> Nat]
      /\ \A s \in Seasons : g[s] = f[s] + (IF s \in S THEN h[s] ELSE 0)
    BY DEF Joins
<1>2. IsFiniteSet(Seasons)
    BY FiniteSets
<1> QED
    BY <1>1, <1>2, SumAdded

\* More BDV has more Mage.
LEMMA MageAdded ==
    ASSUME NEW token \in Tokens, NEW u \in Nat, NEW S, NEW f, NEW g, NEW h,
           Joins(f, S, h, g), Early(g, u)
    PROVE  /\ Early(f, u) /\ Early(h, u)
           /\ Sum(f) \in Nat /\ Sum(h) \in Nat /\ Sum(g) = Sum(f) + Sum(h)
           /\ MageAt(token, f, u) \in Nat /\ MageAt(token, h, u) \in Nat
           /\ MageAt(token, g, u) = MageAt(token, f, u) + MageAt(token, h, u)
           /\ Sum(Growth(token, g, u))
                 = Sum(Growth(token, f, u)) + Sum(Growth(token, h, u))
<1>1. /\ S \in SUBSET Seasons /\ f \in [Seasons -> Nat] /\ g \in [Seasons -> Nat]
      /\ h \in [S -> Nat]
      /\ \A s \in Seasons : g[s] = f[s] + (IF s \in S THEN h[s] ELSE 0)
    BY DEF Joins
<1>2. Early(f, u) /\ Early(h, u)
  <2>1. \A s \in Seasons : s > u => g[s] = 0
      BY <1>1 DEF Early
  <2>2. \A s \in Seasons : f[s] \in Nat /\ (s \in S => h[s] \in Nat)
      BY <1>1
  <2>3. \A s \in Seasons : g[s] = 0 => f[s] = 0 /\ (s \in S => h[s] = 0)
      BY <1>1, <2>2
  <2>4. DOMAIN f = Seasons /\ DOMAIN h = S /\ S \subseteq Seasons
      BY <1>1
  <2> QED
      BY <2>1, <2>3, <2>4 DEF Early
<1> DEFINE T == TokenSeeds[token]
           M == TokenMage[token]
           F == Growth(token, f, u)
           G == Growth(token, g, u)
           H == Growth(token, h, u)
<1>3. F \in [Seasons -> Nat] /\ G \in [Seasons -> Nat] /\ H \in [S -> Nat] /\ T \in Nat /\ M \in Nat
  <2>1. Seasons \in SUBSET Seasons
      OBVIOUS
  <2> QED
      BY <1>1, <1>2, <2>1, GrowthTypes
<1>4. /\ MageAt(token, f, u) = Sum(f) * M + Sum(F)
      /\ MageAt(token, g, u) = Sum(g) * M + Sum(G)
      /\ MageAt(token, h, u) = Sum(h) * M + Sum(H)
    BY DEF MageAt
<1>5. \A s \in Seasons : G[s] = F[s] + (IF s \in S THEN H[s] ELSE 0)
  <2>1. /\ \A s \in Seasons : F[s] = f[s] * T * (u - s) /\ G[s] = g[s] * T * (u - s)
        /\ \A s \in S : H[s] = h[s] * T * (u - s)
      BY <1>1 DEF Growth
  <2> SUFFICES ASSUME NEW s \in Seasons
               PROVE  g[s] * T * (u - s)
                        = f[s] * T * (u - s) + (IF s \in S THEN h[s] * T * (u - s) ELSE 0)
      BY <2>1
  <2>2. f[s] \in Nat /\ g[s] \in Nat /\ (s \in S => h[s] \in Nat) /\ s \in Nat
      BY <1>1 DEF Seasons
  <2>3. u - s \in Int
      BY <2>2
  <2>4. \A m, n \in Nat, i \in Int : (m + n) * T * i = m * T * i + n * T * i
    <3> HIDE DEF T
    <3>1. \A m, n \in Nat : (m + n) * T = m * T + n * T /\ m * T \in Nat /\ n * T \in Nat
        BY <1>3
    <3>2. \A x, y \in Nat, i \in Int : (x + y) * i = x * i + y * i
        OBVIOUS
    <3> QED
        BY <3>1, <3>2
  <2> HIDE DEF T
  <2>5. CASE s \in S
    <3>1. g[s] = f[s] + h[s]
        BY <1>1, <2>5
    <3>2. (f[s] + h[s]) * T * (u - s) = f[s] * T * (u - s) + h[s] * T * (u - s)
        BY <2>2, <2>3, <2>4, <2>5, Zenon
    <3> QED
        BY <2>5, <3>1, <3>2, Zenon
  <2>6. CASE s \notin S
    <3>1. g[s] = f[s]
        BY <1>1, <2>2, <2>6
    <3>2. f[s] * T * (u - s) \in Int
      <4>1. f[s] * T \in Nat
          BY <1>3, <2>2
      <4> QED
          BY <2>3, <4>1
    <3> QED
        BY <2>6, <3>1, <3>2
  <2> QED
      BY <2>5, <2>6
<1>6. Joins(F, S, H, G)
    BY <1>1, <1>3, <1>5, Zenon DEF Joins
<1> HIDE DEF T, M, F, G, H
<1>7. Sum(g) = Sum(f) + Sum(h) /\ Sum(f) \in Nat /\ Sum(h) \in Nat
    BY JoinedSum
<1>8. Sum(G) = Sum(F) + Sum(H) /\ Sum(F) \in Nat /\ Sum(H) \in Nat
    BY <1>6, JoinedSum
<1>9. \A m, n \in Nat : (m + n) * M = m * M + n * M /\ m * M \in Nat
    BY <1>3
<1>10. Sum(g) * M = Sum(f) * M + Sum(h) * M /\ Sum(f) * M \in Nat /\ Sum(h) * M \in Nat
    BY <1>7, <1>9
<1> QED
    BY <1>2, <1>4, <1>7, <1>8, <1>10 DEF F, G, H

\* From u to v, BDV grows its Seeds each Season.
LEMMA MageLater ==
    ASSUME NEW token \in Tokens, NEW u \in Nat, NEW v \in Nat, u <= v,
           NEW f \in [Seasons -> Nat], Early(f, u)
    PROVE  /\ Early(f, v)
           /\ MageAt(token, f, u) \in Nat /\ MageAt(token, f, v) \in Nat
           /\ Sum(f) \in Nat /\ Sum(f) * TokenSeeds[token] \in Nat
           /\ MageAt(token, f, v)
                = MageAt(token, f, u) + (Sum(f) * TokenSeeds[token]) * (v - u)
<1>1. Seasons \in SUBSET Seasons /\ DOMAIN f = Seasons /\ Seasons \subseteq Nat
    BY DEF Seasons
<1>2. Early(f, v)
    BY <1>1 DEF Early
<1> DEFINE T == TokenSeeds[token]
           F == Growth(token, f, u)
           G == Growth(token, f, v)
           w == v - u
           h == [s \in Seasons |-> (T * w) * f[s]]
<1>3. F \in [Seasons -> Nat] /\ G \in [Seasons -> Nat] /\ T \in Nat /\ TokenMage[token] \in Nat
    BY <1>1, <1>2, GrowthTypes
<1>4. w \in Nat /\ T * w \in Nat
  <2>1. w \in Nat
      OBVIOUS
  <2> HIDE DEF T, w
  <2> QED
      BY <1>3, <2>1
<1>5. h \in [Seasons -> Nat]
  <2> HIDE DEF T, w
  <2>1. \A m, n \in Nat : m * n \in Nat
      OBVIOUS
  <2>2. \A s \in Seasons : f[s] \in Nat
      OBVIOUS
  <2> QED
      BY <1>4, <2>1, <2>2
<1>6. \A s \in Seasons : G[s] = F[s] + (IF s \in Seasons THEN h[s] ELSE 0)
  <2>1. \A s \in Seasons : F[s] = f[s] * T * (u - s) /\ G[s] = f[s] * T * (v - s)
      BY <1>1 DEF Growth
  <2> SUFFICES ASSUME NEW s \in Seasons
               PROVE  f[s] * T * (v - s) = f[s] * T * (u - s) + (T * w) * f[s]
      BY <2>1
  <2>2. f[s] \in Nat /\ s \in Nat
      BY <1>1
  <2> DEFINE p == f[s] * T
             i == u - s
  <2>3. p \in Nat /\ i \in Int /\ v - s = i + w
    <3>1. p \in Nat
      <4> HIDE DEF T
      <4> QED
          BY <1>3, <2>2
    <3> QED
        BY <2>2, <3>1
  <2>4. (T * w) * f[s] = p * w
    <3> HIDE DEF T, w
    <3>1. \A x, y, n \in Nat : (x * y) * n = (n * x) * y
        OBVIOUS
    <3> QED
        BY <1>3, <1>4, <2>2, <3>1
  <2> HIDE DEF p, i, w, T
  <2>5. p * (i + w) = p * i + p * w
      BY <1>4, <2>3
  <2> QED
      BY <2>3, <2>4, <2>5 DEF p, i
<1>7. Joins(F, Seasons, h, G)
    BY <1>1, <1>3, <1>5, <1>6, Zenon DEF Joins
<1> HIDE DEF F, G
<1>8. Sum(G) = Sum(F) + Sum(h) /\ Sum(F) \in Nat /\ Sum(h) \in Nat
    BY <1>7, JoinedSum
<1>9. Sum(h) = (T * w) * Sum(f)
    BY <1>4, FiniteSets, SumScale
<1>10. Sum(f) \in Nat
    BY <1>1, SeasonsSum
<1> HIDE DEF h, T, w
<1>11. (T * w) * Sum(f) = (Sum(f) * T) * w /\ Sum(f) * T \in Nat
       /\ Sum(f) * TokenMage[token] \in Nat
  <2>1. \A x, y, n \in Nat : (x * y) * n = (n * x) * y /\ n * x \in Nat
      OBVIOUS
  <2> QED
      BY <1>3, <1>4, <1>10, <2>1
<1>12. MageAt(token, f, u) = Sum(f) * TokenMage[token] + Sum(F)
       /\ MageAt(token, f, v) = Sum(f) * TokenMage[token] + Sum(G)
    BY DEF MageAt, F, G
<1>13. (Sum(f) * T) * w \in Nat
    BY <1>4, <1>11
<1>14. MageAt(token, f, v) = MageAt(token, f, u) + (Sum(f) * T) * w
       /\ MageAt(token, f, u) \in Nat /\ MageAt(token, f, v) \in Nat
    BY <1>8, <1>9, <1>11, <1>12, <1>13
<1> QED
    BY <1>2, <1>10, <1>11, <1>14 DEF T, w

\* The Seeds and the Mage of an account's Deposits.
HeldSeeds(d, a) == Sum([t \in Tokens |-> Sum(BdvIn(d, a, t)) * TokenSeeds[t]])
HeldMage(d, a, u) == Sum([t \in Tokens |-> MageAt(t, BdvIn(d, a, t), u)])

AllEarly(d, a, u) == \A t \in Tokens : Early(BdvIn(d, a, t), u)

\* The BDVs of an account are natural numbers.
LEMMA BdvInTypes ==
    ASSUME NEW d \in AllDeposits, NEW a \in Accounts, NEW t \in Tokens
    PROVE  BdvIn(d, a, t) \in [Seasons -> Nat] /\ Sum(BdvIn(d, a, t)) \in Nat
<1>1. BdvIn(d, a, t) \in [Seasons -> Nat]
    BY RowOf DEF BdvIn
<1> QED
    BY <1>1, SeasonsSum

\* So are the Seeds and the Mage they have.
LEMMA HeldTypes ==
    ASSUME NEW d \in AllDeposits, NEW a \in Accounts, NEW u \in Nat, AllEarly(d, a, u)
    PROVE  /\ HeldSeeds(d, a) \in Nat /\ HeldMage(d, a, u) \in Nat
           /\ [t \in Tokens |-> Sum(BdvIn(d, a, t)) * TokenSeeds[t]] \in [Tokens -> Nat]
           /\ [t \in Tokens |-> MageAt(t, BdvIn(d, a, t), u)] \in [Tokens -> Nat]
<1> DEFINE f == [t \in Tokens |-> Sum(BdvIn(d, a, t)) * TokenSeeds[t]]
           g == [t \in Tokens |-> MageAt(t, BdvIn(d, a, t), u)]
<1>1. \A t \in Tokens : /\ Sum(BdvIn(d, a, t)) * TokenSeeds[t] \in Nat
                        /\ MageAt(t, BdvIn(d, a, t), u) \in Nat
    BY BdvInTypes, MageAtTypes DEF AllEarly
<1>2. f \in [Tokens -> Nat] /\ g \in [Tokens -> Nat]
    BY <1>1
<1>3. HeldSeeds(d, a) = Sum(f) /\ HeldMage(d, a, u) = Sum(g)
    BY DEF HeldSeeds, HeldMage
<1> HIDE DEF f, g
<1>4. /\ IsFiniteSet(DOMAIN f) /\ \A x \in DOMAIN f : f[x] \in Nat
      /\ IsFiniteSet(DOMAIN g) /\ \A x \in DOMAIN g : g[x] \in Nat
    BY <1>2, FiniteSets
<1>5. Sum(f) \in Nat /\ Sum(g) \in Nat
    BY <1>4, SumType
<1> QED
    BY <1>2, <1>3, <1>5 DEF f, g

\* Deposits later: what they hold has grown.
LEMMA HeldLater ==
    ASSUME NEW d \in AllDeposits, NEW a \in Accounts, NEW u \in Nat, NEW v \in Nat, u <= v,
           AllEarly(d, a, u)
    PROVE  /\ AllEarly(d, a, v) /\ HeldSeeds(d, a) \in Nat
           /\ HeldMage(d, a, u) \in Nat /\ HeldMage(d, a, v) \in Nat
           /\ HeldMage(d, a, v) = HeldMage(d, a, u) + HeldSeeds(d, a) * (v - u)
<1> DEFINE w == v - u
           f == [t \in Tokens |-> Sum(BdvIn(d, a, t)) * TokenSeeds[t]]
           F == [t \in Tokens |-> MageAt(t, BdvIn(d, a, t), u)]
           G == [t \in Tokens |-> MageAt(t, BdvIn(d, a, t), v)]
           h == [t \in Tokens |-> w * f[t]]
<1>1. w \in Nat
    OBVIOUS
<1>2. ASSUME NEW t \in Tokens
      PROVE  /\ Early(BdvIn(d, a, t), v)
             /\ Sum(BdvIn(d, a, t)) * TokenSeeds[t] \in Nat
             /\ MageAt(t, BdvIn(d, a, t), v)
                  = MageAt(t, BdvIn(d, a, t), u) + (Sum(BdvIn(d, a, t)) * TokenSeeds[t]) * (v - u)
    BY BdvInTypes, MageLater DEF AllEarly
<1>3. AllEarly(d, a, v)
    BY <1>2 DEF AllEarly
<1>4. /\ HeldSeeds(d, a) \in Nat /\ HeldMage(d, a, u) \in Nat /\ HeldMage(d, a, v) \in Nat
      /\ f \in [Tokens -> Nat] /\ F \in [Tokens -> Nat] /\ G \in [Tokens -> Nat]
    BY <1>3, HeldTypes
<1>5. HeldSeeds(d, a) = Sum(f) /\ HeldMage(d, a, u) = Sum(F) /\ HeldMage(d, a, v) = Sum(G)
    BY DEF HeldSeeds, HeldMage
<1>6. \A t \in Tokens : G[t] = F[t] + f[t] * w
    BY <1>2
<1> HIDE DEF f, F, G, w
<1>7. h \in [Tokens -> Nat] /\ \A t \in Tokens : h[t] = f[t] * w
  <2>1. \A m, n \in Nat : m * n \in Nat /\ m * n = n * m
      OBVIOUS
  <2> QED
      BY <1>1, <1>4, <2>1
<1>8. Sum(h) = w * Sum(f)
    BY <1>1, <1>4, FiniteSets, SumScale
<1> HIDE DEF h
<1>9. G = [t \in Tokens |-> F[t] + h[t]]
    BY <1>4, <1>6, <1>7
<1>10. Sum([t \in Tokens |-> F[t] + h[t]]) = Sum(F) + Sum(h)
    BY <1>4, <1>7, FiniteSets, SumPlus
<1>11. HeldMage(d, a, v) = HeldMage(d, a, u) + HeldSeeds(d, a) * w
  <2>1. w * HeldSeeds(d, a) = HeldSeeds(d, a) * w
      BY <1>1, <1>4
  <2> QED
      BY <1>5, <1>8, <1>9, <1>10, <2>1
<1> QED
    BY <1>3, <1>4, <1>11 DEF w

\* What e holds more than d.
HoldsMore(d, e, a, u, ds, dm) ==
    /\ HeldSeeds(d, a) \in Nat /\ HeldMage(d, a, u) \in Nat /\ ds \in Nat /\ dm \in Nat
    /\ HeldSeeds(e, a) = HeldSeeds(d, a) + ds /\ HeldMage(e, a, u) = HeldMage(d, a, u) + dm

\* What an account holds more after a Deposit; others hold the same.
LEMMA PlusHeld ==
    ASSUME NEW d, NEW e, NEW a \in Accounts, NEW token \in Tokens, NEW S, NEW crates, NEW bdvs,
           Plus(d, e, a, token, S, crates, bdvs), NEW u \in Nat, AllEarly(e, a, u)
    PROVE  /\ AllEarly(d, a, u) /\ Early(bdvs, u)
           /\ HeldSeeds(d, a) \in Nat /\ HeldMage(d, a, u) \in Nat
           /\ Sum(bdvs) \in Nat /\ Sum(bdvs) * TokenSeeds[token] \in Nat
           /\ MageAt(token, bdvs, u) \in Nat
           /\ HeldSeeds(e, a) = HeldSeeds(d, a) + Sum(bdvs) * TokenSeeds[token]
           /\ HeldMage(e, a, u) = HeldMage(d, a, u) + MageAt(token, bdvs, u)
           /\ HoldsMore(d, e, a, u, Sum(bdvs) * TokenSeeds[token], MageAt(token, bdvs, u))
<1>1. /\ d \in AllDeposits /\ e \in AllDeposits /\ S \in SUBSET Seasons /\ bdvs \in [S -> Nat]
      /\ \A b \in Accounts, t \in Tokens : b # a \/ t # token => e[b][t] = d[b][t]
      /\ \A s \in Seasons :
            e[a][token][s].bdv = d[a][token][s].bdv + (IF s \in S THEN bdvs[s] ELSE 0)
    BY Zenon DEF Plus
<1> DEFINE Old == BdvIn(d, a, token)
           New == BdvIn(e, a, token)
<1>2. Old \in [Seasons -> Nat] /\ New \in [Seasons -> Nat]
    BY <1>1, BdvInTypes
<1>3. Joins(Old, S, bdvs, New)
  <2>1. \A s \in Seasons : Old[s] = d[a][token][s].bdv /\ New[s] = e[a][token][s].bdv
      BY DEF BdvIn
  <2>2. \A s \in Seasons : New[s] = Old[s] + (IF s \in S THEN bdvs[s] ELSE 0)
      BY <1>1, <2>1
  <2> QED
      BY <1>1, <1>2, <2>2, Zenon DEF Joins
<1>4. Early(New, u)
    BY DEF AllEarly
<1>5. \A t \in Tokens : t # token => BdvIn(d, a, t) = BdvIn(e, a, t)
    BY <1>1 DEF BdvIn
<1> HIDE DEF Old, New
<1>6. /\ Early(Old, u) /\ Early(bdvs, u)
      /\ Sum(Old) \in Nat /\ Sum(bdvs) \in Nat /\ Sum(New) = Sum(Old) + Sum(bdvs)
      /\ MageAt(token, Old, u) \in Nat /\ MageAt(token, bdvs, u) \in Nat
      /\ MageAt(token, New, u) = MageAt(token, Old, u) + MageAt(token, bdvs, u)
    BY <1>3, <1>4, MageAdded
<1>7. AllEarly(d, a, u)
    BY <1>5, <1>6 DEF AllEarly, Old
<1> DEFINE f == [t \in Tokens |-> Sum(BdvIn(d, a, t)) * TokenSeeds[t]]
           g == [t \in Tokens |-> Sum(BdvIn(e, a, t)) * TokenSeeds[t]]
           F == [t \in Tokens |-> MageAt(t, BdvIn(d, a, t), u)]
           G == [t \in Tokens |-> MageAt(t, BdvIn(e, a, t), u)]
<1>8. /\ HeldSeeds(d, a) \in Nat /\ HeldMage(d, a, u) \in Nat
      /\ f \in [Tokens -> Nat] /\ F \in [Tokens -> Nat]
      /\ g \in [Tokens -> Nat] /\ G \in [Tokens -> Nat]
    BY <1>1, <1>7, HeldTypes
<1>9. /\ HeldSeeds(d, a) = Sum(f) /\ HeldMage(d, a, u) = Sum(F)
      /\ HeldSeeds(e, a) = Sum(g) /\ HeldMage(e, a, u) = Sum(G)
    BY DEF HeldSeeds, HeldMage
<1>10. \A t \in Tokens : t # token => g[t] = f[t] /\ G[t] = F[t]
    BY <1>5
<1>11. /\ f[token] = Sum(Old) * TokenSeeds[token] /\ g[token] = Sum(New) * TokenSeeds[token]
       /\ F[token] = MageAt(token, Old, u) /\ G[token] = MageAt(token, New, u)
    BY DEF Old, New
<1> HIDE DEF f, g, F, G
<1>12. Sum(f) \in Nat /\ Sum(g) = (Sum(f) - f[token]) + g[token] /\ f[token] \in Nat
    BY <1>8, <1>10, FiniteSets, SumOfOne
<1>13. Sum(F) \in Nat /\ Sum(G) = (Sum(F) - F[token]) + G[token] /\ F[token] \in Nat
    BY <1>8, <1>10, FiniteSets, SumOfOne
<1>14. g[token] = f[token] + Sum(bdvs) * TokenSeeds[token] /\ Sum(bdvs) * TokenSeeds[token] \in Nat
  <2>1. TokenSeeds[token] \in Nat
      BY SiloAssumption
  <2>2. \A m, n, k \in Nat : (m + n) * k = m * k + n * k /\ n * k \in Nat
      OBVIOUS
  <2> QED
      BY <1>6, <1>11, <2>1, <2>2
<1>15. HeldSeeds(e, a) = HeldSeeds(d, a) + Sum(bdvs) * TokenSeeds[token]
    BY <1>9, <1>12, <1>14
<1>16. HeldMage(e, a, u) = HeldMage(d, a, u) + MageAt(token, bdvs, u)
    BY <1>6, <1>9, <1>11, <1>13
<1>17. HoldsMore(d, e, a, u, Sum(bdvs) * TokenSeeds[token], MageAt(token, bdvs, u))
    BY <1>6, <1>8, <1>14, <1>15, <1>16, Zenon DEF HoldsMore
<1> QED
    BY <1>6, <1>7, <1>8, <1>14, <1>15, <1>16, <1>17, Zenon

\* What others hold does not change.
LEMMA OthersHeld ==
    ASSUME NEW d, NEW e, NEW a, NEW token, NEW S, NEW crates, NEW bdvs,
           Plus(d, e, a, token, S, crates, bdvs), NEW b \in Accounts, b # a
    PROVE  /\ HeldSeeds(e, b) = HeldSeeds(d, b)
           /\ \A u : HeldMage(e, b, u) = HeldMage(d, b, u) /\ (AllEarly(e, b, u) <=> AllEarly(d, b, u))
<1>1. \A t \in Tokens : e[b][t] = d[b][t]
    BY DEF Plus
<1>2. \A t \in Tokens : BdvIn(e, b, t) = BdvIn(d, b, t)
    BY <1>1 DEF BdvIn
<1> QED
    BY <1>2 DEF HeldSeeds, HeldMage, AllEarly

(***************************************************************************)
(* Deposits have their Mage and their Seeds                                *)
(***************************************************************************)

\* No Deposit is of a Season after u, and none has BDV without an amount.
Dated(d, a, u) ==
    \A t \in Tokens, s \in Seasons :
        /\ d[a][t][s].amount = 0 => d[a][t][s].bdv = 0
        /\ d[a][t][s].amount > 0 => s <= u

\* Where there is no Deposit of a later Season there is no BDV of one.
LEMMA DatedIsEarly ==
    ASSUME NEW d \in AllDeposits, NEW a \in Accounts, NEW u \in Nat, Dated(d, a, u)
    PROVE  AllEarly(d, a, u)
<1> SUFFICES ASSUME NEW t \in Tokens, NEW s \in Seasons, s > u
             PROVE  d[a][t][s].bdv = 0
    BY DEF AllEarly, Early, BdvIn
<1>1. s \in Nat /\ d[a][t][s].amount \in Nat
    BY RowOf DEF Seasons
<1>2. d[a][t][s].amount = 0
    BY <1>1 DEF Dated
<1> QED
    BY <1>2 DEF Dated

\* What has come by u has come by v.
LEMMA DatedLater ==
    ASSUME NEW d, NEW a, NEW u \in Nat, NEW v \in Nat, u <= v, Dated(d, a, u)
    PROVE  Dated(d, a, v)
BY DEF Dated, Seasons

\* What is added must have an amount if it has BDV.
LEMMA DatedAfterDeposit ==
    ASSUME NEW d, NEW e, NEW a \in Accounts, NEW token \in Tokens, NEW S, NEW crates, NEW bdvs,
           Plus(d, e, a, token, S, crates, bdvs), NEW u \in Nat, Dated(d, a, u),
           \A s \in S : s <= u /\ (crates[s] > 0 \/ bdvs[s] = 0)
    PROVE  Dated(e, a, u)
<1>1. /\ d \in AllDeposits /\ e \in AllDeposits /\ crates \in [S -> Nat] /\ bdvs \in [S -> Nat]
      /\ \A b \in Accounts, t \in Tokens : b # a \/ t # token => e[b][t] = d[b][t]
      /\ \A s \in Seasons :
            /\ e[a][token][s].amount = d[a][token][s].amount + (IF s \in S THEN crates[s] ELSE 0)
            /\ e[a][token][s].bdv = d[a][token][s].bdv + (IF s \in S THEN bdvs[s] ELSE 0)
    BY Zenon DEF Plus
<1> SUFFICES ASSUME NEW t \in Tokens, NEW s \in Seasons
             PROVE  /\ e[a][t][s].amount = 0 => e[a][t][s].bdv = 0
                    /\ e[a][t][s].amount > 0 => s <= u
    BY DEF Dated
<1>2. /\ d[a][t][s].amount = 0 => d[a][t][s].bdv = 0
      /\ d[a][t][s].amount > 0 => s <= u
      /\ d[a][t][s].amount \in Nat /\ d[a][t][s].bdv \in Nat
    BY <1>1, RowOf DEF Dated
<1>3. CASE t # token
    BY <1>1, <1>2, <1>3
<1>4. CASE t = token
  <2>1. CASE s \notin S
      BY <1>1, <1>2, <1>4, <2>1
  <2>2. CASE s \in S
    <3>1. crates[s] \in Nat /\ bdvs[s] \in Nat /\ s <= u /\ (crates[s] > 0 \/ bdvs[s] = 0)
        BY <1>1, <2>2
    <3> QED
        BY <1>1, <1>2, <1>4, <2>2, <3>1
  <2> QED
      BY <2>1, <2>2
<1> QED
    BY <1>3, <1>4

\* What is left of Deposits dates back as they did.
LEMMA DatedAfterRemoval ==
    ASSUME NEW d, NEW e, NEW a \in Accounts, NEW token \in Tokens, NEW S, NEW crates, NEW bdvs,
           Plus(e, d, a, token, S, crates, bdvs), NEW u \in Nat, Dated(d, a, u),
           \A s \in Seasons :
              \/ e[a][token][s] = d[a][token][s] /\ s \notin S
              \/ e[a][token][s].amount # 0
              \/ e[a][token][s].bdv = 0
    PROVE  Dated(e, a, u)
<1>1. /\ d \in AllDeposits /\ e \in AllDeposits /\ crates \in [S -> Nat]
      /\ \A b \in Accounts, t \in Tokens : b # a \/ t # token => d[b][t] = e[b][t]
      /\ \A s \in Seasons :
            d[a][token][s].amount = e[a][token][s].amount + (IF s \in S THEN crates[s] ELSE 0)
    BY Zenon DEF Plus
<1> SUFFICES ASSUME NEW t \in Tokens, NEW s \in Seasons
             PROVE  /\ e[a][t][s].amount = 0 => e[a][t][s].bdv = 0
                    /\ e[a][t][s].amount > 0 => s <= u
    BY DEF Dated
<1>2. /\ d[a][t][s].amount = 0 => d[a][t][s].bdv = 0
      /\ d[a][t][s].amount > 0 => s <= u
      /\ d[a][t][s].amount \in Nat /\ e[a][t][s].amount \in Nat
    BY <1>1, RowOf DEF Dated
<1>3. CASE t # token
    BY <1>1, <1>2, <1>3
<1>4. CASE t = token
  <2>1. e[a][t][s].amount = 0 => e[a][t][s].bdv = 0
      BY <1>2, <1>4
  <2>2. e[a][t][s].amount <= d[a][t][s].amount
    <3>1. s \in S => crates[s] \in Nat
        BY <1>1
    <3> QED
        BY <1>1, <1>2, <1>4, <3>1
  <2> QED
      BY <1>2, <2>1, <2>2
<1> QED
    BY <1>3, <1>4

\* Other accounts' Deposits do not change.
LEMMA DatedOthers ==
    ASSUME NEW d, NEW e, NEW a, NEW token, NEW S, NEW crates, NEW bdvs,
           Plus(d, e, a, token, S, crates, bdvs), NEW b \in Accounts, b # a, NEW u
    PROVE  Dated(e, b, u) <=> Dated(d, b, u)
<1>1. \A t \in Tokens : e[b][t] = d[b][t]
    BY DEF Plus
<1> QED
    BY <1>1 DEF Dated

\* An account has no less Seeds and Mage than its Deposits had when it was
\* updated; as much, if no Deposit can be enrooted.
Enough(have, need) == have >= need /\ (UnripeTokens = {} => have = need)

Sound(z, d, a) ==
    /\ Dated(d, a, z.acct[a].lastUpdate)
    /\ Enough(z.acct[a].seeds, HeldSeeds(d, a))
    /\ Enough(z.acct[a].mage, HeldMage(d, a, z.acct[a].lastUpdate))

\* The facts about one account that the rest uses.
LEMMA SoundFacts ==
    ASSUME NEW z \in Silos, NEW d \in AllDeposits, NEW a \in Accounts, Sound(z, d, a)
    PROVE  LET u == z.acct[a].lastUpdate IN
           /\ u \in Nat /\ z.acct[a].seeds \in Nat /\ z.acct[a].mage \in Nat
           /\ AllEarly(d, a, u) /\ HeldSeeds(d, a) \in Nat /\ HeldMage(d, a, u) \in Nat
<1>1. z.acct[a].lastUpdate \in Nat /\ z.acct[a].seeds \in Nat /\ z.acct[a].mage \in Nat
    BY SilosHaveTypes DEF Seasons
<1>2. AllEarly(d, a, z.acct[a].lastUpdate)
    BY <1>1, DatedIsEarly DEF Sound
<1>3. HeldSeeds(d, a) \in Nat /\ HeldMage(d, a, z.acct[a].lastUpdate) \in Nat
    BY <1>1, <1>2, HeldTypes
<1> QED
    BY <1>1, <1>2, <1>3

\* What grows with Seeds is enough when the Seeds are.
LEMMA EnoughLater ==
    ASSUME NEW m \in Nat, NEW s \in Nat, NEW hm \in Nat, NEW hs \in Nat, NEW w \in Nat,
           Enough(m, hm), Enough(s, hs)
    PROVE  Enough(m + s * w, hm + hs * w)
<1>1. s * w \in Nat /\ hs * w \in Nat /\ hs * w <= s * w
    BY ProductMonotone DEF Enough
<1>2. UnripeTokens = {} => s * w = hs * w /\ m = hm
    BY DEF Enough
<1>3. m >= hm
    BY DEF Enough
<1> DEFINE x == s * w
           y == hs * w
<1> HIDE DEF x, y
<1>4. x \in Nat /\ y \in Nat /\ y <= x /\ (UnripeTokens = {} => x = y /\ m = hm)
    BY <1>1, <1>2 DEF x, y
<1>5. m + x >= hm + y /\ (UnripeTokens = {} => m + x = hm + y)
    BY <1>3, <1>4
<1> QED
    BY <1>5 DEF Enough, x, y

\* An update gives an account the Mage that its Deposits have grown.
LEMMA UpdateSound ==
    ASSUME NEW z \in Silos, NEW d \in AllDeposits, NEW a \in Accounts, Sound(z, d, a),
           NEW k \in Clocks, z.acct[a].lastUpdate <= k.current,
           NEW y, Gains(z, a, y, GrownMage(z, k, a), 0, k.current)
    PROVE  Sound(y, d, a)
<1> DEFINE u == z.acct[a].lastUpdate
           v == k.current
<1>1. /\ u \in Nat /\ z.acct[a].seeds \in Nat /\ z.acct[a].mage \in Nat
      /\ AllEarly(d, a, u) /\ HeldSeeds(d, a) \in Nat /\ HeldMage(d, a, u) \in Nat
    BY SoundFacts
<1>2. v \in Nat /\ u <= v /\ v - u \in Nat
  <2>1. v \in Nat
      BY DEF Clocks, Seasons
  <2> QED
      BY <1>1, <2>1
<1>3. /\ y.acct[a].mage = z.acct[a].mage + z.acct[a].seeds * (v - u)
      /\ y.acct[a].seeds = z.acct[a].seeds /\ y.acct[a].lastUpdate = v
    BY <1>1 DEF Gains, GrownMage
<1>4. Dated(d, a, u) /\ Enough(z.acct[a].seeds, HeldSeeds(d, a))
      /\ Enough(z.acct[a].mage, HeldMage(d, a, u))
    BY DEF Sound
<1> HIDE DEF u, v
<1>5. HeldMage(d, a, v) = HeldMage(d, a, u) + HeldSeeds(d, a) * (v - u)
    BY <1>1, <1>2, HeldLater
<1>6. Dated(d, a, v)
    BY <1>1, <1>2, <1>4, DatedLater
<1>7. Enough(y.acct[a].mage, HeldMage(d, a, v))
  <2> DEFINE w == v - u
  <2>1. w \in Nat
      BY <1>2
  <2> HIDE DEF w
  <2>2. Enough(z.acct[a].mage + z.acct[a].seeds * w, HeldMage(d, a, u) + HeldSeeds(d, a) * w)
      BY <1>1, <1>4, <2>1, EnoughLater, Zenon
  <2> QED
      BY <1>3, <1>5, <2>2, Zenon DEF w
<1> QED
    BY <1>3, <1>4, <1>6, <1>7 DEF Sound

\* Account a has so much more Mage and Seeds.
Gets(z, a, y, m, s) ==
    /\ y.acct[a].mage = z.acct[a].mage + m
    /\ y.acct[a].seeds = z.acct[a].seeds + s
    /\ y.acct[a].lastUpdate = z.acct[a].lastUpdate

\* A Deposit comes with its Mage and Seeds, or more.
LEMMA DepositSound ==
    ASSUME NEW z \in Silos, NEW a \in Accounts, NEW token \in Tokens,
           NEW d, NEW e, NEW S, NEW crates, NEW bdvs,
           Plus(d, e, a, token, S, crates, bdvs),
           Sound(z, d, a), Dated(e, a, z.acct[a].lastUpdate),
           NEW m \in Nat, NEW s \in Nat, Enough(s, Sum(bdvs) * TokenSeeds[token]),
           Enough(m, MageAt(token, bdvs, z.acct[a].lastUpdate)),
           NEW y, Gets(z, a, y, m, s)
    PROVE  Sound(y, e, a)
<1> DEFINE u == z.acct[a].lastUpdate
           ds == Sum(bdvs) * TokenSeeds[token]
           dm == MageAt(token, bdvs, u)
<1>1. d \in AllDeposits /\ e \in AllDeposits
    BY DEF Plus
<1>2. u \in Nat /\ z.acct[a].seeds \in Nat /\ z.acct[a].mage \in Nat
    BY <1>1, SoundFacts
<1>3. AllEarly(e, a, u)
    BY <1>1, <1>2, DatedIsEarly
<1>4. y.acct[a].mage = z.acct[a].mage + m /\ y.acct[a].seeds = z.acct[a].seeds + s
      /\ y.acct[a].lastUpdate = u
    BY DEF Gets
<1>5. Enough(z.acct[a].seeds, HeldSeeds(d, a)) /\ Enough(z.acct[a].mage, HeldMage(d, a, u))
      /\ Enough(s, ds) /\ Enough(m, dm) /\ Dated(e, a, u)
    BY DEF Sound
<1> HIDE DEF u
<1>6. HoldsMore(d, e, a, u, ds, dm)
    BY <1>2, <1>3, PlusHeld, Zenon
<1> HIDE DEF ds, dm
<1>7. Enough(y.acct[a].seeds, HeldSeeds(e, a)) /\ Enough(y.acct[a].mage, HeldMage(e, a, u))
    BY <1>2, <1>6, <1>4, <1>5 DEF Enough, HoldsMore
<1> QED
    BY <1>4, <1>5, <1>7 DEF Sound

\* Account a has so much less Mage and Seeds.
Loses(z, a, y, m, s) ==
    /\ y.acct[a].mage = z.acct[a].mage - m
    /\ y.acct[a].seeds = z.acct[a].seeds - s
    /\ y.acct[a].lastUpdate = z.acct[a].lastUpdate

\* What is taken out of Deposits takes its Mage and Seeds along.
LEMMA RemovalSound ==
    ASSUME NEW z \in Silos, NEW a \in Accounts, NEW token \in Tokens,
           NEW d, NEW e, NEW S, NEW crates, NEW bdvs,
           Plus(e, d, a, token, S, crates, bdvs),
           Sound(z, d, a), Dated(e, a, z.acct[a].lastUpdate),
           NEW y, Loses(z, a, y, MageAt(token, bdvs, z.acct[a].lastUpdate),
                        Sum(bdvs) * TokenSeeds[token])
    PROVE  Sound(y, e, a)
<1> DEFINE u == z.acct[a].lastUpdate
           ds == Sum(bdvs) * TokenSeeds[token]
           dm == MageAt(token, bdvs, u)
<1>1. d \in AllDeposits /\ e \in AllDeposits
    BY DEF Plus
<1>2. u \in Nat /\ z.acct[a].seeds \in Nat /\ z.acct[a].mage \in Nat /\ AllEarly(d, a, u)
    BY <1>1, SoundFacts
<1>3. y.acct[a].mage = z.acct[a].mage - dm /\ y.acct[a].seeds = z.acct[a].seeds - ds
      /\ y.acct[a].lastUpdate = u
    BY DEF Loses
<1>4. Enough(z.acct[a].seeds, HeldSeeds(d, a)) /\ Enough(z.acct[a].mage, HeldMage(d, a, u))
      /\ Dated(e, a, u)
    BY DEF Sound
<1> HIDE DEF u
<1>5. HoldsMore(e, d, a, u, ds, dm)
    BY <1>2, PlusHeld, Zenon
<1> HIDE DEF ds, dm
<1>6. Enough(y.acct[a].seeds, HeldSeeds(e, a)) /\ Enough(y.acct[a].mage, HeldMage(e, a, u))
    BY <1>2, <1>5, <1>3, <1>4 DEF Enough, HoldsMore
<1> QED
    BY <1>3, <1>4, <1>6 DEF Sound

\* An account of which neither numbers nor Deposits change.
LEMMA OthersSound ==
    ASSUME NEW z, NEW y, NEW b \in Accounts, NEW d, NEW e, NEW a, NEW token, NEW S,
           NEW crates, NEW bdvs, Plus(d, e, a, token, S, crates, bdvs), b # a,
           y.acct[b].mage = z.acct[b].mage, y.acct[b].seeds = z.acct[b].seeds,
           y.acct[b].lastUpdate = z.acct[b].lastUpdate
    PROVE  Sound(z, d, b) <=> Sound(y, e, b)
<1>1. HeldSeeds(e, b) = HeldSeeds(d, b) /\ \A u : HeldMage(e, b, u) = HeldMage(d, b, u)
    BY OthersHeld
<1>2. \A u : Dated(e, b, u) <=> Dated(d, b, u)
    BY DatedOthers
<1> QED
    BY <1>1, <1>2 DEF Sound

(***************************************************************************)
(* Withdrawals                                                             *)
(***************************************************************************)
AllWithdrawals == [Accounts -> [Tokens -> [Seasons -> Nat]]]

\* In w, account a has more to come of token at the Seasons S than in v.
MoreWithdrawn(v, w, a, token, S, h) ==
    /\ v \in AllWithdrawals /\ w \in AllWithdrawals /\ S \in SUBSET Seasons /\ h \in [S -> Nat]
    /\ \A b \in Accounts, t \in Tokens : b # a \/ t # token => w[b][t] = v[b][t]
    /\ \A s \in Seasons : w[a][token][s] = v[a][token][s] + (IF s \in S THEN h[s] ELSE 0)

WithdrawnIn(w, token) == Sum([p \in Accounts \X Seasons |-> w[p[1]][token][p[2]]])

\* Of a token, n more is to come in w than in v.
WithdrawnGrows(v, w, token, n) ==
    /\ n \in Nat
    /\ \A t \in Tokens : /\ WithdrawnIn(v, t) \in Nat
                          /\ WithdrawnIn(w, t) = WithdrawnIn(v, t) + (IF t = token THEN n ELSE 0)

\* What is to come in all grows with what one account has to come.
LEMMA WithdrawnSum ==
    ASSUME NEW v, NEW w, NEW a \in Accounts, NEW token \in Tokens, NEW S, NEW h,
           MoreWithdrawn(v, w, a, token, S, h)
    PROVE  WithdrawnGrows(v, w, token, Sum(h))
<1>1. /\ v \in AllWithdrawals /\ w \in AllWithdrawals /\ S \in SUBSET Seasons /\ h \in [S -> Nat]
      /\ \A b \in Accounts, t \in Tokens : b # a \/ t # token => w[b][t] = v[b][t]
      /\ \A s \in Seasons : w[a][token][s] = v[a][token][s] + (IF s \in S THEN h[s] ELSE 0)
    BY Zenon DEF MoreWithdrawn
<1> DEFINE F(x, t) == [p \in Places |-> x[p[1]][t][p[2]]]
<1>2. \A x \in AllWithdrawals, t \in Tokens : F(x, t) \in [Places -> Nat]
    BY DEF Places, AllWithdrawals
<1>3. \A x, t : WithdrawnIn(x, t) = Sum(F(x, t))
    BY Zenon DEF WithdrawnIn, Places
<1>4. Sum(h) \in Nat
    BY <1>1, SumAtPlaces
<1>5. ASSUME NEW t \in Tokens, t # token
      PROVE  WithdrawnIn(v, t) \in Nat /\ WithdrawnIn(w, t) = WithdrawnIn(v, t)
  <2>1. F(w, t) = F(v, t)
      BY <1>1, <1>5 DEF Places
  <2>2. F(v, t) \in [Places -> Nat]
      BY <1>1, <1>2
  <2> HIDE DEF F
  <2>3. IsFiniteSet(DOMAIN F(v, t)) /\ \A p \in DOMAIN F(v, t) : F(v, t)[p] \in Nat
      BY <2>2, FiniteSets
  <2>4. Sum(F(v, t)) \in Nat
      BY <2>3, SumType
  <2> QED
      BY <1>3, <2>1, <2>4
<1>6. WithdrawnIn(v, token) \in Nat /\ WithdrawnIn(w, token) = WithdrawnIn(v, token) + Sum(h)
  <2> DEFINE f == F(v, token)
             g == F(w, token)
             T == {a} \X S
             k == [p \in T |-> h[p[2]]]
  <2>1. f \in [Places -> Nat] /\ g \in [Places -> Nat]
      BY <1>1, <1>2
  <2>2. T \in SUBSET Places /\ k \in [T -> Nat]
      BY <1>1 DEF Places
  <2>3. \A p \in Places : g[p] = f[p] + (IF p \in T THEN k[p] ELSE 0)
    <3> SUFFICES ASSUME NEW b \in Accounts, NEW s \in Seasons
                 PROVE  w[b][token][s]
                          = v[b][token][s] + (IF b = a /\ s \in S THEN h[s] ELSE 0)
        BY <1>1 DEF Places
    <3>1. v[b][token][s] \in Nat
        BY <1>1 DEF AllWithdrawals
    <3> QED
        BY <1>1, <3>1
  <2>4. Sum(k) = Sum(h)
      BY <1>1, SumAtPlaces
  <2> HIDE DEF f, g, k, T
  <2>5. Sum(g) = Sum(f) + Sum(k) /\ Sum(f) \in Nat
      BY <2>1, <2>2, <2>3, FiniteSets, SumAdded
  <2>6. WithdrawnIn(v, token) = Sum(f) /\ WithdrawnIn(w, token) = Sum(g)
      BY <1>3 DEF f, g
  <2> QED
      BY <2>4, <2>5, <2>6
<1> HIDE DEF F
<1> QED
    BY <1>4, <1>5, <1>6 DEF WithdrawnGrows

\* Withdrawals of which those of one account and token are others.
WithdrawnRow(w, a, token, row) == [w EXCEPT ![a][token] = row]

\* They are Withdrawals, and all others are the same.
LEMMA WithdrawnRowTypes ==
    ASSUME NEW v \in AllWithdrawals, NEW a \in Accounts, NEW token \in Tokens,
           NEW row \in [Seasons -> Nat], NEW w, w = WithdrawnRow(v, a, token, row)
    PROVE  /\ w \in AllWithdrawals /\ w[a][token] = row
           /\ \A b \in Accounts, t \in Tokens : b # a \/ t # token => w[b][t] = v[b][t]
<1>1. w \in AllWithdrawals
    BY DEF WithdrawnRow, AllWithdrawals
<1>2. v[a] \in [Tokens -> [Seasons -> Nat]]
    BY DEF AllWithdrawals
<1>3. w[a] = [v[a] EXCEPT ![token] = row]
    BY DEF WithdrawnRow, AllWithdrawals
<1>4. \A b \in Accounts : b # a => w[b] = v[b]
    BY DEF WithdrawnRow, AllWithdrawals
<1> QED
    BY <1>1, <1>2, <1>3, <1>4

WithdrawalAt(v, a, token, s, n) == [v EXCEPT ![a][token][s] = @ + n]

ClaimedAt(v, a, token, S) ==
    [v EXCEPT ![a][token] = [s \in Seasons |-> IF s \in S THEN 0 ELSE @[s]]]

\* A Withdrawal that will arrive at s.
LEMMA WithdrawalAdds ==
    ASSUME NEW v \in AllWithdrawals, NEW a \in Accounts, NEW token \in Tokens, NEW s \in Seasons,
           NEW n \in Nat, NEW w, w = WithdrawalAt(v, a, token, s, n)
    PROVE  MoreWithdrawn(v, w, a, token, {s}, Single(s, n))
<1> DEFINE old == v[a][token]
           row == [old EXCEPT ![s] = old[s] + n]
<1>1. old \in [Seasons -> Nat] /\ \A x \in Seasons : old[x] \in Nat
    BY DEF AllWithdrawals
<1>2. w = WithdrawnRow(v, a, token, row)
    BY DEF WithdrawnRow, AllWithdrawals, WithdrawalAt
<1> HIDE DEF old
<1>3. row \in [Seasons -> Nat]
      /\ \A x \in Seasons : row[x] = old[x] + (IF x \in {s} THEN Single(s, n)[x] ELSE 0)
    BY <1>1 DEF Single
<1> HIDE DEF row
<1>4. /\ w \in AllWithdrawals /\ w[a][token] = row
      /\ \A b \in Accounts, t \in Tokens : b # a \/ t # token => w[b][t] = v[b][t]
    BY <1>2, <1>3, WithdrawnRowTypes
<1>5. {s} \in SUBSET Seasons /\ Single(s, n) \in [{s} -> Nat]
    BY DEF Single
<1> QED
    BY <1>3, <1>4, <1>5 DEF MoreWithdrawn, old

\* A claim takes all there is at some Seasons.
LEMMA ClaimTakes ==
    ASSUME NEW v \in AllWithdrawals, NEW a \in Accounts, NEW token \in Tokens,
           NEW S \in SUBSET Seasons,
           NEW w, w = ClaimedAt(v, a, token, S)
    PROVE  MoreWithdrawn(w, v, a, token, S, [s \in S |-> v[a][token][s]])
<1> DEFINE old == v[a][token]
           row == [s \in Seasons |-> IF s \in S THEN 0 ELSE old[s]]
           h == [s \in S |-> old[s]]
<1>1. old \in [Seasons -> Nat] /\ \A x \in Seasons : old[x] \in Nat
    BY DEF AllWithdrawals
<1>2. w = WithdrawnRow(v, a, token, row)
    BY DEF WithdrawnRow, AllWithdrawals, ClaimedAt
<1> HIDE DEF old
<1>3. row \in [Seasons -> Nat] /\ h \in [S -> Nat]
      /\ \A x \in Seasons : old[x] = row[x] + (IF x \in S THEN h[x] ELSE 0)
    BY <1>1
<1> HIDE DEF row, h
<1>4. /\ w \in AllWithdrawals /\ w[a][token] = row
      /\ \A b \in Accounts, t \in Tokens : b # a \/ t # token => w[b][t] = v[b][t]
    BY <1>2, <1>3, WithdrawnRowTypes
<1>5. \A b \in Accounts, t \in Tokens : b # a \/ t # token => v[b][t] = w[b][t]
    BY <1>4
<1>6. MoreWithdrawn(w, v, a, token, S, h)
    BY <1>3, <1>4, <1>5 DEF MoreWithdrawn, old
<1> QED
    BY <1>6 DEF h, old

(***************************************************************************)
(* What the Silo has of the tokens                                         *)
(***************************************************************************)
Balances == [Tokens -> [deposited : Nat, withdrawn : Nat]]

MoonsOf(token, e) == IF token = MoonToken THEN e ELSE 0

\* The balances are the sums over accounts and Seasons, and of earned Moons e.
TokenTotals(b, d, w, e) ==
    /\ b \in Balances /\ w \in AllWithdrawals
    /\ \A t \in Tokens : /\ b[t].deposited = AmountsIn(d, t) + MoonsOf(t, e)
                         /\ b[t].withdrawn = WithdrawnIn(w, t)

\* One balance with other numbers.
Balance(b, token, n, m) == [b EXCEPT ![token] = [deposited |-> n, withdrawn |-> m]]

\* They are balances, and all others are the same.
LEMMA BalanceTypes ==
    ASSUME NEW b \in Balances, NEW token \in Tokens, NEW n \in Nat, NEW m \in Nat,
           NEW c, c = Balance(b, token, n, m)
    PROVE  /\ c \in Balances /\ c[token].deposited = n /\ c[token].withdrawn = m
           /\ \A t \in Tokens : t # token => c[t] = b[t]
BY DEF Balance, Balances

\* A balance has two numbers.
LEMMA BalanceOf ==
    ASSUME NEW b \in Balances, NEW token \in Tokens
    PROVE  b[token].deposited \in Nat /\ b[token].withdrawn \in Nat
           /\ b[token] = [deposited |-> b[token].deposited, withdrawn |-> b[token].withdrawn]
BY DEF Balances

\* The totals after one balance changed as the sums did.
LEMMA TotalsMoved ==
    ASSUME NEW b, NEW d, NEW w, NEW e, TokenTotals(b, d, w, e), NEW token \in Tokens,
           NEW n \in Nat, NEW m \in Nat, NEW c, c = Balance(b, token, n, m),
           NEW d2, NEW w2 \in AllWithdrawals, NEW e2,
           n = AmountsIn(d2, token) + MoonsOf(token, e2), m = WithdrawnIn(w2, token),
           \A t \in Tokens : t # token =>
              /\ AmountsIn(d2, t) = AmountsIn(d, t) /\ WithdrawnIn(w2, t) = WithdrawnIn(w, t)
              /\ MoonsOf(t, e2) = MoonsOf(t, e)
    PROVE  TokenTotals(c, d2, w2, e2)
<1>1. /\ b \in Balances
      /\ \A t \in Tokens : /\ b[t].deposited = AmountsIn(d, t) + MoonsOf(t, e)
                           /\ b[t].withdrawn = WithdrawnIn(w, t)
    BY DEF TokenTotals
<1>2. /\ c \in Balances /\ c[token].deposited = n /\ c[token].withdrawn = m
      /\ \A t \in Tokens : t # token => c[t] = b[t]
    BY <1>1, BalanceTypes
<1> QED
    BY <1>1, <1>2 DEF TokenTotals

(***************************************************************************)
(* All accounts, and one step of a silo and its Deposits                   *)
(***************************************************************************)

\* Every account is updated to some Season before and has its Deposits' Mage
\* and Seeds.
Accts(k, z, d) ==
    /\ k \in Clocks /\ d \in AllDeposits
    /\ \A a \in Accounts : z.acct[a].lastUpdate <= k.current /\ Sound(z, d, a)

\* The silo and the Deposits are as they should be.
SiloGood(k, z, d, e) == Balanced(z, e) /\ Accts(k, z, d)

\* Only account a differs.
OnlyOne(z, y, a) == \A b \in Accounts : b # a => y.acct[b] = z.acct[b]

\* When one account changes and is right after it, all are right.
LEMMA AcctsAfter ==
    ASSUME NEW k, NEW z, NEW d, Accts(k, z, d), NEW y, NEW a \in Accounts, OnlyOne(z, y, a),
           NEW d2, NEW token, NEW S, NEW crates, NEW bdvs,
           \/ Plus(d, d2, a, token, S, crates, bdvs)
           \/ Plus(d2, d, a, token, S, crates, bdvs)
           \/ d2 = d,
           y.acct[a].lastUpdate = k.current, Sound(y, d2, a)
    PROVE  Accts(k, y, d2)
<1>1. k \in Clocks /\ d \in AllDeposits /\ k.current \in Nat
    BY DEF Accts, Clocks, Seasons
<1>2. d2 \in AllDeposits
    BY <1>1 DEF Plus
<1>3. ASSUME NEW b \in Accounts, b # a
      PROVE  y.acct[b].lastUpdate <= k.current /\ Sound(y, d2, b)
  <2>1. y.acct[b] = z.acct[b]
      BY <1>3 DEF OnlyOne
  <2>2. z.acct[b].lastUpdate <= k.current /\ Sound(z, d, b)
      BY DEF Accts
  <2>3. CASE Plus(d, d2, a, token, S, crates, bdvs)
      BY <1>3, <2>1, <2>2, <2>3, OthersSound
  <2>4. CASE Plus(d2, d, a, token, S, crates, bdvs)
      BY <1>3, <2>1, <2>2, <2>4, OthersSound
  <2>5. CASE d2 = d
      BY <2>1, <2>2, <2>5 DEF Sound
  <2> QED
      BY <2>1, <2>2, <2>3, <2>4, <2>5
<1>4. y.acct[a].lastUpdate <= k.current
    BY <1>1
<1> QED
    BY <1>1, <1>2, <1>3, <1>4 DEF Accts

\* An update of one account.
LEMMA UpdateStep ==
    ASSUME NEW e \in Nat, NEW k, NEW z, NEW d, SiloGood(k, z, d, e), NEW a \in Accounts,
           CanUpdate(z, k, a), NEW y, y = Updated(z, k, a)
    PROVE  /\ SiloGood(k, y, d, e) /\ y \in Silos
           /\ OnlyOne(z, y, a) /\ y.acct[a].lastUpdate = k.current
<1>1. /\ Balanced(z, e) /\ Accts(k, z, d) /\ z \in Silos /\ k \in Clocks /\ d \in AllDeposits
      /\ z.acct[a].lastUpdate <= k.current /\ Sound(z, d, a)
    BY DEF SiloGood, Balanced, Accts
<1>2. Balanced(y, e) /\ Gains(z, a, y, GrownMage(z, k, a), 0, k.current)
    BY <1>1, UpdateBalanced
<1>3. Sound(y, d, a)
    BY <1>1, <1>2, UpdateSound
<1>4. OnlyOne(z, y, a) /\ y.acct[a].lastUpdate = k.current
    BY <1>2 DEF Gains, OnlyOne
<1>5. Accts(k, y, d)
    BY <1>1, <1>3, <1>4, AcctsAfter
<1> QED
    BY <1>2, <1>4, <1>5 DEF SiloGood, Balanced

\* Crates of Seasons that have come, with an amount if they have BDV.
Dateable(S, crates, bdvs, u) == \A s \in S : s <= u /\ (crates[s] > 0 \/ bdvs[s] = 0)

\* A Deposit with its Mage and Seeds.
LEMMA DepositStep ==
    ASSUME NEW e \in Nat, NEW k, NEW z, NEW d, SiloGood(k, z, d, e), NEW a \in Accounts,
           z.acct[a].lastUpdate = k.current, CanIncrementMage(z),
           NEW token \in Tokens, NEW d2, NEW S, NEW crates, NEW bdvs,
           Plus(d, d2, a, token, S, crates, bdvs), Dateable(S, crates, bdvs, k.current),
           NEW s \in Nat, NEW m \in Nat, Enough(s, Sum(bdvs) * TokenSeeds[token]),
           Enough(m, MageAt(token, bdvs, k.current)),
           NEW y, y = DepositSiloAssets(z, a, s, m)
    PROVE  /\ SiloGood(k, y, d2, e) /\ y \in Silos
           /\ OnlyOne(z, y, a) /\ y.acct[a].lastUpdate = k.current
<1>1. /\ Balanced(z, e) /\ Accts(k, z, d) /\ k.current \in Nat /\ Sound(z, d, a)
    BY DEF SiloGood, Accts, Clocks, Seasons
<1>2. Balanced(y, e) /\ Gains(z, a, y, m, s, k.current)
    BY <1>1, DepositBalanced
<1>3. Dated(d, a, k.current)
    BY <1>1 DEF Sound
<1>4. Dated(d2, a, k.current)
    BY <1>1, <1>3, DatedAfterDeposit DEF Dateable
<1>5. z \in Silos
    BY <1>1 DEF Balanced
<1>9. Gets(z, a, y, m, s)
    BY <1>2 DEF Gains, Gets
<1>6. Sound(y, d2, a)
    BY <1>1, <1>4, <1>5, <1>9, DepositSound
<1>7. OnlyOne(z, y, a) /\ y.acct[a].lastUpdate = k.current
    BY <1>2 DEF Gains, OnlyOne
<1>8. Accts(k, y, d2)
    BY <1>1, <1>6, <1>7, AcctsAfter
<1> QED
    BY <1>2, <1>7, <1>8 DEF SiloGood, Balanced

\* Deposits are left in d2 of those in d: whole, in part or nothing.
LeftOf(d2, d, a, token, S) ==
    \A s \in Seasons : \/ d2[a][token][s] = d[a][token][s] /\ s \notin S
                       \/ d2[a][token][s].amount # 0
                       \/ d2[a][token][s].bdv = 0

\* What leaves takes its Mage and Seeds along.
LEMMA RemovalStep ==
    ASSUME NEW e \in Nat, NEW k, NEW z, NEW d, SiloGood(k, z, d, e), NEW a \in Accounts,
           z.acct[a].lastUpdate = k.current,
           NEW token \in Tokens, NEW d2, NEW S, NEW crates, NEW bdvs,
           Plus(d2, d, a, token, S, crates, bdvs), LeftOf(d2, d, a, token, S),
           NEW s \in Nat, NEW m \in Nat, s = Sum(bdvs) * TokenSeeds[token],
           m = MageAt(token, bdvs, k.current),
           CanDecrementMage(z, k, a, m), CanDecrementSeeds(z, a, s),
           NEW y, y = DecrementSeeds(DecrementMage(z, k, a, m), a, s)
    PROVE  /\ SiloGood(k, y, d2, e) /\ y \in Silos
           /\ OnlyOne(z, y, a) /\ y.acct[a].lastUpdate = k.current
<1>1. /\ Balanced(z, e) /\ Accts(k, z, d) /\ k \in Clocks /\ k.current \in Nat /\ Sound(z, d, a)
    BY DEF SiloGood, Accts, Clocks, Seasons
<1>2. Balanced(y, e) /\ Gains(z, a, y, -m, -s, k.current)
    BY <1>1, WithdrawBalanced
<1>3. Dated(d, a, k.current)
    BY <1>1 DEF Sound
<1>4. Dated(d2, a, k.current)
    BY <1>1, <1>3, DatedAfterRemoval DEF LeftOf
<1>5. z \in Silos
    BY <1>1 DEF Balanced
<1>6. Loses(z, a, y, m, s)
  <2>1. z.acct[a].mage \in Nat /\ z.acct[a].seeds \in Nat
      BY <1>5, SilosHaveTypes
  <2> QED
      BY <1>2, <2>1 DEF Gains, Loses
<1>7. Sound(y, d2, a)
    BY <1>1, <1>4, <1>5, <1>6, RemovalSound
<1>8. OnlyOne(z, y, a) /\ y.acct[a].lastUpdate = k.current
    BY <1>2 DEF Gains, OnlyOne
<1>9. Accts(k, y, d2)
    BY <1>1, <1>7, <1>8, AcctsAfter
<1> QED
    BY <1>2, <1>8, <1>9 DEF SiloGood, Balanced

\* Planted Moons become a Deposit; their Mage was among all Mage.
LEMMA PlantStep ==
    ASSUME NEW e \in Nat, NEW k, NEW z, NEW d, SiloGood(k, z, d, e), NEW a \in Accounts,
           z.acct[a].lastUpdate = k.current,
           NEW token \in Tokens, NEW d2, NEW S, NEW crates, NEW bdvs,
           Plus(d, d2, a, token, S, crates, bdvs), Dateable(S, crates, bdvs, k.current),
           NEW s \in Nat, NEW n \in Nat, Enough(s, Sum(bdvs) * TokenSeeds[token]),
           n * MagePerMoon <= e, Enough(n * MagePerMoon, MageAt(token, bdvs, k.current)),
           NEW y, y = PlantedMage(IncrementSeeds(z, a, s), a, n)
    PROVE  SiloGood(k, y, d2, e - n * MagePerMoon) /\ y \in Silos
<1>1. /\ Balanced(z, e) /\ Accts(k, z, d) /\ k.current \in Nat /\ Sound(z, d, a)
    BY DEF SiloGood, Accts, Clocks, Seasons
<1>2. Balanced(y, e - n * MagePerMoon) /\ Gains(z, a, y, n * MagePerMoon, s, k.current)
    BY <1>1, PlantBalanced
<1> DEFINE m == n * MagePerMoon
<1>3. m \in Nat
    BY SiloAssumption
<1>4. Gets(z, a, y, m, s) /\ OnlyOne(z, y, a) /\ y.acct[a].lastUpdate = k.current
    BY <1>2 DEF Gains, Gets, OnlyOne
<1>5. Enough(m, MageAt(token, bdvs, k.current)) /\ Balanced(y, e - m)
    BY <1>2
<1> HIDE DEF m
<1>6. Dated(d, a, k.current)
    BY <1>1 DEF Sound
<1>7. Dated(d2, a, k.current)
    BY <1>1, <1>6, DatedAfterDeposit DEF Dateable
<1>8. z \in Silos
    BY <1>1 DEF Balanced
<1>9. Sound(y, d2, a)
    BY <1>1, <1>3, <1>4, <1>5, <1>7, <1>8, DepositSound
<1>10. Accts(k, y, d2)
    BY <1>1, <1>4, <1>9, AcctsAfter
<1> QED
    BY <1>5, <1>10 DEF SiloGood, Balanced, m

\* Account a has other Mage and Seeds: so much less, then so much more.
Swaps(z, a, y, m1, m2, s1, s2) ==
    /\ y.acct[a].mage = (z.acct[a].mage - m1) + m2
    /\ y.acct[a].seeds = (z.acct[a].seeds - s1) + s2
    /\ y.acct[a].lastUpdate = z.acct[a].lastUpdate

\* Deposits that leave, and others that come instead.
LEMMA SwapSound ==
    ASSUME NEW z \in Silos, NEW a \in Accounts, NEW token \in Tokens,
           NEW d, NEW d1, NEW d2, NEW S, NEW crates, NEW bdvs, NEW crates2, NEW bdvs2,
           Plus(d1, d, a, token, S, crates, bdvs), Plus(d1, d2, a, token, S, crates2, bdvs2),
           Sound(z, d, a), Dated(d2, a, z.acct[a].lastUpdate),
           NEW m \in Nat, NEW s \in Nat, Enough(s, Sum(bdvs2) * TokenSeeds[token]),
           Enough(m, MageAt(token, bdvs2, z.acct[a].lastUpdate)),
           NEW y, Swaps(z, a, y, MageAt(token, bdvs, z.acct[a].lastUpdate), m,
                        Sum(bdvs) * TokenSeeds[token], s)
    PROVE  Sound(y, d2, a)
<1> DEFINE u == z.acct[a].lastUpdate
           ds1 == Sum(bdvs) * TokenSeeds[token]
           dm1 == MageAt(token, bdvs, u)
           ds2 == Sum(bdvs2) * TokenSeeds[token]
           dm2 == MageAt(token, bdvs2, u)
<1>1. d \in AllDeposits /\ d1 \in AllDeposits /\ d2 \in AllDeposits
    BY DEF Plus
<1>2. u \in Nat /\ z.acct[a].seeds \in Nat /\ z.acct[a].mage \in Nat /\ AllEarly(d, a, u)
    BY <1>1, SoundFacts
<1>3. y.acct[a].mage = (z.acct[a].mage - dm1) + m /\ y.acct[a].seeds = (z.acct[a].seeds - ds1) + s
      /\ y.acct[a].lastUpdate = u
    BY DEF Swaps
<1>4. Enough(z.acct[a].seeds, HeldSeeds(d, a)) /\ Enough(z.acct[a].mage, HeldMage(d, a, u))
      /\ Enough(s, ds2) /\ Enough(m, dm2) /\ Dated(d2, a, u)
    BY DEF Sound
<1>5. AllEarly(d2, a, u)
    BY <1>1, <1>2, DatedIsEarly
<1> HIDE DEF u
<1>6. HoldsMore(d1, d, a, u, ds1, dm1)
    BY <1>2, PlusHeld, Zenon
<1>7. HoldsMore(d1, d2, a, u, ds2, dm2)
    BY <1>2, <1>5, PlusHeld, Zenon
<1> HIDE DEF ds1, dm1, ds2, dm2
<1>8. Enough(y.acct[a].seeds, HeldSeeds(d2, a)) /\ Enough(y.acct[a].mage, HeldMage(d2, a, u))
    BY <1>2, <1>3, <1>4, <1>6, <1>7 DEF Enough, HoldsMore
<1> QED
    BY <1>3, <1>4, <1>8 DEF Sound

\* Enrooted Deposits: other BDVs of the same crates, with no more of them
\* than the Seeds that are added count.
LEMMA EnrootStep ==
    ASSUME NEW e \in Nat, NEW k, NEW z, NEW d, SiloGood(k, z, d, e), NEW a \in Accounts,
           z.acct[a].lastUpdate = k.current, CanIncrementMage(z),
           NEW token \in Tokens, UnripeTokens # {}, NEW d1, NEW d2, NEW S, NEW crates,
           NEW bdvs, NEW bdvs2, Plus(d1, d, a, token, S, crates, bdvs),
           LeftOf(d1, d, a, token, S), Plus(d1, d2, a, token, S, crates, bdvs2),
           Dateable(S, crates, bdvs2, k.current),
           NEW s1 \in Nat, s1 = Sum(bdvs) * TokenSeeds[token],
           NEW s2 \in Nat, s2 >= Sum(bdvs2) * TokenSeeds[token],
           NEW m1 \in Nat, m1 = MageAt(token, bdvs, k.current),
           NEW m2 \in Nat, m2 = MageAt(token, bdvs2, k.current),
           s2 - s1 >= 0, m2 - m1 >= 0,
           NEW y, y = DepositSiloAssets(z, a, s2 - s1, m2 - m1)
    PROVE  SiloGood(k, y, d2, e) /\ y \in Silos
<1>1. /\ Balanced(z, e) /\ Accts(k, z, d) /\ k.current \in Nat /\ Sound(z, d, a)
  <2>1. Balanced(z, e) /\ Accts(k, z, d)
      BY Zenon DEF SiloGood
  <2>2. k \in Clocks /\ Sound(z, d, a)
      BY <2>1, Zenon DEF Accts
  <2>3. k.current \in Seasons
      BY <2>2, Zenon DEF Clocks
  <2> QED
      BY <2>1, <2>2, <2>3 DEF Seasons
<1>2. s2 - s1 \in Nat /\ m2 - m1 \in Nat
    OBVIOUS
<1>3. Balanced(y, e) /\ Gains(z, a, y, m2 - m1, s2 - s1, k.current)
    BY <1>1, <1>2, DepositBalanced
<1>4. z \in Silos
    BY <1>1 DEF Balanced
<1>5. Swaps(z, a, y, m1, m2, s1, s2) /\ OnlyOne(z, y, a) /\ y.acct[a].lastUpdate = k.current
  <2>1. z.acct[a].mage \in Nat /\ z.acct[a].seeds \in Nat
      BY <1>4, SilosHaveTypes
  <2> QED
      BY <1>3, <2>1 DEF Gains, Swaps, OnlyOne
<1>6. Dated(d, a, k.current)
    BY <1>1 DEF Sound
<1>7. Dated(d1, a, k.current)
    BY <1>1, <1>6, DatedAfterRemoval DEF LeftOf
<1>8. Dated(d2, a, k.current)
    BY <1>1, <1>7, DatedAfterDeposit DEF Dateable
<1>9. Enough(s2, Sum(bdvs2) * TokenSeeds[token]) /\ Enough(m2, MageAt(token, bdvs2, k.current))
    BY DEF Enough
<1>10. Sound(y, d2, a)
    BY <1>1, <1>4, <1>5, <1>8, <1>9, SwapSound
<1>11. Accts(k, y, d2)
  <2> SUFFICES ASSUME NEW b \in Accounts, b # a
               PROVE  y.acct[b].lastUpdate <= k.current /\ Sound(y, d2, b)
      BY <1>1, <1>5, <1>10 DEF Accts, Plus
  <2>1. y.acct[b] = z.acct[b] /\ z.acct[b].lastUpdate <= k.current /\ Sound(z, d, b)
      BY <1>1, <1>5 DEF OnlyOne, Accts
  <2>2. Sound(z, d1, b)
      BY <2>1, OthersSound
  <2>3. Sound(y, d2, b)
      BY <2>1, <2>2, OthersSound
  <2> QED
      BY <2>1, <2>3
<1> QED
    BY <1>3, <1>11 DEF SiloGood, Balanced

\* Transferred Deposits, with their Mage and Seeds.
LEMMA TransferStep ==
    ASSUME NEW e \in Nat, NEW k, NEW z, NEW d, SiloGood(k, z, d, e),
           NEW from \in Accounts, NEW to \in Accounts,
           z.acct[from].lastUpdate = k.current, z.acct[to].lastUpdate = k.current,
           NEW token \in Tokens, NEW d1, NEW d2, NEW S, NEW crates, NEW bdvs,
           Plus(d1, d, from, token, S, crates, bdvs), LeftOf(d1, d, from, token, S),
           Plus(d1, d2, to, token, S, crates, bdvs), Dateable(S, crates, bdvs, k.current),
           NEW s \in Nat, s = Sum(bdvs) * TokenSeeds[token],
           NEW m \in Nat, m = MageAt(token, bdvs, k.current),
           CanTransferMage(z, from, m), s <= z.acct[from].seeds,
           NEW y, y = TransferSeeds(TransferMage(z, from, to, m), from, to, s)
    PROVE  SiloGood(k, y, d2, e) /\ y \in Silos
<1>1. /\ Balanced(z, e) /\ Accts(k, z, d) /\ k.current \in Nat /\ z \in Silos /\ k \in Clocks
      /\ \A b \in Accounts : z.acct[b].lastUpdate <= k.current /\ Sound(z, d, b)
    BY DEF SiloGood, Accts, Clocks, Seasons, Balanced
<1>2. Balanced(y, e) /\ Gives(z, from, to, y, m, s)
    BY <1>1, TransferBalanced
<1>3. Enough(s, Sum(bdvs) * TokenSeeds[token]) /\ Enough(m, MageAt(token, bdvs, k.current))
    BY DEF Enough
<1>4. \A b \in Accounts : z.acct[b].mage \in Nat /\ z.acct[b].seeds \in Nat
    BY <1>1, SilosHaveTypes
<1>5. Dated(d1, from, k.current)
  <2>1. Dated(d, from, k.current)
      BY <1>1 DEF Sound
  <2> QED
      BY <1>1, <2>1, DatedAfterRemoval DEF LeftOf
<1>6. Dated(d2, to, k.current)
  <2>1. Dated(d, to, k.current)
      BY <1>1 DEF Sound
  <2>2. Dated(d1, to, k.current)
      BY <1>5, <2>1, DatedOthers
  <2> QED
      BY <1>1, <2>2, DatedAfterDeposit DEF Dateable
<1>7. ASSUME NEW b \in Accounts PROVE Sound(y, d2, b)
  <2>1. CASE b # from /\ b # to
    <3>1. y.acct[b].mage = z.acct[b].mage /\ y.acct[b].seeds = z.acct[b].seeds
          /\ y.acct[b].lastUpdate = z.acct[b].lastUpdate
        BY <1>2, <1>4, <2>1 DEF Gives
    <3>2. Sound(y, d1, b)
        BY <1>1, <2>1, <3>1, OthersSound
    <3> QED
        BY <2>1, <3>2, OthersSound
  <2>2. CASE b = from /\ b # to
    <3>1. Loses(z, b, y, m, s)
        BY <1>2, <1>4, <2>2 DEF Gives, Loses
    <3>2. Sound(y, d1, b)
        BY <1>1, <1>5, <2>2, <3>1, RemovalSound
    <3> QED
        BY <2>2, <3>2, OthersSound
  <2>3. CASE b # from /\ b = to
    <3>1. Gets(z, b, y, m, s)
        BY <1>2, <1>4, <2>3 DEF Gives, Gets
    <3>2. Sound(z, d1, b)
        BY <1>1, <2>3, OthersSound
    <3> QED
        BY <1>1, <1>3, <1>6, <2>3, <3>1, <3>2, DepositSound
  <2>4. CASE b = from /\ b = to
    <3>1. Swaps(z, b, y, m, m, s, s)
        BY <1>2, <1>4, <2>4 DEF Gives, Swaps
    <3> QED
        BY <1>1, <1>3, <1>6, <2>4, <3>1, SwapSound
  <2> QED
      BY <2>1, <2>2, <2>3, <2>4
<1>8. \A b \in Accounts : y.acct[b].lastUpdate <= k.current
    BY <1>1, <1>2 DEF Gives
<1>9. Accts(k, y, d2)
    BY <1>1, <1>7, <1>8 DEF Accts, Plus
<1> QED
    BY <1>2, <1>9 DEF SiloGood, Balanced

(***************************************************************************)
(* What one step does to the balances                                      *)
(***************************************************************************)

\* Updates of one part of a balance.
DepositedSet(b, token, n) == [b EXCEPT ![token].deposited = n]
WithdrawnSet(b, token, n) == [b EXCEPT ![token].withdrawn = n]

\* Both are a balance with other numbers.
LEMMA BalanceSet ==
    ASSUME NEW b \in Balances, NEW token \in Tokens, NEW n
    PROVE  /\ DepositedSet(b, token, n) = Balance(b, token, n, b[token].withdrawn)
           /\ WithdrawnSet(b, token, n) = Balance(b, token, b[token].deposited, n)
<1> DEFINE q == b[token]
<1>1. q \in [deposited : Nat, withdrawn : Nat]
    BY DEF Balances
<1>2. /\ DepositedSet(b, token, n) = [b EXCEPT ![token] = [q EXCEPT !.deposited = n]]
      /\ WithdrawnSet(b, token, n) = [b EXCEPT ![token] = [q EXCEPT !.withdrawn = n]]
    BY DEF DepositedSet, WithdrawnSet
<1> HIDE DEF q
<1>3. /\ [q EXCEPT !.deposited = n] = [deposited |-> n, withdrawn |-> q.withdrawn]
      /\ [q EXCEPT !.withdrawn = n] = [deposited |-> q.deposited, withdrawn |-> n]
    BY <1>1
<1> QED
    BY <1>2, <1>3 DEF Balance, q

\* Everything in one place that the totals are made of.
LEMMA TotalsTypes ==
    ASSUME NEW b, NEW d, NEW w, NEW e \in Nat, TokenTotals(b, d, w, e), NEW t \in Tokens
    PROVE  /\ b \in Balances /\ w \in AllWithdrawals
           /\ b[t].deposited \in Nat /\ b[t].withdrawn \in Nat /\ MoonsOf(t, e) \in Nat
           /\ b[t].deposited = AmountsIn(d, t) + MoonsOf(t, e)
           /\ b[t].withdrawn = WithdrawnIn(w, t)
<1>1. b \in Balances /\ w \in AllWithdrawals
    BY DEF TokenTotals
<1>2. b[t].deposited \in Nat /\ b[t].withdrawn \in Nat
    BY <1>1, BalanceOf
<1>3. MoonsOf(t, e) \in Nat
    BY DEF MoonsOf
<1> QED
    BY <1>1, <1>2, <1>3 DEF TokenTotals

DepositedMore(b, token, n) == [b EXCEPT ![token].deposited = @ + n]

\* What is deposited is counted.
LEMMA DepositTotals ==
    ASSUME NEW b, NEW d, NEW w, NEW e \in Nat, TokenTotals(b, d, w, e),
           NEW a \in Accounts, NEW token \in Tokens, NEW d2, NEW S, NEW crates, NEW bdvs,
           Plus(d, d2, a, token, S, crates, bdvs), NEW c, c = DepositedMore(b, token, Sum(crates))
    PROVE  TokenTotals(c, d2, w, e)
<1> DEFINE n == Sum(crates)
           m == b[token].withdrawn
           k == b[token].deposited
<1>1. /\ b \in Balances /\ w \in AllWithdrawals /\ k \in Nat /\ m \in Nat /\ MoonsOf(token, e) \in Nat
      /\ k = AmountsIn(d, token) + MoonsOf(token, e) /\ m = WithdrawnIn(w, token)
    BY TotalsTypes
<1>2. /\ n \in Nat
      /\ AmountsIn(d, token) \in Nat /\ AmountsIn(d2, token) = AmountsIn(d, token) + n
      /\ \A t \in Tokens : t # token => AmountsIn(d2, t) = AmountsIn(d, t)
  <2>1. AmountsGrow(d, d2, token, n)
      BY PlusAmounts
  <2> HIDE DEF n
  <2> QED
      BY <2>1 DEF AmountsGrow
<1>3. c = DepositedSet(b, token, k + n)
    BY DEF DepositedMore, DepositedSet
<1> HIDE DEF n
<1>4. c = Balance(b, token, k + n, m)
    BY <1>1, <1>3, BalanceSet
<1> HIDE DEF m, k
<1>5. k + n \in Nat /\ k + n = AmountsIn(d2, token) + MoonsOf(token, e)
    BY <1>1, <1>2
<1> QED
    BY <1>1, <1>2, <1>4, <1>5, TotalsMoved

WithdrawnMore(b, token, n) ==
    [b EXCEPT ![token] = [deposited |-> @.deposited - n, withdrawn |-> @.withdrawn + n]]

\* What is withdrawn is counted as withdrawn, and no more as deposited.
LEMMA WithdrawTotals ==
    ASSUME NEW b, NEW d, NEW w, NEW e \in Nat, TokenTotals(b, d, w, e),
           NEW a \in Accounts, NEW token \in Tokens, NEW d2, NEW S, NEW crates, NEW bdvs,
           Plus(d2, d, a, token, S, crates, bdvs),
           NEW s \in Seasons, NEW w2, w2 = WithdrawalAt(w, a, token, s, Sum(crates)),
           NEW c, c = WithdrawnMore(b, token, Sum(crates))
    PROVE  TokenTotals(c, d2, w2, e)
<1> DEFINE n == Sum(crates)
           m == b[token].withdrawn
           k == b[token].deposited
           one == Single(s, n)
<1>1. /\ b \in Balances /\ w \in AllWithdrawals /\ k \in Nat /\ m \in Nat /\ MoonsOf(token, e) \in Nat
      /\ k = AmountsIn(d, token) + MoonsOf(token, e) /\ m = WithdrawnIn(w, token)
    BY TotalsTypes
<1>2. /\ n \in Nat
      /\ AmountsIn(d2, token) \in Nat /\ AmountsIn(d, token) = AmountsIn(d2, token) + n
      /\ \A t \in Tokens : t # token => AmountsIn(d2, t) = AmountsIn(d, t)
  <2>1. AmountsGrow(d2, d, token, n)
      BY PlusAmounts
  <2> HIDE DEF n
  <2> QED
      BY <2>1 DEF AmountsGrow
<1>3. w2 = WithdrawalAt(w, a, token, s, n)
    OBVIOUS
<1>4. c = Balance(b, token, k - n, m + n)
    BY DEF WithdrawnMore, Balance
<1> HIDE DEF n
<1>5. MoreWithdrawn(w, w2, a, token, {s}, one)
    BY <1>1, <1>2, <1>3, WithdrawalAdds
<1>6. Sum(one) = n
    BY <1>2, SumOfSingle
<1> HIDE DEF m, k, one
<1>7. /\ WithdrawnIn(w, token) \in Nat /\ WithdrawnIn(w2, token) = WithdrawnIn(w, token) + n
      /\ \A t \in Tokens : t # token => WithdrawnIn(w2, t) = WithdrawnIn(w, t)
  <2>1. WithdrawnGrows(w, w2, token, Sum(one))
      BY <1>5, WithdrawnSum
  <2> QED
      BY <1>6, <2>1 DEF WithdrawnGrows
<1>8. w2 \in AllWithdrawals
    BY <1>5 DEF MoreWithdrawn
<1>9. k - n \in Nat /\ k - n = AmountsIn(d2, token) + MoonsOf(token, e)
      /\ m + n \in Nat /\ m + n = WithdrawnIn(w2, token)
    BY <1>1, <1>2, <1>7
<1> QED
    BY <1>2, <1>4, <1>7, <1>8, <1>9, TotalsMoved

WithdrawnLess(b, token, n) == [b EXCEPT ![token].withdrawn = @ - n]

\* What is claimed is no more counted as withdrawn.
LEMMA ClaimTotals ==
    ASSUME NEW b, NEW d, NEW w, NEW e \in Nat, TokenTotals(b, d, w, e),
           NEW a \in Accounts, NEW token \in Tokens, NEW S \in SUBSET Seasons,
           NEW w2, w2 = ClaimedAt(w, a, token, S),
           NEW c, c = WithdrawnLess(b, token, Sum([s \in S |-> w[a][token][s]]))
    PROVE  TokenTotals(c, d, w2, e)
<1> DEFINE h == [s \in S |-> w[a][token][s]]
           n == Sum(h)
           m == b[token].withdrawn
           k == b[token].deposited
<1>1. /\ b \in Balances /\ w \in AllWithdrawals /\ k \in Nat /\ m \in Nat /\ MoonsOf(token, e) \in Nat
      /\ k = AmountsIn(d, token) + MoonsOf(token, e) /\ m = WithdrawnIn(w, token)
    BY TotalsTypes
<1>2. MoreWithdrawn(w2, w, a, token, S, h)
    BY <1>1, ClaimTakes
<1>3. c = WithdrawnSet(b, token, m - n)
    BY DEF WithdrawnLess, WithdrawnSet
<1> HIDE DEF h
<1>4. /\ n \in Nat /\ WithdrawnIn(w2, token) \in Nat
      /\ WithdrawnIn(w, token) = WithdrawnIn(w2, token) + n
      /\ \A t \in Tokens : t # token => WithdrawnIn(w2, t) = WithdrawnIn(w, t)
  <2>1. WithdrawnGrows(w2, w, token, n)
      BY <1>2, WithdrawnSum
  <2> HIDE DEF n
  <2> QED
      BY <2>1 DEF WithdrawnGrows
<1> HIDE DEF n
<1>5. c = Balance(b, token, k, m - n)
    BY <1>1, <1>3, BalanceSet
<1> HIDE DEF m, k
<1>6. m - n \in Nat /\ m - n = WithdrawnIn(w2, token)
    BY <1>1, <1>4
<1>7. w2 \in AllWithdrawals
    BY <1>2 DEF MoreWithdrawn
<1> QED
    BY <1>1, <1>4, <1>5, <1>6, <1>7, TotalsMoved

\* Moons that are planted were among those deposited before.
LEMMA PlantTotals ==
    ASSUME NEW b, NEW d, NEW w, NEW e \in Nat, TokenTotals(b, d, w, e),
           NEW a \in Accounts, NEW d2, NEW S, NEW crates, NEW bdvs,
           Plus(d, d2, a, MoonToken, S, crates, bdvs), Sum(crates) <= e
    PROVE  TokenTotals(b, d2, w, e - Sum(crates))
<1> DEFINE n == Sum(crates)
<1>1. /\ b \in Balances /\ w \in AllWithdrawals /\ MoonToken \in Tokens
    BY SiloAssumption DEF TokenTotals
<1>2. AmountsGrow(d, d2, MoonToken, n)
    BY <1>1, PlusAmounts
<1>3. n <= e
    OBVIOUS
<1> HIDE DEF n
<1>4. \A t \in Tokens : /\ b[t].deposited = AmountsIn(d2, t) + MoonsOf(t, e - n)
                        /\ b[t].withdrawn = WithdrawnIn(w, t)
  <2> SUFFICES ASSUME NEW t \in Tokens
               PROVE  /\ b[t].deposited = AmountsIn(d2, t) + MoonsOf(t, e - n)
                      /\ b[t].withdrawn = WithdrawnIn(w, t)
      OBVIOUS
  <2>1. n \in Nat /\ AmountsIn(d, t) \in Nat
        /\ AmountsIn(d2, t) = AmountsIn(d, t) + (IF t = MoonToken THEN n ELSE 0)
      BY <1>2 DEF AmountsGrow
  <2>2. b[t].deposited = AmountsIn(d, t) + MoonsOf(t, e) /\ b[t].withdrawn = WithdrawnIn(w, t)
      BY DEF TokenTotals
  <2> QED
      BY <1>3, <2>1, <2>2 DEF MoonsOf
<1> QED
    BY <1>1, <1>4 DEF TokenTotals, n

\* A transfer changes no total.
LEMMA TransferTotals ==
    ASSUME NEW b, NEW d, NEW w, NEW e \in Nat, TokenTotals(b, d, w, e),
           NEW from \in Accounts, NEW to \in Accounts, NEW token \in Tokens,
           NEW d1, NEW d2, NEW S, NEW crates, NEW bdvs, NEW bdvs2,
           Plus(d1, d, from, token, S, crates, bdvs), Plus(d1, d2, to, token, S, crates, bdvs2)
    PROVE  TokenTotals(b, d2, w, e)
<1>1. AmountsGrow(d1, d, token, Sum(crates)) /\ AmountsGrow(d1, d2, token, Sum(crates))
    BY PlusAmounts
<1>2. \A t \in Tokens : AmountsIn(d2, t) = AmountsIn(d, t)
    BY <1>1 DEF AmountsGrow
<1> QED
    BY <1>2 DEF TokenTotals

DepositedLess(b, token, n) == [b EXCEPT ![token].deposited = @ - n]

\* What a Convert takes out of a token.
LEMMA TakenTotals ==
    ASSUME NEW b, NEW d, NEW w, NEW e \in Nat, TokenTotals(b, d, w, e),
           NEW a \in Accounts, NEW token \in Tokens, NEW d2, NEW S, NEW crates, NEW bdvs,
           Plus(d2, d, a, token, S, crates, bdvs), NEW c, c = DepositedLess(b, token, Sum(crates))
    PROVE  TokenTotals(c, d2, w, e)
<1> DEFINE n == Sum(crates)
           m == b[token].withdrawn
           k == b[token].deposited
<1>1. /\ b \in Balances /\ w \in AllWithdrawals /\ k \in Nat /\ m \in Nat /\ MoonsOf(token, e) \in Nat
      /\ k = AmountsIn(d, token) + MoonsOf(token, e) /\ m = WithdrawnIn(w, token)
    BY TotalsTypes
<1>2. /\ n \in Nat
      /\ AmountsIn(d2, token) \in Nat /\ AmountsIn(d, token) = AmountsIn(d2, token) + n
      /\ \A t \in Tokens : t # token => AmountsIn(d2, t) = AmountsIn(d, t)
  <2>1. AmountsGrow(d2, d, token, n)
      BY PlusAmounts
  <2> HIDE DEF n
  <2> QED
      BY <2>1 DEF AmountsGrow
<1>3. c = DepositedSet(b, token, k - n)
    BY DEF DepositedLess, DepositedSet
<1> HIDE DEF n
<1>4. c = Balance(b, token, k - n, m)
    BY <1>1, <1>3, BalanceSet
<1> HIDE DEF m, k
<1>5. k - n \in Nat /\ k - n = AmountsIn(d2, token) + MoonsOf(token, e)
    BY <1>1, <1>2
<1> QED
    BY <1>1, <1>2, <1>4, <1>5, TotalsMoved

\* Moons minted for the Silo are deposited at once and planted later.
LEMMA MintTotals ==
    ASSUME NEW b, NEW d \in AllDeposits, NEW w, NEW e \in Nat, TokenTotals(b, d, w, e),
           NEW n \in Nat, NEW c, c = DepositedMore(b, MoonToken, n)
    PROVE  TokenTotals(c, d, w, e + n)
<1> DEFINE m == b[MoonToken].withdrawn
           k == b[MoonToken].deposited
<1>1. MoonToken \in Tokens
    BY SiloAssumption
<1>2. /\ b \in Balances /\ w \in AllWithdrawals /\ k \in Nat /\ m \in Nat
      /\ k = AmountsIn(d, MoonToken) + e /\ m = WithdrawnIn(w, MoonToken)
    BY <1>1, TotalsTypes DEF MoonsOf
<1>3. c = Balance(b, MoonToken, k + n, m)
  <2>1. c = DepositedSet(b, MoonToken, k + n)
      BY DEF DepositedMore, DepositedSet
  <2> QED
      BY <1>1, <1>2, <2>1, BalanceSet
<1>4. AmountsIn(d, MoonToken) \in Nat
  <2> DEFINE f == [p \in Places |-> d[p[1]][MoonToken][p[2]].amount]
  <2>1. ASSUME NEW p \in Places PROVE d[p[1]][MoonToken][p[2]].amount \in Nat
    <3>1. p[1] \in Accounts /\ p[2] \in Seasons
        BY DEF Places
    <3> QED
        BY <1>1, <3>1, RowOf
  <2>2. AmountsIn(d, MoonToken) = Sum(f)
      BY DEF AmountsIn, Places
  <2>3. IsFiniteSet(DOMAIN f) /\ \A p \in DOMAIN f : f[p] \in Nat
      BY <2>1, FiniteSets
  <2> HIDE DEF f
  <2>4. Sum(f) \in Nat
      BY <2>3, SumType
  <2> QED
      BY <2>2, <2>4
<1> HIDE DEF m, k
<1>5. k + n \in Nat /\ k + n = AmountsIn(d, MoonToken) + MoonsOf(MoonToken, e + n)
    BY <1>2, <1>4 DEF MoonsOf
<1>6. \A t \in Tokens : t # MoonToken => MoonsOf(t, e + n) = MoonsOf(t, e)
    BY DEF MoonsOf
<1> QED
    BY <1>1, <1>2, <1>3, <1>5, <1>6, TotalsMoved

(***************************************************************************)
(* The actions                                                             *)
(***************************************************************************)

\* The operators of the module, at the current Season.
LEMMA MageOfIs ==
    ASSUME NEW token, NEW bdvs
    PROVE  /\ MageOf(token, bdvs) = MageAt(token, bdvs, clock.current)
           /\ SeedsOf(token, bdvs) = Sum(bdvs) * TokenSeeds[token]
           /\ GrownOf(token, bdvs) = Sum(Growth(token, bdvs, clock.current))
BY DEF MageOf, MageAt, SeedsOf, GrownOf, Growth

\* What one Deposit of BDV n has when it dates w Seasons back from u.
SingleHas(token, s, n, u, w) ==
    /\ Single(s, n) \in [{s} -> Nat] /\ Sum(Single(s, n)) = n
    /\ n * TokenSeeds[token] \in Nat /\ n * TokenMage[token] \in Nat
    /\ MageAt(token, Single(s, n), u)
         = n * TokenMage[token] + (n * TokenSeeds[token]) * w
    /\ Sum(Growth(token, Single(s, n), u)) = (n * TokenSeeds[token]) * w

\* The Mage of one Deposit.
LEMMA SingleMage ==
    ASSUME NEW token \in Tokens, NEW s \in Seasons, NEW n \in Nat, NEW w \in Nat,
           NEW u, u = s + w
    PROVE  SingleHas(token, s, n, u, w)
<1>1. Single(s, n) \in [{s} -> Nat] /\ DOMAIN Single(s, n) = {s} /\ Single(s, n)[s] = n
    BY DEF Single
<1>2. Sum(Single(s, n)) = n
    BY SumOfSingle
<1>3. TokenSeeds[token] \in Nat /\ TokenMage[token] \in Nat /\ u - s = w
    BY SiloAssumption DEF Seasons
<1> DEFINE p == n * TokenSeeds[token]
<1>4. p \in Nat /\ n * TokenMage[token] \in Nat
    BY <1>3
<1> HIDE DEF p
<1> DEFINE g == p * w
<1>5. g \in Nat
    BY <1>4
<1>6. Growth(token, Single(s, n), u) = Single(s, g)
  <2>1. \A x \in {s} : Single(s, n)[x] * TokenSeeds[token] * (u - x) = g
      BY <1>1, <1>3 DEF p
  <2> QED
      BY <1>1, <2>1 DEF Growth, Single
<1>7. Sum(Growth(token, Single(s, n), u)) = g
    BY <1>5, <1>6, SumOfSingle
<1> QED
    BY <1>1, <1>2, <1>4, <1>7 DEF MageAt, SingleHas, p

\* An account has Deposits of the Seasons up to now, at most.
LEMMA DatedNow ==
    ASSUME NEW e, NEW k, NEW z, NEW d, SiloGood(k, z, d, e), NEW a \in Accounts
    PROVE  /\ z \in Silos /\ d \in AllDeposits /\ k \in Clocks
           /\ k.current \in Seasons /\ k.current \in Nat
           /\ z.acct[a].lastUpdate \in Nat /\ z.acct[a].lastUpdate <= k.current
           /\ Dated(d, a, k.current)
<1>1. z \in Silos /\ d \in AllDeposits /\ k \in Clocks
      /\ z.acct[a].lastUpdate <= k.current /\ Sound(z, d, a)
    BY DEF SiloGood, Balanced, Accts
<1>2. z.acct[a].lastUpdate \in Nat /\ k.current \in Seasons /\ k.current \in Nat
    BY <1>1, SilosHaveTypes DEF Clocks, Seasons
<1>3. Dated(d, a, z.acct[a].lastUpdate)
    BY <1>1 DEF Sound
<1> QED
    BY <1>1, <1>2, <1>3, DatedLater

\* Crates that an account can give.
LEMMA CratesTypes ==
    ASSUME deposits \in AllDeposits, NEW a \in Accounts, NEW token \in Tokens,
           NEW amounts \in SUBSET (Nat \ {0}), NEW crates \in Crates(a, token, amounts),
           NEW u \in Nat, Dated(deposits, a, u)
    PROVE  /\ DOMAIN crates \in SUBSET Seasons /\ DOMAIN crates # {}
           /\ crates \in [DOMAIN crates -> Nat]
           /\ \A s \in DOMAIN crates : crates[s] > 0 /\ s <= u
<1>1. PICK S \in (SUBSET Held(a, token)) \ {{}} : crates \in [S -> amounts]
    BY DEF Crates
<1>2. DOMAIN crates = S /\ S # {} /\ \A s \in S : crates[s] \in Nat /\ crates[s] > 0
  <2>1. DOMAIN crates = S /\ S # {} /\ \A s \in S : crates[s] \in amounts
      BY <1>1, Zenon
  <2>2. \A n \in amounts : n \in Nat /\ n > 0
      OBVIOUS
  <2> QED
      BY <2>1, <2>2
<1>3. ASSUME NEW s \in S
      PROVE  s \in Seasons /\ s <= u
    BY <1>1, <1>3 DEF Held, Dated
<1>4. crates \in [S -> Nat]
    BY <1>1
<1> QED
    BY <1>2, <1>3, <1>4

\* DepositsAreRemoved, with names for what it says.
LEMMA DepositsTaken ==
    ASSUME deposits \in AllDeposits, NEW a \in Accounts, NEW token \in Tokens,
           NEW S \in SUBSET Seasons, NEW crates \in [S -> Nat], CanRemove(a, token, crates),
           NEW d, d = RemoveDeposits(a, token, crates)
    PROVE  /\ Plus(d, deposits, a, token, S, crates, BdvsOf(a, token, crates))
           /\ LeftOf(d, deposits, a, token, S)
<1>1. /\ Plus(d, deposits, a, token, S, crates, BdvsOf(a, token, crates))
      /\ \A s \in Seasons :
                 \/ d[a][token][s] = deposits[a][token][s] /\ s \notin S
                 \/ d[a][token][s].amount # 0
                 \/ d[a][token][s].bdv = 0
    BY DepositsAreRemoved, Zenon
<1> QED
    BY <1>1 DEF LeftOf

\* What leaves d, and what it leaves behind.
Leaves(d, a, token, crates, bdvs) ==
    /\ Plus(d, deposits, a, token, DOMAIN crates, crates, bdvs)
    /\ LeftOf(d, deposits, a, token, DOMAIN crates)
    /\ Dateable(DOMAIN crates, crates, bdvs, clock.current)
    /\ Sum(crates) \in Nat
    /\ Sum(bdvs) \in Nat /\ SeedsOf(token, bdvs) \in Nat /\ MageOf(token, bdvs) \in Nat
    /\ Early(bdvs, clock.current)

\* Crates that are removed, out of Deposits that are sound.
LEMMA CratesLeave ==
    ASSUME NEW e, NEW z, SiloGood(clock, z, deposits, e), NEW a \in Accounts,
           NEW token \in Tokens, NEW amounts \in SUBSET (Nat \ {0}),
           NEW crates \in Crates(a, token, amounts), CanRemove(a, token, crates),
           NEW d, d = RemoveDeposits(a, token, crates)
    PROVE  Leaves(d, a, token, crates, BdvsOf(a, token, crates))
<1> DEFINE S == DOMAIN crates
           bdvs == BdvsOf(a, token, crates)
           u == clock.current
<1>1. deposits \in AllDeposits /\ u \in Nat /\ Dated(deposits, a, u)
    BY DatedNow
<1>2. S \in SUBSET Seasons /\ crates \in [S -> Nat] /\ \A s \in S : crates[s] > 0 /\ s <= u
    BY <1>1, CratesTypes
<1> HIDE DEF S
<1>3. /\ Plus(d, deposits, a, token, S, crates, BdvsOf(a, token, crates))
      /\ LeftOf(d, deposits, a, token, S)
    BY <1>1, <1>2, DepositsTaken, Zenon
<1>4. Plus(d, deposits, a, token, S, crates, bdvs)
    BY <1>3
<1>5. Dateable(S, crates, bdvs, u)
    BY <1>2 DEF Dateable
<1>6. Sum(crates) \in Nat
    BY <1>2, SeasonsSum
<1> HIDE DEF bdvs, u
<1>7. AllEarly(deposits, a, u)
    BY <1>1, DatedIsEarly
<1>8. /\ Early(bdvs, u) /\ Sum(bdvs) \in Nat /\ Sum(bdvs) * TokenSeeds[token] \in Nat
      /\ MageAt(token, bdvs, u) \in Nat
    BY <1>1, <1>4, <1>7, PlusHeld
<1>9. SeedsOf(token, bdvs) \in Nat /\ MageOf(token, bdvs) \in Nat
    BY <1>8, MageOfIs DEF u
<1> QED
    BY <1>4, <1>3, <1>5, <1>6, <1>8, <1>9 DEF Leaves, S, bdvs, u

\* The Mage of a Deposit of now.
LEMMA SingleMageNow ==
    ASSUME NEW token \in Tokens, NEW n \in Nat, NEW u \in Seasons
    PROVE  /\ Single(u, n) \in [{u} -> Nat] /\ Sum(Single(u, n)) = n
           /\ n * TokenSeeds[token] \in Nat /\ n * TokenMage[token] \in Nat
           /\ MageAt(token, Single(u, n), u) = n * TokenMage[token]
<1>1. u = u + 0
    BY DEF Seasons
<1>2. /\ Single(u, n) \in [{u} -> Nat] /\ Sum(Single(u, n)) = n
      /\ n * TokenSeeds[token] \in Nat /\ n * TokenMage[token] \in Nat
      /\ MageAt(token, Single(u, n), u)
            = n * TokenMage[token] + (n * TokenSeeds[token]) * 0
  <2>1. SingleHas(token, u, n, u, 0)
      BY <1>1, SingleMage
  <2> QED
      BY <2>1, Zenon DEF SingleHas
<1>3. \A x, y \in Nat : x + y * 0 = x
    OBVIOUS
<1> QED
    BY <1>2, <1>3

AllAllowances == [Accounts -> [Accounts -> [Tokens -> Nat]]]

\* The invariant: the totals are sums, and every account had the Mage and the
\* Seeds of its Deposits when it was last updated.
SInv ==
    /\ SiloGood(clock, silo, deposits, earnedMoons * MagePerMoon)
    /\ TokenTotals(siloBalances, deposits, withdrawals, earnedMoons)
    /\ clock.current > 0 /\ earnedMoons \in Nat /\ threeCrv \in Nat
    /\ allowances \in AllAllowances

\* What the steps need of it.
LEMMA SInvFacts ==
    ASSUME SInv
    PROVE  /\ earnedMoons \in Nat /\ earnedMoons * MagePerMoon \in Nat
           /\ clock \in Clocks /\ clock.current \in Seasons /\ clock.current \in Nat
           /\ clock.current > 0 /\ silo \in Silos /\ deposits \in AllDeposits
           /\ withdrawals \in AllWithdrawals /\ siloBalances \in Balances
<1>1. earnedMoons * MagePerMoon \in Nat /\ earnedMoons \in Nat
  <2>1. MagePerMoon \in Nat /\ earnedMoons \in Nat
      BY SiloAssumption DEF SInv
  <2>2. \A m, n \in Nat : m * n \in Nat
      OBVIOUS
  <2> QED
      BY <2>1, <2>2
<1> QED
    BY <1>1 DEF SInv, SiloGood, Balanced, Accts, TokenTotals, Clocks, Seasons

\* An account after its update, in a call.
LEMMA CallUpdates ==
    ASSUME SInv, NEW a \in Accounts, CanUpdate(silo, clock, a)
    PROVE  LET updated == Updated(silo, clock, a) IN
           /\ SiloGood(clock, updated, deposits, earnedMoons * MagePerMoon)
           /\ updated \in Silos /\ updated.acct[a].lastUpdate = clock.current
           /\ OnlyOne(silo, updated, a)
BY SInvFacts, UpdateStep DEF SInv

\* deposit keeps the invariant.
LEMMA DepositKeepsSInv ==
    ASSUME SInv, NEW c \in Accounts, NEW token \in Tokens, NEW amount \in DepositAmounts,
           NEW bdv \in Bdvs, Deposit(c, token, amount, bdv)
    PROVE  SInv'
<1> DEFINE updated == Updated(silo, clock, c)
           k == clock.current
           e == earnedMoons * MagePerMoon
           s == bdv * TokenSeeds[token]
           m == bdv * TokenMage[token]
<1>1. /\ silo' = DepositSiloAssets(updated, c, s, m)
      /\ deposits' = AddDeposit(deposits, c, token, k, amount, bdv)
      /\ siloBalances' = DepositedMore(siloBalances, token, amount)
      /\ CanUpdate(silo, clock, c) /\ CanIncrementMage(updated)
      /\ UNCHANGED <<clock, withdrawals, earnedMoons, allowances, threeCrv>>
    BY DEF Deposit, DepositedMore
<1>2. amount \in Nat /\ amount > 0 /\ bdv \in Nat
    BY SiloAssumption
<1>3. /\ SiloGood(clock, updated, deposits, e) /\ updated.acct[c].lastUpdate = k
    BY <1>1, CallUpdates
<1>4. e \in Nat /\ k \in Seasons /\ k \in Nat /\ deposits \in AllDeposits
    BY SInvFacts
<1> HIDE DEF updated, e
<1>5. Plus(deposits, deposits', c, token, {k}, Single(k, amount), Single(k, bdv))
    BY <1>1, <1>2, <1>4, DepositIsAdded
<1>6. /\ Sum(Single(k, amount)) = amount
      /\ Sum(Single(k, bdv)) * TokenSeeds[token] = s /\ s \in Nat /\ m \in Nat
      /\ MageAt(token, Single(k, bdv), k) = m
  <2>1. Sum(Single(k, amount)) = amount
      BY <1>2, <1>4, SumOfSingle
  <2> HIDE DEF k
  <2>2. /\ Sum(Single(k, bdv)) = bdv /\ s \in Nat /\ m \in Nat
        /\ MageAt(token, Single(k, bdv), k) = m
      BY <1>2, <1>4, SingleMageNow
  <2> QED
      BY <2>1, <2>2
<1>7. Dateable({k}, Single(k, amount), Single(k, bdv), k)
    BY <1>2, <1>4 DEF Dateable, Single
<1>8. Enough(s, Sum(Single(k, bdv)) * TokenSeeds[token])
      /\ Enough(m, MageAt(token, Single(k, bdv), k))
    BY <1>6 DEF Enough
<1> HIDE DEF s, m
<1>9. SiloGood(clock, silo', deposits', e)
  <2> HIDE DEF k
  <2>1. k = clock.current
      BY DEF k
  <2> QED
      BY <1>1, <1>3, <1>4, <1>5, <1>6, <1>7, <1>8, <2>1, DepositStep
<1>10. TokenTotals(siloBalances', deposits', withdrawals, earnedMoons)
  <2>1. siloBalances' = DepositedMore(siloBalances, token, Sum(Single(k, amount)))
      BY <1>1, <1>6
  <2> QED
      BY <2>1, <1>5, SInvFacts, DepositTotals DEF SInv
<1> QED
    BY <1>1, <1>9, <1>10 DEF SInv, e

\* withdrawDeposits keeps the invariant.
LEMMA WithdrawKeepsSInv ==
    ASSUME SInv, NEW c \in Accounts, NEW token \in Tokens,
           NEW crates \in Crates(c, token, WithdrawAmounts), WithdrawDeposits(c, token, crates)
    PROVE  SInv'
<1> DEFINE updated == Updated(silo, clock, c)
           e == earnedMoons * MagePerMoon
           bdvs == BdvsOf(c, token, crates)
           s == SeedsOf(token, bdvs)
           m == MageOf(token, bdvs)
           arrival == clock.current + WithdrawSeasons
<1>1. /\ arrival \in Seasons /\ CanUpdate(silo, clock, c) /\ CanRemove(c, token, crates)
      /\ CanDecrementMage(updated, clock, c, m) /\ CanDecrementSeeds(updated, c, s)
      /\ silo' = DecrementSeeds(DecrementMage(updated, clock, c, m), c, s)
      /\ deposits' = RemoveDeposits(c, token, crates)
      /\ withdrawals' = WithdrawalAt(withdrawals, c, token, arrival, Sum(crates))
      /\ siloBalances' = WithdrawnMore(siloBalances, token, Sum(crates))
      /\ UNCHANGED <<clock, earnedMoons, allowances, threeCrv>>
    BY Zenon DEF WithdrawDeposits, CanWithdraw, WithdrawSiloAssets, WithdrawalAt,
                 BalanceAfterWithdrawal, WithdrawnMore
<1>2. WithdrawAmounts \in SUBSET (Nat \ {0})
    BY SiloAssumption
<1>3. SiloGood(clock, updated, deposits, e) /\ updated.acct[c].lastUpdate = clock.current
    BY <1>1, CallUpdates
<1>4. e \in Nat
    BY SInvFacts
<1> HIDE DEF updated, e
<1>5. Leaves(deposits', c, token, crates, bdvs)
    BY <1>1, <1>2, <1>3, CratesLeave
<1> HIDE DEF bdvs, arrival
<1>6. /\ Plus(deposits', deposits, c, token, DOMAIN crates, crates, bdvs)
      /\ LeftOf(deposits', deposits, c, token, DOMAIN crates)
      /\ s \in Nat /\ m \in Nat
    BY <1>5 DEF Leaves
<1>7. s = Sum(bdvs) * TokenSeeds[token] /\ m = MageAt(token, bdvs, clock.current)
    BY MageOfIs
<1> HIDE DEF s, m
<1>8. SiloGood(clock, silo', deposits', e)
    BY <1>1, <1>3, <1>4, <1>6, <1>7, RemovalStep
<1>9. TokenTotals(siloBalances', deposits', withdrawals', earnedMoons)
    BY <1>1, <1>6, SInvFacts, WithdrawTotals DEF SInv
<1> QED
    BY <1>1, <1>8, <1>9 DEF SInv, e

\* claimWithdrawals keeps the invariant.
LEMMA ClaimKeepsSInv ==
    ASSUME SInv, NEW c \in Accounts, NEW token \in Tokens, NEW seasons \in SUBSET Seasons,
           ClaimWithdrawals(c, token, seasons)
    PROVE  SInv'
<1>1. /\ withdrawals' = ClaimedAt(withdrawals, c, token, seasons)
      /\ siloBalances' = WithdrawnLess(siloBalances, token,
                             Sum([s \in seasons |-> withdrawals[c][token][s]]))
      /\ UNCHANGED <<clock, silo, deposits, earnedMoons, allowances, threeCrv>>
    BY Zenon DEF ClaimWithdrawals, ClaimedAt, WithdrawnLess
<1>2. TokenTotals(siloBalances', deposits, withdrawals', earnedMoons)
    BY <1>1, SInvFacts, ClaimTotals DEF SInv
<1> QED
    BY <1>1, <1>2 DEF SInv

\* approveDeposit keeps the invariant.
LEMMA ApproveKeepsSInv ==
    ASSUME SInv, NEW c \in Accounts, NEW spender \in Accounts, NEW token \in Tokens,
           NEW amount \in Allowances, ApproveDeposit(c, spender, token, amount)
    PROVE  SInv'
<1>1. /\ allowances' = [allowances EXCEPT ![c][spender][token] = amount]
      /\ UNCHANGED <<clock, silo, assetVars, earnedMoons, threeCrv>>
    BY DEF ApproveDeposit
<1>2. allowances \in AllAllowances /\ amount \in Nat
    BY SiloAssumption DEF SInv
<1>3. allowances' \in AllAllowances
    BY <1>1, <1>2 DEF AllAllowances
<1> QED
    BY <1>1, <1>3 DEF SInv, assetVars

\* update keeps the invariant.
LEMMA UpdateKeepsSInv ==
    ASSUME SInv, NEW a \in Accounts, Update(a)
    PROVE  SInv'
<1>1. /\ silo' = Updated(silo, clock, a) /\ CanUpdate(silo, clock, a)
      /\ UNCHANGED <<clock, assetVars, earnedMoons, allowances, threeCrv>>
    BY DEF Update
<1>2. SiloGood(clock, silo', deposits, earnedMoons * MagePerMoon)
    BY <1>1, CallUpdates
<1> QED
    BY <1>1, <1>2 DEF SInv, assetVars

\* claimPlenty keeps the invariant.
LEMMA ClaimPlentyKeepsSInv ==
    ASSUME SInv, NEW c \in Accounts, ClaimPlenty(c)
    PROVE  SInv'
<1> DEFINE e == earnedMoons * MagePerMoon
           p == silo.acct[c].plenty
<1>1. /\ p <= threeCrv /\ threeCrv' = threeCrv - p
      /\ silo' = [silo EXCEPT !.acct[c].plenty = 0]
      /\ UNCHANGED <<clock, assetVars, earnedMoons, allowances>>
    BY DEF ClaimPlenty
<1>2. e \in Nat /\ Balanced(silo, e) /\ Accts(clock, silo, deposits) /\ p \in Nat
      /\ silo \in Silos
    BY SInvFacts, SilosHaveTypes DEF SInv, SiloGood
<1>3. threeCrv' \in Nat
    BY <1>1, <1>2 DEF SInv
<1> HIDE DEF e, p
<1>4. Balanced(silo', e) /\ Gains(silo, c, silo', 0, 0, silo.acct[c].lastUpdate)
    BY <1>1, <1>2, ClaimBalanced
<1>5. ASSUME NEW a \in Accounts
      PROVE  /\ silo'.acct[a].mage = silo.acct[a].mage
             /\ silo'.acct[a].seeds = silo.acct[a].seeds
             /\ silo'.acct[a].lastUpdate = silo.acct[a].lastUpdate
  <2>1. silo.acct[c].mage + 0 = silo.acct[c].mage /\ silo.acct[c].seeds + 0 = silo.acct[c].seeds
      BY <1>2, SilosHaveTypes
  <2> QED
      BY <1>4, <2>1 DEF Gains
<1>6. Accts(clock, silo', deposits)
    BY <1>2, <1>5 DEF Accts, Sound
<1> QED
    BY <1>1, <1>3, <1>4, <1>6 DEF SInv, SiloGood, e, assetVars

\* No allowance goes below zero.
LEMMA SpendTypes ==
    ASSUME SInv, NEW c \in Accounts, NEW owner \in Accounts, NEW token \in Tokens,
           NEW n \in Nat, SpendAllowance(c, owner, token, n)
    PROVE  allowances' \in AllAllowances
<1>1. allowances \in AllAllowances
    BY DEF SInv
<1>2. CASE allowances' = allowances
    BY <1>1, <1>2
<1>3. CASE /\ allowances[owner][c][token] >= n
           /\ allowances' = [allowances EXCEPT ![owner][c][token] = @ - n]
  <2>1. allowances[owner][c][token] \in Nat
      BY <1>1 DEF AllAllowances
  <2>2. allowances[owner][c][token] - n \in Nat
      BY <1>3, <2>1
  <2> QED
      BY <1>1, <1>3, <2>2 DEF AllAllowances
<1> QED
    BY <1>2, <1>3 DEF SpendAllowance

\* transferDeposits keeps the invariant.
LEMMA TransferKeepsSInv ==
    ASSUME SInv, NEW c \in Accounts, NEW from \in Accounts, NEW to \in Accounts,
           NEW token \in Tokens, NEW crates \in Crates(from, token, TransferAmounts),
           TransferDeposits(c, from, to, token, crates)
    PROVE  SInv'
<1> DEFINE one == Updated(silo, clock, from)
           updated == Updated(one, clock, to)
           e == earnedMoons * MagePerMoon
           bdvs == BdvsOf(from, token, crates)
           left == RemoveDeposits(from, token, crates)
           s == SeedsOf(token, bdvs)
           m == MageOf(token, bdvs)
<1>1. /\ SpendAllowance(c, from, token, Sum(crates))
      /\ CanUpdate(silo, clock, from) /\ CanUpdate(one, clock, to)
      /\ CanRemove(from, token, crates)
      /\ CanTransferMage(updated, from, m) /\ s <= updated.acct[from].seeds
      /\ silo' = TransferSeeds(TransferMage(updated, from, to, m), from, to, s)
      /\ deposits' = AddDeposits(left, to, token, crates, bdvs)
      /\ UNCHANGED <<clock, withdrawals, siloBalances, earnedMoons, threeCrv>>
    BY Zenon DEF TransferDeposits
<1>2. TransferAmounts \in SUBSET (Nat \ {0}) /\ e \in Nat
    BY SiloAssumption, SInvFacts
<1>3. SiloGood(clock, one, deposits, e) /\ one.acct[from].lastUpdate = clock.current
    BY <1>1, CallUpdates
<1> HIDE DEF one, e
<1>4. /\ SiloGood(clock, updated, deposits, e)
      /\ OnlyOne(one, updated, to) /\ updated.acct[to].lastUpdate = clock.current
    BY <1>1, <1>2, <1>3, UpdateStep
<1>5. updated.acct[from].lastUpdate = clock.current
    BY <1>3, <1>4 DEF OnlyOne
<1> HIDE DEF updated, left
<1>6. Leaves(left, from, token, crates, bdvs)
  <2>1. left = RemoveDeposits(from, token, crates)
      BY DEF left
  <2> QED
      BY <1>1, <1>2, <1>4, <2>1, CratesLeave
<1> HIDE DEF bdvs
<1>7. /\ Plus(left, deposits, from, token, DOMAIN crates, crates, bdvs)
      /\ LeftOf(left, deposits, from, token, DOMAIN crates)
      /\ Dateable(DOMAIN crates, crates, bdvs, clock.current)
      /\ s \in Nat /\ m \in Nat /\ Sum(crates) \in Nat
    BY <1>6 DEF Leaves
<1>8. s = Sum(bdvs) * TokenSeeds[token] /\ m = MageAt(token, bdvs, clock.current)
    BY MageOfIs
<1> HIDE DEF s, m
<1>9. Plus(left, deposits', to, token, DOMAIN crates, crates, bdvs)
  <2>1. /\ left \in AllDeposits /\ DOMAIN crates \in SUBSET Seasons
        /\ crates \in [DOMAIN crates -> Nat] /\ bdvs \in [DOMAIN crates -> Nat]
      BY <1>7, Zenon DEF Plus
  <2> QED
      BY <1>1, <2>1, DepositsAreAdded
<1>10. SiloGood(clock, silo', deposits', e)
    BY <1>1, <1>2, <1>4, <1>5, <1>7, <1>8, <1>9, TransferStep
<1>11. TokenTotals(siloBalances, deposits', withdrawals, earnedMoons)
    BY <1>7, <1>9, SInvFacts, TransferTotals DEF SInv
<1>12. allowances' \in AllAllowances
    BY <1>1, <1>7, SpendTypes
<1> QED
    BY <1>1, <1>10, <1>11, <1>12 DEF SInv, e

\* Earned Moons are not more than there are.
LEMMA EarnedTypes ==
    ASSUME NEW z \in Silos, NEW a \in Accounts, NEW n \in Nat
    PROVE  EarnedMoons(z, n, a) \in Nat /\ EarnedMoons(z, n, a) <= n
<1>1. z.mage \in Nat /\ z.roots \in Nat /\ z.acct[a].roots \in Nat /\ z.acct[a].mage \in Nat
      /\ MagePerMoon \in Nat \ {0}
    BY SilosHaveTypes, SiloAssumption
<1>2. CASE z.roots = 0
    BY <1>2 DEF EarnedMoons
<1>3. CASE z.roots # 0
  <2> DEFINE p == z.mage * z.acct[a].roots
             q == MageOfRoots(z, a)
             g == Greater(q - z.acct[a].mage, 0)
  <2>1. p \in Nat
      BY <1>1
  <2>2. q \in Nat
    <3>1. q = p \div z.roots
        BY DEF MageOfRoots
    <3> HIDE DEF p, q
    <3> QED
        BY <1>1, <1>3, <2>1, <3>1, DivNat
  <2> HIDE DEF q
  <2>3. g \in Nat
      BY <1>1, <2>2 DEF Greater
  <2>4. EarnedMoons(z, n, a) = Lesser(g \div MagePerMoon, n)
      BY <1>3 DEF EarnedMoons, q
  <2> HIDE DEF g
  <2>5. g \div MagePerMoon \in Nat
      BY <1>1, <2>3, DivNat
  <2> QED
      BY <2>4, <2>5 DEF Lesser
<1> QED
    BY <1>2, <1>3

\* plant keeps the invariant.
LEMMA PlantKeepsSInv ==
    ASSUME SInv, NEW c \in Accounts, Plant(c)
    PROVE  SInv'
<1> DEFINE updated == Updated(silo, clock, c)
           k == clock.current
           e == earnedMoons * MagePerMoon
           n == EarnedMoons(updated, earnedMoons, c)
           s == n * SeedsPerMoon
<1>1. /\ CanUpdate(silo, clock, c)
      /\ earnedMoons' = earnedMoons - n
      /\ deposits' = AddDeposit(deposits, c, MoonToken, k, n, n)
      /\ silo' = PlantedMage(IncrementSeeds(updated, c, s), c, n)
      /\ UNCHANGED <<clock, withdrawals, siloBalances, allowances, threeCrv>>
    BY DEF Plant
<1>2. /\ SiloGood(clock, updated, deposits, e) /\ updated.acct[c].lastUpdate = k
      /\ updated \in Silos
    BY <1>1, CallUpdates
<1>3. /\ e \in Nat /\ k \in Seasons /\ k \in Nat /\ deposits \in AllDeposits
      /\ earnedMoons \in Nat
    BY SInvFacts
<1>4. n \in Nat /\ n <= earnedMoons
    BY <1>2, <1>3, EarnedTypes
<1>5. /\ MoonToken \in Tokens /\ TokenSeeds[MoonToken] = SeedsPerMoon
      /\ TokenMage[MoonToken] = MagePerMoon /\ MagePerMoon \in Nat
    BY SiloAssumption
<1> HIDE DEF updated, n, k
<1>6. Plus(deposits, deposits', c, MoonToken, {k}, Single(k, n), Single(k, n))
    BY <1>1, <1>3, <1>4, <1>5, DepositIsAdded
<1>7. /\ Sum(Single(k, n)) = n /\ s \in Nat /\ s = Sum(Single(k, n)) * TokenSeeds[MoonToken]
      /\ n * MagePerMoon \in Nat
      /\ MageAt(MoonToken, Single(k, n), k) = n * MagePerMoon
    BY <1>3, <1>4, <1>5, SingleMageNow
<1>8. Dateable({k}, Single(k, n), Single(k, n), k)
  <2>1. \A x \in {k} : x <= k /\ (Single(k, n)[x] > 0 \/ Single(k, n)[x] = 0)
      BY <1>3, <1>4 DEF Single
  <2> QED
      BY <2>1 DEF Dateable
<1>9. n * MagePerMoon <= e /\ (earnedMoons - n) * MagePerMoon = e - n * MagePerMoon
      /\ earnedMoons - n \in Nat
    BY <1>3, <1>4, <1>5, ProductMonotone
<1>10. Enough(s, Sum(Single(k, n)) * TokenSeeds[MoonToken])
       /\ Enough(n * MagePerMoon, MageAt(MoonToken, Single(k, n), k))
    BY <1>7 DEF Enough
<1> HIDE DEF s, e
<1>11. SiloGood(clock, silo', deposits', e - n * MagePerMoon)
  <2>1. k = clock.current
      BY DEF k
  <2> QED
      BY <1>1, <1>2, <1>3, <1>4, <1>5, <1>6, <1>7, <1>8, <1>9, <1>10, <2>1, PlantStep
<1>12. TokenTotals(siloBalances, deposits', withdrawals, earnedMoons - n)
  <2>1. TokenTotals(siloBalances, deposits', withdrawals, earnedMoons - Sum(Single(k, n)))
      BY <1>3, <1>4, <1>6, <1>7, PlantTotals DEF SInv
  <2> QED
      BY <2>1, <1>7
<1> QED
    BY <1>1, <1>9, <1>11, <1>12 DEF SInv

\* BDV in proportion and rounded down is not more in sum.
LEMMA EnrootedSum ==
    ASSUME NEW S \in SUBSET Seasons, S # {}, NEW crates \in [S -> Nat],
           \A s \in S : crates[s] > 0, NEW n \in Nat
    PROVE  /\ EnrootedBdvs(crates, n) \in [S -> Nat]
           /\ Sum(EnrootedBdvs(crates, n)) \in Nat /\ Sum(EnrootedBdvs(crates, n)) <= n
<1> DEFINE T == Sum(crates)
           g == EnrootedBdvs(crates, n)
           low == [s \in S |-> T * g[s]]
           high == [s \in S |-> n * crates[s]]
<1>1. IsFiniteSet(S)
    BY FiniteSets, FS_Subset
<1>2. T \in Nat \ {0}
  <2>1. PICK x \in S : TRUE
      OBVIOUS
  <2>2. crates[x] <= T /\ T \in Nat /\ crates[x] \in Nat /\ crates[x] > 0
      BY <1>1, SumAtLeast, SeasonsSum
  <2> QED
      BY <2>2
<1>3. g = [s \in S |-> (crates[s] * n) \div T]
    BY DEF EnrootedBdvs
<1> HIDE DEF T, g
<1>4. ASSUME NEW s \in S
      PROVE  g[s] \in Nat /\ T * g[s] \in Nat /\ n * crates[s] \in Nat /\ T * g[s] <= n * crates[s]
  <2> DEFINE p == crates[s] * n
  <2>1. crates[s] \in Nat /\ p \in Nat /\ p = n * crates[s]
      OBVIOUS
  <2>2. g[s] = p \div T
      BY <1>3
  <2> HIDE DEF p
  <2>3. g[s] \in Nat /\ T * g[s] <= p
      BY <1>2, <2>1, <2>2, DivBounds
  <2>4. T * g[s] \in Nat
      BY <1>2, <2>3
  <2> QED
      BY <2>1, <2>3, <2>4
<1>5. g \in [S -> Nat] /\ low \in [S -> Nat] /\ high \in [S -> Nat]
      /\ \A s \in S : low[s] <= high[s]
    BY <1>3, <1>4
<1>6. Sum(low) = T * Sum(g) /\ Sum(high) = n * T
  <2>1. Sum(low) = T * Sum(g)
      BY <1>1, <1>2, <1>5, SumScale
  <2>2. Sum(high) = n * T
      BY <1>1, SumScale DEF T
  <2> QED
      BY <2>1, <2>2
<1>7. Sum(low) <= Sum(high)
  <2> HIDE DEF low, high
  <2> QED
      BY <1>1, <1>5, SumMonotone
<1>8. Sum(g) \in Nat
    BY <1>5, SeasonsSum
<1> HIDE DEF low, high
<1>9. Sum(g) <= n
  <2> SUFFICES ASSUME ~(Sum(g) <= n) PROVE FALSE
      OBVIOUS
  <2>1. n + 1 <= Sum(g) /\ n + 1 \in Nat
      BY <1>8
  <2>2. T * (n + 1) <= T * Sum(g)
      BY <1>2, <1>8, <2>1, ProductMonotone
  <2>3. T * (n + 1) = (n * T) + T /\ n * T \in Nat
      BY <1>2
  <2>4. T * Sum(g) <= n * T
      BY <1>6, <1>7
  <2> DEFINE x == n * T
             y == T * Sum(g)
  <2>5. y \in Nat
      BY <1>2, <1>8
  <2> QED
    <3>1. x \in Nat /\ y <= x /\ x + T <= y
        BY <2>2, <2>3, <2>4
    <3> HIDE DEF x, y
    <3> QED
        BY <1>2, <2>5, <3>1
<1> QED
    BY <1>5, <1>8, <1>9 DEF g

\* enrootDeposits keeps the invariant.
LEMMA EnrootKeepsSInv ==
    ASSUME SInv, NEW c \in Accounts, NEW token \in UnripeTokens, NEW newBdv \in Bdvs,
           NEW crates \in Crates(c, token, EnrootAmounts),
           EnrootDeposits(c, token, crates, newBdv)
    PROVE  SInv'
<1> DEFINE updated == Updated(silo, clock, c)
           e == earnedMoons * MagePerMoon
           S == DOMAIN crates
           bdvs == BdvsOf(c, token, crates)
           newBdvs == EnrootedBdvs(crates, newBdv)
           left == RemoveDeposits(c, token, crates)
           s1 == SeedsOf(token, bdvs)
           s2 == newBdv * TokenSeeds[token]
           m1 == MageOf(token, bdvs)
           m2 == MageOf(token, newBdvs)
<1>1. /\ s2 - s1 >= 0 /\ m2 - m1 >= 0
      /\ CanUpdate(silo, clock, c) /\ CanRemove(c, token, crates) /\ CanIncrementMage(updated)
      /\ silo' = DepositSiloAssets(updated, c, s2 - s1, m2 - m1)
      /\ deposits' = AddDeposits(left, c, token, crates, newBdvs)
      /\ UNCHANGED <<clock, withdrawals, siloBalances, earnedMoons, allowances, threeCrv>>
    BY Zenon DEF EnrootDeposits
<1>2. /\ EnrootAmounts \in SUBSET (Nat \ {0}) /\ newBdv \in Nat /\ token \in Tokens
      /\ UnripeTokens # {} /\ e \in Nat /\ TokenSeeds[token] \in Nat
      /\ clock.current \in Nat /\ deposits \in AllDeposits
    BY SiloAssumption, SInvFacts
<1>3. SiloGood(clock, updated, deposits, e) /\ updated.acct[c].lastUpdate = clock.current
    BY <1>1, CallUpdates
<1> HIDE DEF updated, e
<1>4. Dated(deposits, c, clock.current)
    BY <1>3, DatedNow
<1>5. S \in SUBSET Seasons /\ S # {} /\ crates \in [S -> Nat]
      /\ \A x \in S : crates[x] > 0 /\ x <= clock.current
    BY <1>2, <1>4, CratesTypes
<1> HIDE DEF left
<1>6. Leaves(left, c, token, crates, bdvs)
  <2>1. left = RemoveDeposits(c, token, crates)
      BY DEF left
  <2> QED
      BY <1>1, <1>2, <1>3, <2>1, CratesLeave
<1> HIDE DEF bdvs
<1>7. /\ Plus(left, deposits, c, token, S, crates, bdvs)
      /\ LeftOf(left, deposits, c, token, S) /\ s1 \in Nat /\ m1 \in Nat
    BY <1>6 DEF Leaves
<1>8. s1 = Sum(bdvs) * TokenSeeds[token] /\ m1 = MageAt(token, bdvs, clock.current)
      /\ m2 = MageAt(token, newBdvs, clock.current)
    BY MageOfIs
<1> HIDE DEF S
<1>9. newBdvs \in [S -> Nat] /\ Sum(newBdvs) \in Nat /\ Sum(newBdvs) <= newBdv
    BY <1>2, <1>5, EnrootedSum
<1> HIDE DEF newBdvs
<1>10. Plus(left, deposits', c, token, S, crates, newBdvs)
  <2>1. left \in AllDeposits
      BY <1>7, Zenon DEF Plus
  <2> QED
      BY <1>1, <1>2, <1>5, <1>9, <2>1, DepositsAreAdded
<1>11. Dateable(S, crates, newBdvs, clock.current) /\ Early(newBdvs, clock.current)
  <2>1. DOMAIN newBdvs = S
      BY <1>9
  <2>2. \A x \in S : ~(x > clock.current)
      BY <1>2, <1>5 DEF Seasons
  <2> QED
      BY <1>5, <2>1, <2>2 DEF Dateable, Early
<1>12. m2 \in Nat
    BY <1>2, <1>5, <1>8, <1>9, <1>11, MageAtTypes
<1>13. s2 \in Nat /\ s2 >= Sum(newBdvs) * TokenSeeds[token]
  <2>1. Sum(newBdvs) * TokenSeeds[token] <= newBdv * TokenSeeds[token]
        /\ Sum(newBdvs) * TokenSeeds[token] \in Nat
      BY <1>2, <1>9, ProductMonotone
  <2>2. s2 \in Nat
      BY <1>2
  <2> DEFINE x == Sum(newBdvs) * TokenSeeds[token]
  <2>3. x <= s2 /\ x \in Nat
      BY <2>1
  <2> HIDE DEF s2, x
  <2>4. s2 >= x
      BY <2>2, <2>3
  <2> QED
      BY <2>2, <2>4 DEF x
<1> HIDE DEF s1, s2, m1, m2
<1>14. SiloGood(clock, silo', deposits', e)
    BY <1>1, <1>2, <1>3, <1>7, <1>8, <1>10, <1>11, <1>12, <1>13, EnrootStep
<1>15. TokenTotals(siloBalances, deposits', withdrawals, earnedMoons)
    BY <1>2, <1>7, <1>10, SInvFacts, TransferTotals DEF SInv
<1> QED
    BY <1>1, <1>14, <1>15 DEF SInv, e

\* A Convert dates back to a Season there was.
LEMMA AgoTypes ==
    ASSUME SInv, NEW grown \in Nat, NEW seeds \in Nat, grown > 0 => seeds > 0
    PROVE  /\ SeasonsGrown(grown, seeds) \in Nat
           /\ SeasonsGrown(grown, seeds) <= clock.current - 1
           /\ SeasonsGrown(grown, seeds) * seeds <= grown
<1>1. clock.current \in Nat /\ clock.current > 0
    BY SInvFacts
<1>2. CASE grown = 0
  <2>1. SeasonsGrown(grown, seeds) = 0
      BY <1>2 DEF SeasonsGrown
  <2> QED
      BY <1>1, <1>2, <2>1
<1>3. CASE grown # 0
  <2> DEFINE q == grown \div seeds
  <2>1. seeds \in Nat \ {0}
      BY <1>3
  <2>2. q \in Nat /\ seeds * q <= grown
      BY <2>1, DivBounds
  <2>3. SeasonsGrown(grown, seeds) = Lesser(q, clock.current - 1)
      BY <1>3 DEF SeasonsGrown
  <2> HIDE DEF q
  <2> DEFINE x == Lesser(q, clock.current - 1)
  <2>4. x \in Nat /\ x <= q /\ x <= clock.current - 1
      BY <1>1, <2>2 DEF Lesser
  <2> HIDE DEF x
  <2>5. x * seeds <= q * seeds /\ q * seeds = seeds * q
      BY <2>2, <2>4, ProductMonotone
  <2>6. x * seeds \in Nat /\ q * seeds \in Nat
      BY <2>2, <2>4
  <2>7. x * seeds <= grown
    <3> DEFINE y == x * seeds
               w == q * seeds
    <3>1. y \in Nat /\ w \in Nat /\ y <= w /\ w <= grown
        BY <2>2, <2>5, <2>6
    <3> HIDE DEF y, w
    <3>2. y <= grown
        BY <3>1
    <3> QED
        BY <3>2 DEF y
  <2> QED
      BY <2>3, <2>4, <2>7 DEF x
<1> QED
    BY <1>2, <1>3

\* convert keeps the invariant.
LEMMA ConvertKeepsSInv ==
    ASSUME SInv, NEW c \in Accounts, NEW from \in Tokens, NEW to \in Tokens,
           NEW toAmount \in ConvertAmounts, NEW newBdv \in Bdvs,
           NEW crates \in Crates(c, from, ConvertAmounts),
           Convert(c, from, to, crates, toAmount, newBdv)
    PROVE  SInv'
<1> DEFINE updated == Updated(silo, clock, c)
           e == earnedMoons * MagePerMoon
           bdvs == BdvsOf(c, from, crates)
           left == RemoveDeposits(c, from, crates)
           k == clock.current
           grown == GrownOf(from, bdvs)
           toBdv == Greater(newBdv, Sum(bdvs))
           seeds == toBdv * TokenSeeds[to]
           ago == SeasonsGrown(grown, seeds)
           s == SeedsOf(from, bdvs)
           m == MageOf(from, bdvs)
           withdrawn == DecrementSeeds(DecrementMage(updated, clock, c, m), c, s)
           mage == toBdv * TokenMage[to] + ago * seeds
           taken == DepositedLess(siloBalances, from, Sum(crates))
<1>1. /\ grown > 0 => seeds > 0
      /\ CanUpdate(silo, clock, c) /\ CanRemove(c, from, crates)
      /\ CanDecrementMage(updated, clock, c, m) /\ CanDecrementSeeds(updated, c, s)
      /\ CanIncrementMage(withdrawn)
      /\ silo' = DepositSiloAssets(withdrawn, c, seeds, mage)
      /\ siloBalances' = DepositedMore(taken, to, toAmount)
      /\ deposits' = AddDeposit(left, c, to, k - ago, toAmount, toBdv)
      /\ UNCHANGED <<clock, withdrawals, earnedMoons, allowances, threeCrv>>
    BY Zenon DEF Convert, CanWithdraw, WithdrawSiloAssets, BalanceAfterConvert, DepositedLess,
                 DepositedMore
<1>2. /\ ConvertAmounts \in SUBSET (Nat \ {0}) /\ toAmount \in Nat /\ toAmount > 0
      /\ newBdv \in Nat /\ e \in Nat /\ k \in Nat /\ k \in Seasons /\ k > 0
      /\ TokenSeeds[to] \in Nat /\ TokenMage[to] \in Nat
    BY SiloAssumption, SInvFacts
<1>3. SiloGood(clock, updated, deposits, e) /\ updated.acct[c].lastUpdate = clock.current
    BY <1>1, CallUpdates
<1> HIDE DEF updated, e, left
<1>4. Leaves(left, c, from, crates, bdvs)
  <2>1. left = RemoveDeposits(c, from, crates)
      BY DEF left
  <2> QED
      BY <1>1, <1>2, <1>3, <2>1, CratesLeave
<1> HIDE DEF bdvs
<1>5. /\ Plus(left, deposits, c, from, DOMAIN crates, crates, bdvs)
      /\ LeftOf(left, deposits, c, from, DOMAIN crates)
      /\ s \in Nat /\ m \in Nat /\ Sum(bdvs) \in Nat /\ Early(bdvs, k)
      /\ Sum(crates) \in Nat
    BY <1>4 DEF Leaves
<1>6. s = Sum(bdvs) * TokenSeeds[from] /\ m = MageAt(from, bdvs, clock.current)
      /\ grown = Sum(Growth(from, bdvs, k))
    BY MageOfIs
<1> HIDE DEF s, m
<1>7. SiloGood(clock, withdrawn, left, e) /\ withdrawn.acct[c].lastUpdate = clock.current
    BY <1>1, <1>2, <1>3, <1>5, <1>6, RemovalStep
<1> HIDE DEF withdrawn
<1>8. grown \in Nat
  <2> HIDE DEF k, grown
  <2>1. DOMAIN crates \in SUBSET Seasons /\ bdvs \in [DOMAIN crates -> Nat]
      BY <1>5, Zenon DEF Plus
  <2>2. Growth(from, bdvs, k) \in [DOMAIN crates -> Nat]
      BY <1>2, <1>5, <2>1, GrowthTypes
  <2> QED
      BY <1>6, <2>1, <2>2, SeasonsSum
<1>9. toBdv \in Nat
    BY <1>2, <1>5 DEF Greater
<1> HIDE DEF toBdv, grown
<1>10. seeds \in Nat
    BY <1>2, <1>9
<1>11. ago \in Nat /\ ago <= k - 1
  <2> HIDE DEF seeds
  <2> QED
      BY <1>1, <1>8, <1>10, AgoTypes
<1> HIDE DEF ago
<1> DEFINE at == k - ago
<1>12. at \in Seasons /\ at \in Nat /\ at <= k /\ k = at + ago
    BY <1>2, <1>11, SiloAssumption DEF Seasons
<1>13. left \in AllDeposits
    BY <1>5, Zenon DEF Plus
<1>14. Plus(left, deposits', c, to, {at}, Single(at, toAmount), Single(at, toBdv))
    BY <1>1, <1>2, <1>9, <1>12, <1>13, DepositIsAdded
<1> HIDE DEF at, k
<1>15. /\ Sum(Single(at, toBdv)) * TokenSeeds[to] = seeds
       /\ MageAt(to, Single(at, toBdv), k) = toBdv * TokenMage[to] + seeds * ago
       /\ toBdv * TokenMage[to] \in Nat
  <2>1. SingleHas(to, at, toBdv, k, ago)
      BY <1>9, <1>11, <1>12, SingleMage
  <2> QED
      BY <2>1, Zenon DEF SingleHas
<1>16. mage \in Nat /\ MageAt(to, Single(at, toBdv), k) = mage
  <2> DEFINE p == toBdv * TokenMage[to]
  <2> HIDE DEF seeds, p
  <2>1. \A x, y \in Nat : x * y = y * x /\ x * y \in Nat
      OBVIOUS
  <2>2. seeds * ago = ago * seeds /\ ago * seeds \in Nat
      BY <1>10, <1>11, <2>1
  <2>3. p \in Nat /\ MageAt(to, Single(at, toBdv), k) = p + ago * seeds /\ mage = p + ago * seeds
      BY <1>12, <1>15, <2>2 DEF p
  <2> QED
      BY <2>2, <2>3
<1>17. Dateable({at}, Single(at, toAmount), Single(at, toBdv), k)
  <2>1. \A x \in {at} : x <= k /\ Single(at, toAmount)[x] > 0
      BY <1>2, <1>12 DEF Single
  <2> QED
      BY <2>1 DEF Dateable
<1>18. Enough(seeds, Sum(Single(at, toBdv)) * TokenSeeds[to])
       /\ Enough(mage, MageAt(to, Single(at, toBdv), k))
    BY <1>10, <1>15, <1>16 DEF Enough
<1> HIDE DEF seeds, mage
<1>19. SiloGood(clock, silo', deposits', e)
  <2>1. k = clock.current
      BY DEF k
  <2> QED
      BY <1>1, <1>2, <1>7, <1>10, <1>14, <1>16, <1>17, <1>18, <2>1, DepositStep
<1>20. TokenTotals(siloBalances', deposits', withdrawals, earnedMoons)
  <2>1. earnedMoons \in Nat
      BY SInvFacts
  <2>2. TokenTotals(taken, left, withdrawals, earnedMoons)
      BY <1>5, <2>1, TakenTotals DEF SInv
  <2> HIDE DEF taken
  <2>3. siloBalances' = DepositedMore(taken, to, Sum(Single(at, toAmount)))
      BY <1>1, <1>2, SumOfSingle
  <2> QED
      BY <1>14, <2>1, <2>2, <2>3, DepositTotals
<1> QED
    BY <1>1, <1>19, <1>20 DEF SInv, e

\* The clock after the Weather.
LEMMA WeatherTypes ==
    ASSUME SInv, NEW rainy \in BOOLEAN, NEW k \in Clocks, NEW amount \in Nat,
           amount > 0 => silo.rainRoots > 0
    PROVE  Weather(rainy, k, amount) \in Clocks /\ Weather(rainy, k, amount).current = k.current
<1>1. /\ k.current \in Seasons /\ k.rainStart \in Seasons /\ k.lastSop \in Seasons
      /\ k.sops \in [Seasons -> Nat]
    BY DEF Clocks
<1>2. CASE ~rainy
  <2>1. Weather(rainy, k, amount) = [k EXCEPT !.raining = FALSE]
      BY <1>2 DEF Weather
  <2> QED
      BY <2>1 DEF Clocks
<1>3. CASE rainy /\ ~k.raining
  <2> DEFINE sops == [k.sops EXCEPT ![k.current] = k.sops[k.rainStart]]
  <2>1. sops \in [Seasons -> Nat]
      BY <1>1
  <2>2. Weather(rainy, k, amount)
          = [k EXCEPT !.raining = TRUE, !.rainStart = k.current, !.sops = sops]
      BY <1>3 DEF Weather, RainStarts, Clocks
  <2> HIDE DEF sops
  <2> QED
      BY <1>1, <2>1, <2>2 DEF Clocks
<1>4. CASE rainy /\ k.raining /\ amount > 0
  <2> DEFINE p == amount * SopPrecision
             r == silo.rainRoots
             v == k.sops[k.lastSop] + p \div r
             sops == [k.sops EXCEPT ![k.rainStart] = v]
  <2>1. r \in Nat \ {0} /\ SopPrecision \in Nat
      BY <1>4, SInvFacts, SilosHaveTypes, SiloAssumption
  <2>2. p \in Nat
      BY <2>1
  <2> HIDE DEF p, r
  <2>3. v \in Nat
      BY <1>1, <2>1, <2>2, DivNat
  <2> HIDE DEF v
  <2>4. sops \in [Seasons -> Nat]
      BY <1>1, <2>3
  <2>5. Weather(rainy, k, amount)
          = [k EXCEPT !.sops = sops, !.lastSop = k.rainStart, !.lastSopSeason = k.current]
      BY <1>4 DEF Weather, RewardSop, Clocks, v, p, r
  <2> HIDE DEF sops
  <2> QED
      BY <1>1, <2>4, <2>5 DEF Clocks
<1>5. CASE rainy /\ k.raining /\ ~(amount > 0)
  <2>1. Weather(rainy, k, amount) = k
      BY <1>5 DEF Weather
  <2> QED
      BY <2>1
<1> QED
    BY <1>2, <1>3, <1>4, <1>5

\* A sunrise keeps the invariant.
LEMMA SunriseKeepsSInv ==
    ASSUME SInv, NEW rainy \in Weathers, NEW amount \in SopAmounts, NEW mint \in SiloMints,
           Sunrise(rainy, amount, mint)
    PROVE  SInv'
<1> DEFINE next == [clock EXCEPT !.current = @ + 1]
           e == earnedMoons * MagePerMoon
<1>1. /\ next.current \in Seasons /\ (amount > 0 => silo.rainRoots > 0)
      /\ clock' = Weather(rainy, next, amount) /\ threeCrv' = threeCrv + amount
      /\ silo' = RewardToSilo(RainRoots(rainy), mint)
      /\ earnedMoons' = earnedMoons + mint
      /\ siloBalances' = DepositedMore(siloBalances, MoonToken, mint)
      /\ UNCHANGED <<deposits, withdrawals, allowances>>
    BY Zenon DEF Sunrise, DepositedMore
<1>2. rainy \in BOOLEAN /\ amount \in Nat /\ mint \in Nat /\ MagePerMoon \in Nat
    BY SiloAssumption
<1>3. /\ clock \in Clocks /\ clock.current \in Nat /\ clock.current > 0 /\ e \in Nat
      /\ earnedMoons \in Nat /\ deposits \in AllDeposits /\ silo \in Silos
    BY SInvFacts
<1>4. next \in Clocks /\ next.current = clock.current + 1
    BY <1>1, <1>3 DEF Clocks
<1> HIDE DEF next, e
<1>5. clock' \in Clocks /\ clock'.current = clock.current + 1
    BY <1>1, <1>2, <1>4, WeatherTypes
<1>6. Balanced(silo, e) /\ Accts(clock, silo, deposits)
    BY DEF SInv, SiloGood, e
<1>7. /\ mint * MagePerMoon \in Nat
      /\ Balanced(silo', e + mint * MagePerMoon) /\ silo'.acct = silo.acct
  <2>1. RainRoots(rainy) = silo \/ RainRoots(rainy) = [silo EXCEPT !.rainRoots = silo.roots]
      BY DEF RainRoots
  <2> QED
      BY <1>1, <1>2, <1>3, <1>6, <2>1, SunriseBalanced
<1>8. e + mint * MagePerMoon = earnedMoons' * MagePerMoon
    BY <1>1, <1>2, <1>3 DEF e
<1>9. Accts(clock', silo', deposits')
  <2>1. ASSUME NEW a \in Accounts
        PROVE  silo'.acct[a].lastUpdate <= clock'.current /\ Sound(silo', deposits', a)
    <3>1. silo.acct[a].lastUpdate <= clock.current /\ Sound(silo, deposits, a)
        BY <1>6 DEF Accts
    <3>2. silo.acct[a].lastUpdate \in Nat
        BY <1>3, SilosHaveTypes DEF Seasons
    <3>3. silo'.acct[a].lastUpdate <= clock'.current
        BY <1>3, <1>5, <1>7, <3>1, <3>2
    <3>4. Sound(silo', deposits, a)
        BY <1>7, <3>1 DEF Sound
    <3> QED
        BY <1>1, <3>3, <3>4
  <2> QED
      BY <1>1, <1>3, <1>5, <2>1 DEF Accts
<1>10. TokenTotals(siloBalances', deposits, withdrawals, earnedMoons + mint)
    BY <1>1, <1>2, <1>3, MintTotals DEF SInv
<1>11. clock'.current > 0 /\ earnedMoons' \in Nat /\ threeCrv' \in Nat
    BY <1>1, <1>2, <1>3, <1>5 DEF SInv
<1>12. SiloGood(clock', silo', deposits', earnedMoons' * MagePerMoon)
    BY <1>7, <1>8, <1>9 DEF SiloGood
<1> QED
    BY <1>1, <1>10, <1>11, <1>12 DEF SInv

\* Deposits of nothing hold nothing.
LEMMA HeldNothing ==
    ASSUME NEW d, d = [a \in Accounts |-> [token \in Tokens |-> [s \in Seasons |-> NoDeposit]]],
           NEW a \in Accounts, NEW u
    PROVE  /\ d \in AllDeposits /\ Dated(d, a, u)
           /\ HeldSeeds(d, a) = 0 /\ HeldMage(d, a, 0) = 0
           /\ \A t \in Tokens : AmountsIn(d, t) = 0
<1>1. d \in AllDeposits
    BY DEF AllDeposits, OneDeposit, NoDeposit
<1>2. \A b \in Accounts, t \in Tokens, s \in Seasons :
          d[b][t][s].amount = 0 /\ d[b][t][s].bdv = 0
    BY DEF NoDeposit
<1>3. Dated(d, a, u)
    BY <1>2 DEF Dated
<1>4. ASSUME NEW t \in Tokens
      PROVE  Sum(BdvIn(d, a, t)) * TokenSeeds[t] = 0 /\ MageAt(t, BdvIn(d, a, t), 0) = 0
  <2> DEFINE f == BdvIn(d, a, t)
  <2>1. f = [s \in Seasons |-> 0]
      BY <1>2 DEF BdvIn
  <2>2. Sum(f) = 0
      BY <2>1, SumZero
  <2>3. TokenSeeds[t] \in Nat /\ TokenMage[t] \in Nat
      BY SiloAssumption
  <2>4. \A s \in Seasons : f[s] * TokenSeeds[t] * (0 - s) = 0
    <3>1. \A s \in Seasons : f[s] = 0 /\ s \in Int /\ 0 - s \in Int
        BY <2>1 DEF Seasons
    <3>2. \A m, n \in Int : 0 * m * n = 0
        OBVIOUS
    <3> HIDE DEF f
    <3> QED
        BY <2>3, <3>1, <3>2
  <2>5. Growth(t, f, 0) = [s \in Seasons |-> 0]
    <3>1. DOMAIN f = Seasons
        BY <2>1
    <3> HIDE DEF f
    <3>2. Growth(t, f, 0) = [s \in Seasons |-> f[s] * TokenSeeds[t] * (0 - s)]
        BY <3>1, Zenon DEF Growth
    <3> QED
        BY <2>4, <3>2
  <2>6. Sum(Growth(t, f, 0)) = 0
      BY <2>5, SumZero
  <2> HIDE DEF f
  <2>7. Sum(f) * TokenSeeds[t] = 0 /\ Sum(f) * TokenMage[t] = 0
      BY <2>2, <2>3
  <2>8. MageAt(t, f, 0) = 0
      BY <2>6, <2>7 DEF MageAt
  <2> QED
      BY <2>7, <2>8 DEF f
<1>5. HeldSeeds(d, a) = 0 /\ HeldMage(d, a, 0) = 0
  <2>1. [t \in Tokens |-> Sum(BdvIn(d, a, t)) * TokenSeeds[t]] = [t \in Tokens |-> 0]
        /\ [t \in Tokens |-> MageAt(t, BdvIn(d, a, t), 0)] = [t \in Tokens |-> 0]
      BY <1>4
  <2> DEFINE f == [t \in Tokens |-> Sum(BdvIn(d, a, t)) * TokenSeeds[t]]
             g == [t \in Tokens |-> MageAt(t, BdvIn(d, a, t), 0)]
  <2>2. HeldSeeds(d, a) = Sum(f) /\ HeldMage(d, a, 0) = Sum(g)
      BY DEF HeldSeeds, HeldMage
  <2>3. f = [t \in Tokens |-> 0] /\ g = [t \in Tokens |-> 0]
      BY <2>1
  <2> HIDE DEF f, g
  <2> QED
      BY <2>2, <2>3, SumZero
<1>6. ASSUME NEW t \in Tokens PROVE AmountsIn(d, t) = 0
  <2> DEFINE f == [p \in Places |-> d[p[1]][t][p[2]].amount]
  <2>1. AmountsIn(d, t) = Sum(f)
      BY DEF AmountsIn, Places
  <2>2. f = [p \in Places |-> 0]
      BY <1>2 DEF Places
  <2> HIDE DEF f
  <2> QED
      BY <2>1, <2>2, SumZero
<1> QED
    BY <1>1, <1>3, <1>5, <1>6

\* The invariant holds at first.
LEMMA InitSInv == Init => SInv
<1> SUFFICES ASSUME Init PROVE SInv
    OBVIOUS
<1> USE DEF Init
<1>1. MaxSeason \in Nat \ {0} /\ MagePerMoon \in Nat /\ 0 \in Seasons /\ 1 \in Seasons
    BY SiloAssumption DEF Seasons
<1>2. clock \in Clocks /\ clock.current = 1
    BY <1>1 DEF Clocks
<1>3. /\ silo \in Silos /\ silo.mage = 0 /\ silo.seeds = 0 /\ silo.roots = 0
      /\ \A a \in Accounts : /\ silo.acct[a].mage = 0 /\ silo.acct[a].seeds = 0
                             /\ silo.acct[a].roots = 0 /\ silo.acct[a].lastUpdate = 0
    BY <1>1 DEF Silos, AccountStates, NewAccount
<1>4. MageIn(silo) = 0 /\ SeedsIn(silo) = 0 /\ RootsIn(silo) = 0
  <2>1. /\ [a \in Accounts |-> silo.acct[a].mage] = [a \in Accounts |-> 0]
        /\ [a \in Accounts |-> silo.acct[a].seeds] = [a \in Accounts |-> 0]
        /\ [a \in Accounts |-> silo.acct[a].roots] = [a \in Accounts |-> 0]
      BY <1>3
  <2>2. Sum([a \in Accounts |-> 0]) = 0
      BY SumZero
  <2> QED
      BY <2>1, <2>2, Zenon DEF MageIn, SeedsIn, RootsIn
<1>5. earnedMoons = 0 /\ earnedMoons * MagePerMoon = 0 /\ threeCrv = 0
    BY <1>1
<1>6. Balanced(silo, earnedMoons * MagePerMoon)
    BY <1>3, <1>4, <1>5 DEF Balanced
<1>7. deposits = [a \in Accounts |-> [token \in Tokens |-> [s \in Seasons |-> NoDeposit]]]
      /\ withdrawals = [a \in Accounts |-> [token \in Tokens |-> [s \in Seasons |-> 0]]]
      /\ siloBalances = [token \in Tokens |-> [deposited |-> 0, withdrawn |-> 0]]
      /\ allowances = [a \in Accounts |-> [b \in Accounts |-> [token \in Tokens |-> 0]]]
    OBVIOUS
<1> USE DEF NoDeposit
<1>8. deposits \in AllDeposits
    BY <1>7 DEF AllDeposits, OneDeposit
<1> HIDE DEF Init
<1>9. ASSUME NEW a \in Accounts
      PROVE  silo.acct[a].lastUpdate <= clock.current /\ Sound(silo, deposits, a)
  <2>1. /\ Dated(deposits, a, 0) /\ HeldSeeds(deposits, a) = 0 /\ HeldMage(deposits, a, 0) = 0
      BY <1>7, HeldNothing, Zenon
  <2>2. Enough(0, 0)
      BY DEF Enough
  <2> QED
      BY <1>2, <1>3, <2>1, <2>2 DEF Sound
<1>10. Accts(clock, silo, deposits)
    BY <1>2, <1>8, <1>9 DEF Accts
<1>11. withdrawals \in AllWithdrawals /\ siloBalances \in Balances /\ allowances \in AllAllowances
    BY <1>7 DEF AllWithdrawals, Balances, AllAllowances
<1>12. ASSUME NEW t \in Tokens
       PROVE  /\ siloBalances[t].deposited = AmountsIn(deposits, t) + MoonsOf(t, earnedMoons)
              /\ siloBalances[t].withdrawn = WithdrawnIn(withdrawals, t)
  <2>1. AmountsIn(deposits, t) = 0
    <3>1. CASE Accounts = {}
      <4> DEFINE f == [p \in Accounts \X Seasons |-> deposits[p[1]][t][p[2]].amount]
      <4>1. f = [p \in Accounts \X Seasons |-> 0]
          BY <3>1
      <4>2. AmountsIn(deposits, t) = Sum(f)
          BY DEF AmountsIn
      <4> HIDE DEF f
      <4> QED
          BY <4>1, <4>2, SumZero
    <3>2. CASE Accounts # {}
      <4>1. PICK a \in Accounts : TRUE
          BY <3>2
      <4> QED
          BY <1>7, <4>1, HeldNothing, Zenon
    <3> QED
        BY <3>1, <3>2
  <2>2. WithdrawnIn(withdrawals, t) = 0
    <3> DEFINE f == [p \in Places |-> withdrawals[p[1]][t][p[2]]]
    <3>1. WithdrawnIn(withdrawals, t) = Sum(f)
        BY DEF WithdrawnIn, Places
    <3>2. f = [p \in Places |-> 0]
        BY <1>7 DEF Places
    <3> HIDE DEF f
    <3> QED
        BY <3>1, <3>2, SumZero
  <2>3. MoonsOf(t, earnedMoons) = 0
      BY <1>5 DEF MoonsOf
  <2>4. siloBalances[t].deposited = 0 /\ siloBalances[t].withdrawn = 0
      BY <1>7
  <2> QED
      BY <2>1, <2>2, <2>3, <2>4
<1>13. TokenTotals(siloBalances, deposits, withdrawals, earnedMoons)
    BY <1>11, <1>12 DEF TokenTotals
<1> QED
    BY <1>2, <1>5, <1>6, <1>10, <1>11, <1>13 DEF SInv, SiloGood

\* Every step keeps the invariant.
LEMMA NextSInv == SInv /\ [Next]_vars => SInv'
<1> SUFFICES ASSUME SInv, [Next]_vars PROVE SInv'
    OBVIOUS
<1>1. CASE Season(Silent)
    BY <1>1, SunriseKeepsSInv DEF Season
<1>2. ASSUME NEW c \in Accounts, Call(c, Silent)
      PROVE  SInv'
  <2>1. CASE DepositCall(c, Silent)
      BY <2>1, DepositKeepsSInv DEF DepositCall
  <2>2. CASE WithdrawCall(c, Silent)
      BY <2>2, WithdrawKeepsSInv DEF WithdrawCall
  <2>3. CASE ClaimCall(c, Silent)
    <3>1. PICK token \in Tokens : \E seasons \in SUBSET Seasons :
              ClaimWithdrawals(c, token, seasons)
        BY <2>3, Zenon DEF ClaimCall
    <3> QED
        BY <3>1, ClaimKeepsSInv
  <2>4. CASE TransferCall(c, Silent)
    <3>1. PICK token \in Tokens, other \in Accounts :
            \/ \E amount \in Allowances : ApproveDeposit(c, other, token, amount)
            \/ \E to \in Accounts : \E crates \in Crates(other, token, TransferAmounts) :
                  TransferDeposits(c, other, to, token, crates)
        BY <2>4, Zenon DEF TransferCall
    <3> QED
        BY <3>1, ApproveKeepsSInv, TransferKeepsSInv
  <2>5. CASE RewardCall(c, Silent)
      BY <2>5, PlantKeepsSInv, ClaimPlentyKeepsSInv, UpdateKeepsSInv DEF RewardCall, PlantCall
  <2>6. CASE EnrootCall(c, Silent)
      BY <2>6, EnrootKeepsSInv DEF EnrootCall
  <2>7. CASE ConvertCall(c, Silent)
    <3>1. PICK from \in Tokens, to \in Tokens, toAmount \in ConvertAmounts, newBdv \in Bdvs :
            \E crates \in Crates(c, from, ConvertAmounts) :
                Convert(c, from, to, crates, toAmount, newBdv)
        BY <2>7, Zenon DEF ConvertCall
    <3> QED
        BY <3>1, ConvertKeepsSInv
  <2> QED
      BY <1>2, <2>1, <2>2, <2>3, <2>4, <2>5, <2>6, <2>7 DEF Call
<1>3. CASE UNCHANGED vars
    BY <1>3 DEF vars, assetVars, SInv
<1> QED
    BY <1>1, <1>2, <1>3 DEF Next

\* The invariant always holds.
LEMMA InvariantSInv == Spec => []SInv
<1>1. Init => SInv
    BY InitSInv
<1>2. SInv /\ [Next]_vars => SInv'
    BY NextSInv
<1> QED
    BY <1>1, <1>2, PTL DEF Spec

(***************************************************************************)
(* The theorems                                                            *)
(***************************************************************************)

\* Types: in particular no balance, no Mage, no Seeds and no Roots go below
\* zero in a call that the guards of the code let pass.
THEOREM SiloTypes == Spec => []TypeOK
<1>1. SInv => TypeOK
  <2> SUFFICES ASSUME SInv PROVE TypeOK
      OBVIOUS
  <2>1. /\ clock \in Clocks /\ silo \in Silos /\ earnedMoons \in Nat
        /\ deposits \in AllDeposits /\ withdrawals \in AllWithdrawals /\ siloBalances \in Balances
      BY SInvFacts
  <2>2. threeCrv \in Nat /\ allowances \in AllAllowances
      BY DEF SInv
  <2> QED
      BY <2>1, <2>2 DEF TypeOK, AllDeposits, OneDeposit, AllWithdrawals, Balances, AllAllowances
<1> QED
    BY <1>1, InvariantSInv, PTL

\* The totals of Mage, Seeds, Roots and tokens are the sums of what the
\* accounts have, whatever the order of updates, plants and sunrises.
THEOREM TotalsAreSums == Spec => []SiloTotals
<1>1. SInv => SiloTotals
  <2> SUFFICES ASSUME SInv PROVE SiloTotals
      OBVIOUS
  <2>1. /\ silo.mage = MageIn(silo) + earnedMoons * MagePerMoon
        /\ silo.seeds = SeedsIn(silo) /\ silo.roots = RootsIn(silo)
      BY DEF SInv, SiloGood, Balanced
  <2>2. \A t \in Tokens :
           /\ siloBalances[t].deposited = AmountsIn(deposits, t) + MoonsOf(t, earnedMoons)
           /\ siloBalances[t].withdrawn = WithdrawnIn(withdrawals, t)
      BY DEF SInv, TokenTotals
  <2> QED
      BY <2>1, <2>2, Zenon DEF SiloTotals, MageIn, SeedsIn, RootsIn, AmountsIn, WithdrawnIn, MoonsOf
<1> QED
    BY <1>1, InvariantSInv, PTL

\* What an account has and what its Deposits need, at the current Season.
LEMMA BackedNow ==
    ASSUME SInv, NEW a \in Accounts
    PROVE  Enough(silo.acct[a].seeds, DepositSeeds(a)) /\ Enough(MageNow(a), DepositMage(a))
<1> DEFINE u == silo.acct[a].lastUpdate
           v == clock.current
           w == v - u
           s == silo.acct[a].seeds
           m == silo.acct[a].mage
           hs == HeldSeeds(deposits, a)
           hm == HeldMage(deposits, a, u)
<1>1. /\ silo \in Silos /\ deposits \in AllDeposits /\ Sound(silo, deposits, a)
      /\ v \in Nat /\ u \in Nat /\ u <= v /\ s \in Nat /\ m \in Nat
      /\ hs \in Nat /\ hm \in Nat /\ AllEarly(deposits, a, u)
  <2>1. /\ silo \in Silos /\ deposits \in AllDeposits /\ Sound(silo, deposits, a) /\ v \in Nat
        /\ u <= v
      BY SInvFacts DEF SInv, SiloGood, Accts
  <2> QED
      BY <2>1, SoundFacts
<1>2. Enough(s, hs) /\ Enough(m, hm)
    BY <1>1 DEF Sound
<1>3. DepositSeeds(a) = hs
  <2>1. \A t \in Tokens : SeedsOf(t, Bdv(a, t)) = Sum(BdvIn(deposits, a, t)) * TokenSeeds[t]
      BY DEF SeedsOf, Bdv, BdvIn
  <2> QED
      BY <2>1 DEF DepositSeeds, HeldSeeds
<1>4. DepositMage(a) = HeldMage(deposits, a, v)
  <2>1. \A t \in Tokens : MageOf(t, Bdv(a, t)) = MageAt(t, BdvIn(deposits, a, t), v)
      BY MageOfIs DEF Bdv, BdvIn
  <2> QED
      BY <2>1 DEF DepositMage, HeldMage
<1>5. w \in Nat
    BY <1>1
<1>6. MageNow(a) = m + s * w
    BY DEF MageNow, GrownMage
<1> HIDE DEF u, v
<1>7. HeldMage(deposits, a, v) = hm + hs * w
    BY <1>1, HeldLater
<1> HIDE DEF w, s, m, hs, hm
<1>8. Enough(m + s * w, hm + hs * w)
    BY <1>1, <1>2, <1>5, EnoughLater
<1> QED
    BY <1>2, <1>3, <1>4, <1>6, <1>7, <1>8 DEF s

\* The Deposits of an account are backed: it never has less Mage or Seeds
\* than they need to be withdrawn.
THEOREM DepositsAreBacked == Spec => []DepositsBacked
<1>1. SInv => DepositsBacked
    BY BackedNow DEF DepositsBacked, Enough
<1> QED
    BY <1>1, InvariantSInv, PTL

\* Without Unripe tokens, whose Deposits are enrooted, an account has exactly
\* the Mage and the Seeds of its Deposits.
THEOREM DepositsCarryTheirMage ==
    ASSUME UnripeTokens = {}
    PROVE  Spec => []DepositsCarryMage
<1>1. SInv => DepositsCarryMage
    BY BackedNow DEF DepositsCarryMage, Enough
<1> QED
    BY <1>1, InvariantSInv, PTL

(***************************************************************************)
(* Nobody takes Deposits without an allowance                              *)
(***************************************************************************)
DepositedIn(d, a, t) == Sum([s \in Seasons |-> d[a][t][s].amount])

\* What one account has of a token grows by the crates it gets.
LEMMA PlusDeposited ==
    ASSUME NEW d, NEW e, NEW x, NEW token, NEW S, NEW crates, NEW bdvs,
           Plus(d, e, x, token, S, crates, bdvs), NEW a \in Accounts, NEW t \in Tokens
    PROVE  /\ DepositedIn(d, a, t) \in Nat
           /\ a = x /\ t = token => DepositedIn(e, a, t) = DepositedIn(d, a, t) + Sum(crates)
           /\ a # x \/ t # token => DepositedIn(e, a, t) = DepositedIn(d, a, t)
<1> DEFINE f == [s \in Seasons |-> d[a][t][s].amount]
           g == [s \in Seasons |-> e[a][t][s].amount]
<1>1. /\ d \in AllDeposits /\ e \in AllDeposits /\ S \in SUBSET Seasons /\ crates \in [S -> Nat]
      /\ a # x \/ t # token => e[a][t] = d[a][t]
    BY Zenon DEF Plus
<1>2. a = x /\ t = token =>
         \A s \in Seasons : e[a][t][s].amount
                              = d[a][t][s].amount + (IF s \in S THEN crates[s] ELSE 0)
    BY Zenon DEF Plus
<1>3. f \in [Seasons -> Nat] /\ g \in [Seasons -> Nat]
    BY <1>1, RowOf
<1>4. DepositedIn(d, a, t) = Sum(f) /\ DepositedIn(e, a, t) = Sum(g)
    BY DEF DepositedIn
<1>5. CASE a = x /\ t = token
  <2>1. \A s \in Seasons : g[s] = f[s] + (IF s \in S THEN crates[s] ELSE 0)
      BY <1>2, <1>5
  <2> HIDE DEF f, g
  <2>2. Sum(g) = Sum(f) + Sum(crates) /\ Sum(f) \in Nat
      BY <1>1, <1>3, <2>1, FiniteSets, SumAdded
  <2> QED
      BY <1>4, <1>5, <2>2
<1>6. CASE a # x \/ t # token
  <2>1. f = g
      BY <1>1, <1>6
  <2>2. Sum(f) \in Nat
      BY <1>3, SeasonsSum
  <2> HIDE DEF f, g
  <2> QED
      BY <1>4, <1>6, <2>1, <2>2
<1> QED
    BY <1>5, <1>6

\* A transfer takes what the allowance gives.
LEMMA TransferTakes ==
    ASSUME SInv, NEW c \in Accounts, NEW from \in Accounts, NEW to \in Accounts,
           NEW token \in Tokens, NEW crates \in Crates(from, token, TransferAmounts),
           TransferDeposits(c, from, to, token, crates),
           NEW a \in Accounts, a # c, NEW t \in Tokens
    PROVE  \/ DepositedIn(deposits', a, t) >= DepositedIn(deposits, a, t)
           \/ allowances[a][c][t] = UnlimitedAllowance
           \/ allowances[a][c][t] - allowances'[a][c][t]
                = DepositedIn(deposits, a, t) - DepositedIn(deposits', a, t)
<1> DEFINE one == Updated(silo, clock, from)
           updated == Updated(one, clock, to)
           e == earnedMoons * MagePerMoon
           bdvs == BdvsOf(from, token, crates)
           left == RemoveDeposits(from, token, crates)
           n == Sum(crates)
<1>1. /\ SpendAllowance(c, from, token, n)
      /\ CanUpdate(silo, clock, from) /\ CanRemove(from, token, crates)
      /\ deposits' = AddDeposits(left, to, token, crates, bdvs)
    BY Zenon DEF TransferDeposits
<1>2. TransferAmounts \in SUBSET (Nat \ {0})
    BY SiloAssumption
<1>3. SiloGood(clock, one, deposits, e)
    BY <1>1, CallUpdates
<1> HIDE DEF one, e, left
<1>4. Leaves(left, from, token, crates, bdvs)
  <2>1. left = RemoveDeposits(from, token, crates)
      BY DEF left
  <2> QED
      BY <1>1, <1>2, <1>3, <2>1, CratesLeave
<1> HIDE DEF bdvs
<1>5. Plus(left, deposits, from, token, DOMAIN crates, crates, bdvs) /\ n \in Nat
    BY <1>4 DEF Leaves
<1>6. Plus(left, deposits', to, token, DOMAIN crates, crates, bdvs)
  <2>1. /\ left \in AllDeposits /\ DOMAIN crates \in SUBSET Seasons
        /\ crates \in [DOMAIN crates -> Nat] /\ bdvs \in [DOMAIN crates -> Nat]
      BY <1>5, Zenon DEF Plus
  <2> QED
      BY <1>1, <2>1, DepositsAreAdded
<1> DEFINE l == DepositedIn(left, a, t)
           h == DepositedIn(deposits, a, t)
           g == DepositedIn(deposits', a, t)
<1>7. /\ l \in Nat
      /\ a = from /\ t = token => h = l + n
      /\ a # from \/ t # token => h = l
    BY <1>5, PlusDeposited
<1>8. /\ a = to /\ t = token => g = l + n
      /\ a # to \/ t # token => g = l
    BY <1>6, PlusDeposited
<1> HIDE DEF l, h, g, n
<1>9. CASE a # from \/ t # token \/ a = to
  <2>1. g >= h
      BY <1>5, <1>7, <1>8, <1>9
  <2> QED
      BY <2>1 DEF g, h
<1>10. CASE a = from /\ t = token /\ a # to
  <2>1. h - g = n
      BY <1>5, <1>7, <1>8, <1>10
  <2>2. CASE allowances[a][c][t] = UnlimitedAllowance
      BY <2>2
  <2>3. CASE /\ allowances[a][c][t] >= n
             /\ allowances' = [allowances EXCEPT ![a][c][t] = @ - n]
    <3>1. allowances \in AllAllowances
        BY DEF SInv
    <3>2. allowances[a][c][t] \in Nat
        BY <3>1 DEF AllAllowances
    <3>3. allowances'[a][c][t] = allowances[a][c][t] - n
        BY <2>3, <3>1 DEF AllAllowances
    <3>4. allowances[a][c][t] - allowances'[a][c][t] = n
        BY <1>5, <3>2, <3>3
    <3> QED
        BY <2>1, <3>4 DEF g, h
  <2> QED
      BY <1>1, <1>10, <2>2, <2>3 DEF SpendAllowance
<1> QED
    BY <1>9, <1>10

\* A call for an account's own Deposits leaves those of others alone.
LEMMA OwnRows ==
    ASSUME deposits \in AllDeposits, NEW c \in Accounts, NEW a \in Accounts, a # c, NEW token
    PROVE  /\ \A s, n, m : AddDeposit(deposits, c, token, s, n, m)[a] = deposits[a]
           /\ \A crates : RemoveDeposits(c, token, crates)[a] = deposits[a]
           /\ \A crates, t, s, n, m :
                 AddDeposit(RemoveDeposits(c, token, crates), c, t, s, n, m)[a] = deposits[a]
           /\ \A crates, bdvs :
                 AddDeposits(RemoveDeposits(c, token, crates), c, token, crates, bdvs)[a]
                     = deposits[a]
<1>1. DOMAIN deposits = Accounts
    BY DEF AllDeposits
<1>2. ASSUME NEW d, DOMAIN d = Accounts
      PROVE  /\ \A row : [d EXCEPT ![c] = row][a] = d[a]
             /\ \A row : DOMAIN [d EXCEPT ![c] = row] = Accounts
    BY <1>2
<1>3. ASSUME NEW d, DOMAIN d = Accounts, NEW t, NEW s, NEW n, NEW m
      PROVE  AddDeposit(d, c, t, s, n, m)[a] = d[a]
    BY <1>3 DEF AddDeposit
<1>4. ASSUME NEW d, DOMAIN d = Accounts, NEW t, NEW crates, NEW bdvs
      PROVE  AddDeposits(d, c, t, crates, bdvs)[a] = d[a]
    BY <1>4 DEF AddDeposits
<1>5. ASSUME NEW crates
      PROVE  /\ RemoveDeposits(c, token, crates)[a] = deposits[a]
             /\ DOMAIN RemoveDeposits(c, token, crates) = Accounts
    BY <1>1 DEF RemoveDeposits
<1> QED
    BY <1>1, <1>3, <1>4, <1>5

\* No other account loses a Deposit by a call, but for transfers.
Keeps(a) == deposits'[a] = deposits[a]

Called(c) == Call(c, Silent)

\* A call is a transfer, or leaves the Deposits of all others alone.
LEMMA CallTakes ==
    ASSUME SInv, NEW c \in Accounts, NEW a \in Accounts, a # c, Called(c)
    PROVE  \/ Keeps(a)
           \/ \E token \in Tokens, from \in Accounts, to \in Accounts :
                 \E crates \in Crates(from, token, TransferAmounts) :
                    TransferDeposits(c, from, to, token, crates)
<1> USE DEF Keeps
<1>0. deposits \in AllDeposits
    BY SInvFacts
<1>1. CASE DepositCall(c, Silent)
  <2>1. PICK token, s, n, m : deposits' = AddDeposit(deposits, c, token, s, n, m)
      BY <1>1 DEF DepositCall, Deposit
  <2> QED
      BY <1>0, <2>1, OwnRows
<1>2. CASE WithdrawCall(c, Silent)
  <2>1. PICK token, crates : deposits' = RemoveDeposits(c, token, crates)
      BY <1>2 DEF WithdrawCall, WithdrawDeposits
  <2> QED
      BY <1>0, <2>1, OwnRows
<1>3. CASE ClaimCall(c, Silent)
    BY <1>3 DEF ClaimCall, ClaimWithdrawals
<1>4. CASE TransferCall(c, Silent)
  <2>1. PICK token \in Tokens, other \in Accounts :
            \/ \E amount \in Allowances : ApproveDeposit(c, other, token, amount)
            \/ \E to \in Accounts : \E crates \in Crates(other, token, TransferAmounts) :
                  TransferDeposits(c, other, to, token, crates)
      BY <1>4, Zenon DEF TransferCall
  <2>2. CASE \E amount \in Allowances : ApproveDeposit(c, other, token, amount)
      BY <2>2 DEF ApproveDeposit, assetVars
  <2> QED
      BY <2>1, <2>2, Zenon
<1>5. CASE RewardCall(c, Silent)
  <2>1. CASE Plant(c)
    <3>1. PICK n : deposits' = AddDeposit(deposits, c, MoonToken, clock.current, n, n)
        BY <2>1 DEF Plant
    <3> QED
        BY <1>0, <3>1, OwnRows
  <2>2. CASE ClaimPlenty(c) \/ \E x \in Accounts : Update(x)
      BY <2>2 DEF ClaimPlenty, Update, assetVars
  <2> QED
      BY <1>5, <2>1, <2>2 DEF RewardCall, PlantCall
<1>6. CASE EnrootCall(c, Silent)
  <2>1. PICK token \in UnripeTokens, newBdv \in Bdvs :
            \E crates \in Crates(c, token, EnrootAmounts) :
                EnrootDeposits(c, token, crates, newBdv)
      BY <1>6, Zenon DEF EnrootCall
  <2>2. PICK crates \in Crates(c, token, EnrootAmounts) :
            EnrootDeposits(c, token, crates, newBdv)
      BY <2>1
  <2>3. deposits' = AddDeposits(RemoveDeposits(c, token, crates), c, token, crates,
                                EnrootedBdvs(crates, newBdv))
      BY <2>2, Zenon DEF EnrootDeposits
  <2> QED
      BY <1>0, <2>3, OwnRows
<1>7. CASE ConvertCall(c, Silent)
  <2>1. PICK from \in Tokens, to \in Tokens, toAmount \in ConvertAmounts, newBdv \in Bdvs :
            \E crates \in Crates(c, from, ConvertAmounts) :
                Convert(c, from, to, crates, toAmount, newBdv)
      BY <1>7, Zenon DEF ConvertCall
  <2>2. PICK crates \in Crates(c, from, ConvertAmounts) :
            Convert(c, from, to, crates, toAmount, newBdv)
      BY <2>1
  <2> DEFINE s == clock.current - SeasonsGrown(GrownOf(from, BdvsOf(c, from, crates)),
                      Greater(newBdv, Sum(BdvsOf(c, from, crates))) * TokenSeeds[to])
             m == Greater(newBdv, Sum(BdvsOf(c, from, crates)))
  <2>3. deposits' = AddDeposit(RemoveDeposits(c, from, crates), c, to, s, toAmount, m)
      BY <2>2, Zenon DEF Convert
  <2> HIDE DEF s, m
  <2> QED
      BY <1>0, <2>3, OwnRows
<1> QED
    BY <1>1, <1>2, <1>3, <1>4, <1>5, <1>6, <1>7 DEF Call, Called

\* By a call of another account, nobody loses Deposits beyond the allowance
\* that this call uses up.
THEOREM NobodyTakesMore == Spec => NoUnauthorisedLoss
<1>1. SInv /\ [Next]_vars =>
        [\A c, a \in Accounts, token \in Tokens :
          \/ c = a \/ Deposited(a, token)' >= Deposited(a, token)
          \/ allowances[a][c][token] = UnlimitedAllowance
          \/ allowances[a][c][token] - allowances'[a][c][token]
               = Deposited(a, token) - Deposited(a, token)'
          \/ ~Call(c, Silent)]_vars
  <2> SUFFICES ASSUME SInv, NEW c \in Accounts, NEW a \in Accounts, NEW token \in Tokens,
                      c # a, Call(c, Silent)
               PROVE  \/ Deposited(a, token)' >= Deposited(a, token)
                      \/ allowances[a][c][token] = UnlimitedAllowance
                      \/ allowances[a][c][token] - allowances'[a][c][token]
                           = Deposited(a, token) - Deposited(a, token)'
      OBVIOUS
  <2>1. Deposited(a, token) = DepositedIn(deposits, a, token)
        /\ Deposited(a, token)' = DepositedIn(deposits', a, token)
      BY Zenon DEF Deposited, DepositedIn, Sum, Units
  <2>2. Called(c)
      BY DEF Called
  <2>3. CASE Keeps(a)
    <3> DEFINE f == [s \in Seasons |-> deposits[a][token][s].amount]
    <3>1. \A s \in Seasons : deposits[a][token][s].amount \in Nat
        BY SInvFacts, RowOf
    <3>2. f \in [Seasons -> Nat]
        BY <3>1
    <3>3. DepositedIn(deposits, a, token) = Sum(f) /\ DepositedIn(deposits', a, token) = Sum(f)
        BY <2>3 DEF DepositedIn, Keeps
    <3> HIDE DEF f
    <3>4. Sum(f) \in Nat
        BY <3>2, SeasonsSum
    <3> QED
        BY <2>1, <3>3, <3>4
  <2>4. CASE \E t \in Tokens, from \in Accounts, to \in Accounts :
                 \E crates \in Crates(from, t, TransferAmounts) :
                    TransferDeposits(c, from, to, t, crates)
    <3>1. PICK t \in Tokens, from \in Accounts, to \in Accounts :
                 \E crates \in Crates(from, t, TransferAmounts) :
                    TransferDeposits(c, from, to, t, crates)
        BY <2>4
    <3>2. PICK crates \in Crates(from, t, TransferAmounts) :
              TransferDeposits(c, from, to, t, crates)
        BY <3>1
    <3>3. \/ DepositedIn(deposits', a, token) >= DepositedIn(deposits, a, token)
          \/ allowances[a][c][token] = UnlimitedAllowance
          \/ allowances[a][c][token] - allowances'[a][c][token]
                = DepositedIn(deposits, a, token) - DepositedIn(deposits', a, token)
        BY <3>2, TransferTakes
    <3> QED
        BY <2>1, <3>3
  <2> QED
      BY <2>2, <2>3, <2>4, CallTakes
<1> QED
    BY <1>1, InvariantSInv, PTL DEF Spec, NoUnauthorisedLoss

(***************************************************************************)
(* Mage is grown by Seeds and time alone                                   *)
(***************************************************************************)

\* What the Deposits of a token, of an account and of all accounts have grown.
TokenGrown(d, a, t, u) == Sum(Growth(t, BdvIn(d, a, t), u))
AccountGrown(d, a, u)  == Sum([t \in Tokens |-> TokenGrown(d, a, t, u)])
AllGrown(d, u)         == Sum([a \in Accounts |-> AccountGrown(d, a, u)])

\* They are natural numbers.
LEMMA AllGrownTypes ==
    ASSUME NEW d \in AllDeposits, NEW u \in Nat, \A a \in Accounts : AllEarly(d, a, u)
    PROVE  /\ \A a \in Accounts :
                 /\ [t \in Tokens |-> TokenGrown(d, a, t, u)] \in [Tokens -> Nat]
                 /\ AccountGrown(d, a, u) \in Nat
           /\ [a \in Accounts |-> AccountGrown(d, a, u)] \in [Accounts -> Nat]
           /\ AllGrown(d, u) \in Nat
<1>1. ASSUME NEW a \in Accounts, NEW t \in Tokens
      PROVE  TokenGrown(d, a, t, u) \in Nat
  <2>1. BdvIn(d, a, t) \in [Seasons -> Nat] /\ Early(BdvIn(d, a, t), u)
        /\ Seasons \in SUBSET Seasons
      BY BdvInTypes DEF AllEarly
  <2>2. Growth(t, BdvIn(d, a, t), u) \in [Seasons -> Nat]
      BY <2>1, GrowthTypes
  <2> QED
      BY <2>1, <2>2, SeasonsSum DEF TokenGrown
<1>2. ASSUME NEW a \in Accounts
      PROVE  /\ [t \in Tokens |-> TokenGrown(d, a, t, u)] \in [Tokens -> Nat]
             /\ AccountGrown(d, a, u) \in Nat
  <2> DEFINE f == [t \in Tokens |-> TokenGrown(d, a, t, u)]
  <2>1. f \in [Tokens -> Nat]
      BY <1>1
  <2>2. AccountGrown(d, a, u) = Sum(f)
      BY DEF AccountGrown
  <2> HIDE DEF f
  <2>3. IsFiniteSet(DOMAIN f) /\ \A x \in DOMAIN f : f[x] \in Nat
      BY <2>1, FiniteSets
  <2> QED
      BY <2>1, <2>2, <2>3, SumType DEF f
<1> DEFINE g == [a \in Accounts |-> AccountGrown(d, a, u)]
<1>3. g \in [Accounts -> Nat] /\ AllGrown(d, u) = Sum(g)
    BY <1>2 DEF AllGrown
<1>4. Sum(g) \in Nat
  <2> HIDE DEF g
  <2>1. IsFiniteSet(DOMAIN g) /\ \A x \in DOMAIN g : g[x] \in Nat
      BY <1>3, FiniteSets
  <2> QED
      BY <2>1, SumType
<1> QED
    BY <1>2, <1>3, <1>4

\* The Deposits of e have grown n more than those of d.
GrownMore(d, e, u, n) ==
    /\ \A a \in Accounts : AllEarly(d, a, u)
    /\ AllGrown(d, u) \in Nat /\ n \in Nat /\ AllGrown(e, u) = AllGrown(d, u) + n

\* What is added to the Deposits of an account comes with what it has grown.
LEMMA PlusGrown ==
    ASSUME NEW d, NEW e, NEW a \in Accounts, NEW token \in Tokens, NEW S, NEW crates, NEW bdvs,
           Plus(d, e, a, token, S, crates, bdvs), NEW u \in Nat,
           \A b \in Accounts : AllEarly(e, b, u)
    PROVE  GrownMore(d, e, u, Sum(Growth(token, bdvs, u)))
<1>1. /\ d \in AllDeposits /\ e \in AllDeposits /\ S \in SUBSET Seasons /\ bdvs \in [S -> Nat]
      /\ \A b \in Accounts, t \in Tokens : b # a \/ t # token => e[b][t] = d[b][t]
      /\ \A s \in Seasons :
            e[a][token][s].bdv = d[a][token][s].bdv + (IF s \in S THEN bdvs[s] ELSE 0)
    BY Zenon DEF Plus
<1> DEFINE Old == BdvIn(d, a, token)
           New == BdvIn(e, a, token)
           n == Sum(Growth(token, bdvs, u))
<1>2. Old \in [Seasons -> Nat] /\ New \in [Seasons -> Nat]
    BY <1>1, BdvInTypes
<1>3. Joins(Old, S, bdvs, New)
  <2>1. \A s \in Seasons : Old[s] = d[a][token][s].bdv /\ New[s] = e[a][token][s].bdv
      BY DEF BdvIn
  <2>2. \A s \in Seasons : New[s] = Old[s] + (IF s \in S THEN bdvs[s] ELSE 0)
      BY <1>1, <2>1
  <2> QED
      BY <1>1, <1>2, <2>2, Zenon DEF Joins
<1>4. Early(New, u)
    BY DEF AllEarly
<1>5. TokenGrown(e, a, token, u) = TokenGrown(d, a, token, u) + n /\ Early(bdvs, u)
  <2> HIDE DEF Old, New
  <2>1. /\ Early(bdvs, u)
        /\ Sum(Growth(token, New, u)) = Sum(Growth(token, Old, u)) + n
      BY <1>3, <1>4, MageAdded
  <2> QED
      BY <2>1 DEF TokenGrown, Old, New
<1>6. n \in Nat
  <2>1. Growth(token, bdvs, u) \in [S -> Nat]
      BY <1>1, <1>5, GrowthTypes
  <2> QED
      BY <1>1, <2>1, SeasonsSum
<1>7. \A b \in Accounts : AllEarly(d, b, u)
  <2>1. AllEarly(d, a, u)
      BY PlusHeld
  <2>2. \A b \in Accounts : b # a => AllEarly(d, b, u)
      BY OthersHeld
  <2> QED
      BY <2>1, <2>2
<1>8. \A b \in Accounts, t \in Tokens :
         b # a \/ t # token => TokenGrown(e, b, t, u) = TokenGrown(d, b, t, u)
    BY <1>1 DEF TokenGrown, BdvIn
<1> HIDE DEF Old, New, n
<1>9. \A b \in Accounts : b # a => AccountGrown(e, b, u) = AccountGrown(d, b, u)
    BY <1>8 DEF AccountGrown
<1>10. AccountGrown(e, a, u) = AccountGrown(d, a, u) + n
  <2> DEFINE F == [t \in Tokens |-> TokenGrown(d, a, t, u)]
             G == [t \in Tokens |-> TokenGrown(e, a, t, u)]
  <2>1. F \in [Tokens -> Nat] /\ G \in [Tokens -> Nat]
      BY <1>1, <1>7, AllGrownTypes
  <2>2. AccountGrown(d, a, u) = Sum(F) /\ AccountGrown(e, a, u) = Sum(G)
      BY DEF AccountGrown
  <2>3. (\A t \in Tokens : t # token => G[t] = F[t]) /\ G[token] = F[token] + n
      BY <1>5, <1>8
  <2> HIDE DEF F, G
  <2>4. Sum(F) \in Nat /\ Sum(G) = (Sum(F) - F[token]) + G[token]
      BY <2>1, <2>3, FiniteSets, SumOfOne
  <2>5. F[token] \in Nat
      BY <2>1
  <2> QED
      BY <1>6, <2>2, <2>3, <2>4, <2>5
<1> DEFINE f == [b \in Accounts |-> AccountGrown(d, b, u)]
           g == [b \in Accounts |-> AccountGrown(e, b, u)]
<1>11. f \in [Accounts -> Nat] /\ g \in [Accounts -> Nat]
    BY <1>1, <1>7, AllGrownTypes
<1>12. AllGrown(d, u) = Sum(f) /\ AllGrown(e, u) = Sum(g)
    BY DEF AllGrown
<1>13. (\A b \in Accounts : b # a => g[b] = f[b]) /\ g[a] = f[a] + n
    BY <1>9, <1>10
<1> HIDE DEF f, g
<1>14. Sum(f) \in Nat /\ Sum(g) = (Sum(f) - f[a]) + g[a] /\ f[a] \in Nat
  <2>1. Sum(f) \in Nat /\ Sum(g) = (Sum(f) - f[a]) + g[a]
      BY <1>11, <1>13, FiniteSets, SumOfOne
  <2> QED
      BY <1>11, <2>1
<1>15. AllGrown(e, u) = AllGrown(d, u) + n /\ AllGrown(d, u) \in Nat
    BY <1>6, <1>12, <1>13, <1>14
<1> QED
    BY <1>6, <1>7, <1>15 DEF GrownMore, n

\* Every account has Deposits of the Seasons up to now only.
LEMMA AllEarlyNow ==
    ASSUME SInv
    PROVE  /\ \A a \in Accounts : AllEarly(deposits, a, clock.current)
           /\ AllGrown(deposits, clock.current) \in Nat
<1>1. ASSUME NEW a \in Accounts
      PROVE  AllEarly(deposits, a, clock.current)
  <2>1. SiloGood(clock, silo, deposits, earnedMoons * MagePerMoon)
      BY DEF SInv
  <2>2. /\ deposits \in AllDeposits /\ clock.current \in Nat
        /\ Dated(deposits, a, clock.current)
      BY <2>1, DatedNow
  <2> QED
      BY <2>2, DatedIsEarly
<1> QED
    BY <1>1, SInvFacts, AllGrownTypes

\* A step has not made what Deposits have grown more.
GrowsNothing == AllGrown(deposits', clock.current) <= AllGrown(deposits, clock.current)

\* The Deposits after a step are of the Seasons up to now, too.
EarlyNext == \A b \in Accounts : AllEarly(deposits', b, clock.current)

\* A Deposit of now has not grown.
LEMMA DepositGrowsNothing ==
    ASSUME SInv, EarlyNext, NEW c \in Accounts, NEW token \in Tokens, NEW n \in Nat, NEW m \in Nat,
           deposits' = AddDeposit(deposits, c, token, clock.current, n, m)
    PROVE  GrowsNothing
<1> DEFINE k == clock.current
<1>1. deposits \in AllDeposits /\ k \in Seasons /\ k \in Nat /\ k = k + 0
    BY SInvFacts
<1>2. Plus(deposits, deposits', c, token, {k}, Single(k, n), Single(k, m))
    BY <1>1, DepositIsAdded
<1>3. GrownMore(deposits, deposits', k, Sum(Growth(token, Single(k, m), k)))
    BY <1>1, <1>2, PlusGrown DEF EarlyNext
<1>4. SingleHas(token, k, m, k, 0)
    BY <1>1, SingleMage
<1>5. Sum(Growth(token, Single(k, m), k)) = 0
  <2>1. /\ Sum(Growth(token, Single(k, m), k)) = (m * TokenSeeds[token]) * 0
        /\ m * TokenSeeds[token] \in Nat
      BY <1>4, Zenon DEF SingleHas
  <2>2. \A x \in Nat : x * 0 = 0
      OBVIOUS
  <2> QED
      BY <2>1, <2>2
<1> QED
    BY <1>3, <1>5 DEF GrownMore, GrowsNothing

\* Crates that are taken have grown what the Deposits that are left lack.
LEMMA TakenGrown ==
    ASSUME SInv, NEW a \in Accounts, NEW token \in Tokens, NEW amounts \in SUBSET (Nat \ {0}),
           NEW crates \in Crates(a, token, amounts), CanRemove(a, token, crates),
           CanUpdate(silo, clock, a), NEW d, d = RemoveDeposits(a, token, crates)
    PROVE  /\ Plus(d, deposits, a, token, DOMAIN crates, crates, BdvsOf(a, token, crates))
           /\ GrownMore(d, deposits, clock.current, GrownOf(token, BdvsOf(a, token, crates)))
           /\ Sum(BdvsOf(a, token, crates)) \in Nat
<1>1. SiloGood(clock, Updated(silo, clock, a), deposits, earnedMoons * MagePerMoon)
    BY CallUpdates
<1>2. Leaves(d, a, token, crates, BdvsOf(a, token, crates))
    BY <1>1, CratesLeave
<1> DEFINE bdvs == BdvsOf(a, token, crates)
<1> HIDE DEF bdvs
<1>3. Plus(d, deposits, a, token, DOMAIN crates, crates, bdvs) /\ Sum(bdvs) \in Nat
    BY <1>2 DEF Leaves, bdvs
<1>4. clock.current \in Nat /\ \A b \in Accounts : AllEarly(deposits, b, clock.current)
    BY SInvFacts, AllEarlyNow
<1>5. GrownMore(d, deposits, clock.current, Sum(Growth(token, bdvs, clock.current)))
    BY <1>3, <1>4, PlusGrown
<1> QED
    BY <1>3, <1>5, MageOfIs DEF bdvs

\* A transfer moves what Deposits have grown along with them.
LEMMA TransferGrowsNothing ==
    ASSUME SInv, EarlyNext, NEW c \in Accounts, NEW from \in Accounts, NEW to \in Accounts,
           NEW token \in Tokens, NEW crates \in Crates(from, token, TransferAmounts),
           TransferDeposits(c, from, to, token, crates)
    PROVE  GrowsNothing
<1> DEFINE bdvs == BdvsOf(from, token, crates)
           left == RemoveDeposits(from, token, crates)
           k == clock.current
<1>1. /\ CanUpdate(silo, clock, from) /\ CanRemove(from, token, crates)
      /\ deposits' = AddDeposits(left, to, token, crates, bdvs)
    BY Zenon DEF TransferDeposits
<1>2. TransferAmounts \in SUBSET (Nat \ {0}) /\ k \in Nat
    BY SiloAssumption, SInvFacts
<1>3. /\ Plus(left, deposits, from, token, DOMAIN crates, crates, bdvs)
      /\ GrownMore(left, deposits, k, GrownOf(token, bdvs))
    BY <1>1, <1>2, TakenGrown
<1> HIDE DEF bdvs, left
<1>4. Plus(left, deposits', to, token, DOMAIN crates, crates, bdvs)
  <2>1. /\ left \in AllDeposits /\ DOMAIN crates \in SUBSET Seasons
        /\ crates \in [DOMAIN crates -> Nat] /\ bdvs \in [DOMAIN crates -> Nat]
      BY <1>3, Zenon DEF Plus
  <2> QED
      BY <1>1, <2>1, DepositsAreAdded
<1>5. GrownMore(left, deposits', k, Sum(Growth(token, bdvs, k)))
    BY <1>2, <1>4, PlusGrown DEF EarlyNext
<1>6. GrownOf(token, bdvs) = Sum(Growth(token, bdvs, k))
    BY MageOfIs
<1> QED
    BY <1>3, <1>5, <1>6 DEF GrownMore, GrowsNothing

\* The Deposit of a Convert dates back no further than what the Deposits that
\* it takes had grown.
LEMMA ConvertedGrowsNothing ==
    ASSUME SInv, EarlyNext, NEW c \in Accounts, NEW from \in Tokens, NEW to \in Tokens,
           NEW toAmount \in ConvertAmounts, NEW newBdv \in Bdvs,
           NEW crates \in Crates(c, from, ConvertAmounts),
           Convert(c, from, to, crates, toAmount, newBdv)
    PROVE  GrowsNothing
<1> DEFINE bdvs == BdvsOf(c, from, crates)
           left == RemoveDeposits(c, from, crates)
           k == clock.current
           grown == GrownOf(from, bdvs)
           toBdv == Greater(newBdv, Sum(bdvs))
           seeds == toBdv * TokenSeeds[to]
           ago == SeasonsGrown(grown, seeds)
           at == k - ago
<1>1. /\ grown > 0 => seeds > 0
      /\ CanUpdate(silo, clock, c) /\ CanRemove(c, from, crates)
      /\ deposits' = AddDeposit(left, c, to, k - ago, toAmount, toBdv)
    BY Zenon DEF Convert
<1>2. /\ ConvertAmounts \in SUBSET (Nat \ {0}) /\ toAmount \in Nat /\ newBdv \in Nat
      /\ k \in Nat /\ k \in Seasons /\ k > 0 /\ TokenSeeds[to] \in Nat
    BY SiloAssumption, SInvFacts
<1>3. /\ Plus(left, deposits, c, from, DOMAIN crates, crates, bdvs)
      /\ GrownMore(left, deposits, k, grown)
      /\ Sum(bdvs) \in Nat
    BY <1>1, <1>2, TakenGrown
<1>4. left \in AllDeposits /\ grown \in Nat
    BY <1>3, Zenon DEF Plus, GrownMore
<1>5. toBdv \in Nat
    BY <1>2, <1>3 DEF Greater
<1> HIDE DEF bdvs, left, toBdv, grown
<1>6. seeds \in Nat
    BY <1>2, <1>5
<1>7. ago \in Nat /\ ago <= k - 1 /\ ago * seeds <= grown
  <2> HIDE DEF seeds
  <2> QED
      BY <1>1, <1>4, <1>6, AgoTypes
<1> HIDE DEF ago
<1>8. at \in Seasons /\ k = at + ago
    BY <1>2, <1>7, SiloAssumption DEF Seasons
<1>9. Plus(left, deposits', c, to, {at}, Single(at, toAmount), Single(at, toBdv))
    BY <1>1, <1>2, <1>4, <1>5, <1>8, DepositIsAdded
<1> HIDE DEF at, k
<1>10. GrownMore(left, deposits', k, Sum(Growth(to, Single(at, toBdv), k)))
  <2>1. k = clock.current
      BY DEF k
  <2> QED
      BY <1>2, <1>9, <2>1, PlusGrown DEF EarlyNext
<1>11. Sum(Growth(to, Single(at, toBdv), k)) = seeds * ago
  <2>1. SingleHas(to, at, toBdv, k, ago)
      BY <1>5, <1>7, <1>8, SingleMage
  <2> QED
      BY <2>1, Zenon DEF SingleHas
<1>12. seeds * ago <= grown
  <2> HIDE DEF seeds
  <2>1. \A x, y \in Nat : x * y = y * x
      OBVIOUS
  <2>2. seeds * ago = ago * seeds
      BY <1>6, <1>7, <2>1
  <2> QED
      BY <1>7, <2>2
<1> HIDE DEF seeds
<1> DEFINE p == AllGrown(left, k)
           q == Sum(Growth(to, Single(at, toBdv), k))
<1>13. /\ p \in Nat /\ q \in Nat /\ q <= grown /\ grown \in Nat
       /\ AllGrown(deposits', k) = p + q /\ AllGrown(deposits, k) = p + grown
    BY <1>3, <1>4, <1>10, <1>11, <1>12 DEF GrownMore
<1> HIDE DEF p, q
<1>14. AllGrown(deposits', k) <= AllGrown(deposits, k)
    BY <1>13
<1> QED
    BY <1>14 DEF GrowsNothing, k

\* No call but an enrooting makes Mage that is grown.
LEMMA CallGrowsNothing ==
    ASSUME UnripeTokens = {}, SInv, EarlyNext, NEW c \in Accounts, Called(c)
    PROVE  GrowsNothing
<1>0. /\ deposits \in AllDeposits /\ clock.current \in Nat
      /\ AllGrown(deposits, clock.current) \in Nat
    BY SInvFacts, AllEarlyNow
<1>1. CASE deposits' = deposits
    BY <1>0, <1>1 DEF GrowsNothing
<1>2. CASE DepositCall(c, Silent)
  <2>1. PICK token \in Tokens, n \in DepositAmounts, m \in Bdvs : Deposit(c, token, n, m)
      BY <1>2, Zenon DEF DepositCall
  <2>2. n \in Nat /\ m \in Nat
      BY SiloAssumption
  <2>3. deposits' = AddDeposit(deposits, c, token, clock.current, n, m)
      BY <2>1, Zenon DEF Deposit
  <2> QED
      BY <2>2, <2>3, DepositGrowsNothing
<1>3. CASE WithdrawCall(c, Silent)
  <2>1. PICK token \in Tokens : \E crates \in Crates(c, token, WithdrawAmounts) :
            WithdrawDeposits(c, token, crates)
      BY <1>3, Zenon DEF WithdrawCall
  <2>2. PICK crates \in Crates(c, token, WithdrawAmounts) : WithdrawDeposits(c, token, crates)
      BY <2>1
  <2>3. /\ CanUpdate(silo, clock, c) /\ CanRemove(c, token, crates)
        /\ deposits' = RemoveDeposits(c, token, crates)
      BY <2>2, Zenon DEF WithdrawDeposits
  <2>4. WithdrawAmounts \in SUBSET (Nat \ {0})
      BY SiloAssumption
  <2>5. GrownMore(deposits', deposits, clock.current, GrownOf(token, BdvsOf(c, token, crates)))
      BY <2>3, <2>4, TakenGrown
  <2> QED
      BY <2>5 DEF GrownMore, GrowsNothing
<1>4. CASE ClaimCall(c, Silent)
    BY <1>1, <1>4 DEF ClaimCall, ClaimWithdrawals
<1>5. CASE TransferCall(c, Silent)
  <2>1. PICK token \in Tokens, other \in Accounts :
            \/ \E amount \in Allowances : ApproveDeposit(c, other, token, amount)
            \/ \E to \in Accounts : \E crates \in Crates(other, token, TransferAmounts) :
                  TransferDeposits(c, other, to, token, crates)
      BY <1>5, Zenon DEF TransferCall
  <2>2. CASE \E amount \in Allowances : ApproveDeposit(c, other, token, amount)
      BY <1>1, <2>2 DEF ApproveDeposit, assetVars
  <2>3. CASE \E to \in Accounts : \E crates \in Crates(other, token, TransferAmounts) :
                  TransferDeposits(c, other, to, token, crates)
      BY <2>3, TransferGrowsNothing
  <2> QED
      BY <2>1, <2>2, <2>3
<1>6. CASE RewardCall(c, Silent)
  <2>1. CASE Plant(c)
    <3> DEFINE updated == Updated(silo, clock, c)
               n == EarnedMoons(updated, earnedMoons, c)
    <3>1. /\ CanUpdate(silo, clock, c)
          /\ deposits' = AddDeposit(deposits, c, MoonToken, clock.current, n, n)
        BY <2>1, Zenon DEF Plant
    <3>2. n \in Nat
        BY <3>1, CallUpdates, SInvFacts, EarnedTypes
    <3>3. MoonToken \in Tokens
        BY SiloAssumption
    <3> HIDE DEF n
    <3> QED
        BY <3>1, <3>2, <3>3, DepositGrowsNothing
  <2>2. CASE ClaimPlenty(c) \/ \E x \in Accounts : Update(x)
      BY <1>1, <2>2 DEF ClaimPlenty, Update, assetVars
  <2> QED
      BY <1>6, <2>1, <2>2 DEF RewardCall, PlantCall
<1>7. CASE EnrootCall(c, Silent)
    BY <1>7 DEF EnrootCall
<1>8. CASE ConvertCall(c, Silent)
  <2>1. PICK from \in Tokens, to \in Tokens, toAmount \in ConvertAmounts, newBdv \in Bdvs :
            \E crates \in Crates(c, from, ConvertAmounts) :
                Convert(c, from, to, crates, toAmount, newBdv)
      BY <1>8, Zenon DEF ConvertCall
  <2>2. PICK crates \in Crates(c, from, ConvertAmounts) :
            Convert(c, from, to, crates, toAmount, newBdv)
      BY <2>1
  <2> QED
      BY <2>2, ConvertedGrowsNothing
<1> QED
    BY <1>2, <1>3, <1>4, <1>5, <1>6, <1>7, <1>8 DEF Call, Called

\* What Deposits have grown, as the module has it: of the Seasons up to u.
GrownTo(d, a, u) ==
    Sum([t \in Tokens |->
        Sum([s \in 0 .. u |-> BdvIn(d, a, t)[s] * TokenSeeds[t] * (u - s)])])

\* Without a Deposit after u, that is all of it.
LEMMA GrownNow ==
    ASSUME NEW d \in AllDeposits, NEW a \in Accounts, NEW u \in Seasons, AllEarly(d, a, u)
    PROVE  GrownTo(d, a, u) = AccountGrown(d, a, u)
<1> SUFFICES ASSUME NEW t \in Tokens
             PROVE  Sum([s \in 0 .. u |-> BdvIn(d, a, t)[s] * TokenSeeds[t] * (u - s)])
                      = TokenGrown(d, a, t, u)
    BY DEF GrownTo, AccountGrown
<1>0. Early(BdvIn(d, a, t), u)
    BY DEF AllEarly
<1> DEFINE f == Growth(t, BdvIn(d, a, t), u)
<1>1. u \in Nat /\ 0 .. u \in SUBSET Seasons
    BY SiloAssumption DEF Seasons
<1>2. f \in [Seasons -> Nat]
  <2>1. BdvIn(d, a, t) \in [Seasons -> Nat] /\ Seasons \in SUBSET Seasons
      BY BdvInTypes
  <2> QED
      BY <1>0, <1>1, <2>1, GrowthTypes
<1>3. \A s \in Seasons : f[s] = BdvIn(d, a, t)[s] * TokenSeeds[t] * (u - s)
    BY DEF Growth, BdvIn
<1>4. \A s \in Seasons \ (0 .. u) : f[s] = 0
  <2> SUFFICES ASSUME NEW s \in Seasons, s \notin 0 .. u
               PROVE  f[s] = 0
      OBVIOUS
  <2>1. s > u /\ u - s \in Int /\ TokenSeeds[t] \in Nat
      BY <1>1, SiloAssumption DEF Seasons
  <2>2. BdvIn(d, a, t)[s] = 0
      BY <1>0, <2>1 DEF Early, BdvIn
  <2>3. 0 * TokenSeeds[t] = 0 /\ \A i \in Int : 0 * i = 0
      BY <2>1
  <2> QED
      BY <1>3, <2>1, <2>2, <2>3
<1>5. [s \in 0 .. u |-> BdvIn(d, a, t)[s] * TokenSeeds[t] * (u - s)] = [s \in 0 .. u |-> f[s]]
    BY <1>1, <1>3
<1> HIDE DEF f
<1> DEFINE T == 0 .. u
<1>6. Sum(f) = Sum([s \in T |-> f[s]])
  <2>1. T \in SUBSET Seasons /\ \A s \in Seasons \ T : f[s] = 0
      BY <1>1, <1>4
  <2> HIDE DEF T
  <2> QED
      BY <1>2, <2>1, FiniteSets, SumSupport
<1> QED
    BY <1>5, <1>6 DEF TokenGrown, f

\* Mage is grown by Seeds and time alone: without Unripe tokens, whose BDV an
\* enrooting raises for the Seasons that have passed, no call makes what all
\* Deposits have grown more, and no Convert dates its Deposit back too far.
THEOREM MageGrownByTime ==
    ASSUME UnripeTokens = {}
    PROVE  Spec => GrownOnlyByTime
<1>1. SInv /\ SInv' /\ [Next]_vars =>
        [clock' = clock =>
          Sum([x \in Accounts |-> DepositGrown(x)])'
                                 <= Sum([x \in Accounts |-> DepositGrown(x)])]_vars
  <2> SUFFICES ASSUME SInv, SInv', Next, clock' = clock
               PROVE  Sum([x \in Accounts |-> DepositGrown(x)])'
                                 <= Sum([x \in Accounts |-> DepositGrown(x)])
      OBVIOUS
  <2>1. clock.current \in Seasons /\ clock.current \in Nat
        /\ deposits \in AllDeposits /\ deposits' \in AllDeposits
    <3>1. deposits' \in AllDeposits
        BY DEF SInv, SiloGood, Accts
    <3> QED
        BY <3>1, SInvFacts
  <2>2. \A a \in Accounts : AllEarly(deposits, a, clock.current)
      BY AllEarlyNow
  <2>3. EarlyNext
    <3>1. ASSUME NEW a \in Accounts
          PROVE  AllEarly(deposits', a, clock.current)
      <4>1. SiloGood(clock, silo', deposits', (earnedMoons * MagePerMoon)')
          BY DEF SInv
      <4>2. Dated(deposits', a, clock.current)
          BY <4>1, DatedNow
      <4> QED
          BY <2>1, <4>2, DatedIsEarly
    <3> QED
        BY <3>1 DEF EarlyNext
  <2>4. Sum([x \in Accounts |-> DepositGrown(x)]) = AllGrown(deposits, clock.current)
    <3>1. \A a \in Accounts : DepositGrown(a) = GrownTo(deposits, a, clock.current)
        BY DEF DepositGrown, GrownTo, Bdv, BdvIn
    <3>2. \A a \in Accounts : DepositGrown(a) = AccountGrown(deposits, a, clock.current)
        BY <2>1, <2>2, <3>1, GrownNow
    <3> QED
        BY <3>2 DEF AllGrown
  <2>5. Sum([x \in Accounts |-> DepositGrown(x)])' = AllGrown(deposits', clock.current)
    <3>1. ASSUME NEW a \in Accounts
          PROVE  DepositGrown(a)' = GrownTo(deposits', a, clock'.current)
        BY Zenon DEF DepositGrown, GrownTo, Bdv, BdvIn, Sum, Units
    <3>2. \A a \in Accounts : DepositGrown(a)' = GrownTo(deposits', a, clock.current)
        BY <3>1
    <3>3. \A a \in Accounts : DepositGrown(a)' = AccountGrown(deposits', a, clock.current)
        BY <2>1, <2>3, <3>2, GrownNow DEF EarlyNext
    <3>4. Sum([x \in Accounts |-> DepositGrown(x)])'
            = Sum([x \in Accounts |-> DepositGrown(x)'])
        BY Zenon DEF Sum, Units
    <3> QED
        BY <3>3, <3>4 DEF AllGrown
  <2>6. CASE Season(Silent)
    <3>1. deposits' = deposits
        BY <2>6 DEF Season, Sunrise
    <3>2. GrowsNothing
        BY <2>1, <3>1, AllEarlyNow DEF GrowsNothing
    <3> QED
        BY <2>4, <2>5, <3>2 DEF GrowsNothing
  <2>7. CASE \E c \in Accounts : Call(c, Silent)
    <3>1. GrowsNothing
        BY <2>3, <2>7, CallGrowsNothing DEF Called
    <3> QED
        BY <2>4, <2>5, <3>1 DEF GrowsNothing
  <2> QED
      BY <2>6, <2>7 DEF Next
<1> QED
    BY <1>1, InvariantSInv, PTL DEF Spec, GrownOnlyByTime

(***************************************************************************)
(* No Deposit is locked in                                                 *)
(***************************************************************************)

\* Where BDV has Mage, Deposits that have Seeds have Mage.
LEMMA SeedsHaveMage ==
    ASSUME \A t \in Tokens : TokenMage[t] > 0,
           NEW d \in AllDeposits, NEW a \in Accounts, NEW u \in Nat, AllEarly(d, a, u),
           HeldSeeds(d, a) > 0
    PROVE  HeldMage(d, a, u) > 0
<1> DEFINE f == [t \in Tokens |-> Sum(BdvIn(d, a, t)) * TokenSeeds[t]]
           g == [t \in Tokens |-> MageAt(t, BdvIn(d, a, t), u)]
<1>1. HeldSeeds(d, a) = Sum(f) /\ HeldMage(d, a, u) = Sum(g)
    BY DEF HeldSeeds, HeldMage
<1>2. f \in [Tokens -> Nat] /\ g \in [Tokens -> Nat]
    BY HeldTypes
<1>3. PICK t \in Tokens : f[t] # 0
  <2>1. SUFFICES ASSUME \A t \in Tokens : f[t] = 0 PROVE FALSE
      OBVIOUS
  <2>2. f = [t \in Tokens |-> 0]
      BY <2>1
  <2> HIDE DEF f
  <2>3. Sum(f) = 0
      BY <2>2, SumZero
  <2> QED
      BY <1>1, <2>3
<1>4. g[t] > 0
  <2> DEFINE b == Sum(BdvIn(d, a, t))
             grown == Sum(Growth(t, BdvIn(d, a, t), u))
  <2>1. BdvIn(d, a, t) \in [Seasons -> Nat] /\ b \in Nat /\ Early(BdvIn(d, a, t), u)
      BY BdvInTypes DEF AllEarly
  <2>2. Growth(t, BdvIn(d, a, t), u) \in [Seasons -> Nat]
        /\ TokenSeeds[t] \in Nat /\ TokenMage[t] \in Nat
      BY <2>1, GrowthTypes
  <2>3. grown \in Nat
      BY <2>2, SeasonsSum
  <2>4. f[t] = b * TokenSeeds[t] /\ g[t] = b * TokenMage[t] + grown
      BY DEF MageAt
  <2> HIDE DEF b, grown, f, g
  <2>5. b # 0
      BY <1>3, <2>2, <2>4
  <2>6. 1 * TokenMage[t] <= b * TokenMage[t] /\ b * TokenMage[t] \in Nat
      BY <2>1, <2>2, <2>5, ProductMonotone
  <2> QED
      BY <2>2, <2>3, <2>4, <2>6
<1> HIDE DEF f, g
<1>5. g[t] <= Sum(g) /\ Sum(g) \in Nat /\ g[t] \in Nat
  <2>1. Sum(g) \in Nat
      BY <1>1, HeldTypes
  <2> QED
      BY <1>2, <2>1, FiniteSets, SumAtLeast
<1> QED
    BY <1>1, <1>4, <1>5

\* What holds back an update is a division by all Mage when there is none.
LEMMA UpdateOpen ==
    ASSUME SInv, NEW a \in Accounts, LaterPPR(silo, clock, a) >= 0,
           \/ CanIncrementMage(silo)
           \/ UnripeTokens = {} /\ \A t \in Tokens : TokenMage[t] > 0
    PROVE  CanUpdate(silo, clock, a)
<1>1. /\ silo \in Silos /\ deposits \in AllDeposits /\ Sound(silo, deposits, a)
      /\ silo.acct[a].lastUpdate \in Nat /\ earnedMoons * MagePerMoon \in Nat
      /\ Balanced(silo, earnedMoons * MagePerMoon)
      /\ silo.mage \in Nat /\ silo.acct[a].mage \in Nat /\ silo.acct[a].seeds \in Nat
    BY SInvFacts, SilosHaveTypes DEF SInv, SiloGood, Accts, Seasons
<1>2. LaterPPR(silo, clock, a) >= 0
    OBVIOUS
<1>3. ASSUME silo.acct[a].seeds > 0
      PROVE  CanIncrementMage(silo)
  <2>1. CASE CanIncrementMage(silo)
      BY <2>1
  <2>2. CASE UnripeTokens = {} /\ \A t \in Tokens : TokenMage[t] > 0
    <3> DEFINE u == silo.acct[a].lastUpdate
    <3>1. /\ AllEarly(deposits, a, u)
          /\ HeldSeeds(deposits, a) \in Nat /\ HeldMage(deposits, a, u) \in Nat
        BY <1>1, SoundFacts
    <3>2. /\ silo.acct[a].seeds = HeldSeeds(deposits, a)
          /\ silo.acct[a].mage = HeldMage(deposits, a, u)
        BY <1>1, <2>2 DEF Sound, Enough
    <3> HIDE DEF u
    <3>3. u \in Nat
        BY <1>1 DEF u
    <3>4. HeldMage(deposits, a, u) > 0
        BY <1>1, <1>3, <2>2, <3>1, <3>2, <3>3, SeedsHaveMage
    <3>5. silo.acct[a].mage + earnedMoons * MagePerMoon <= silo.mage
        BY <1>1, AccountInTotals
    <3>6. silo.mage > 0
      <4> DEFINE e == earnedMoons * MagePerMoon
                 m == silo.acct[a].mage
      <4>1. m \in Nat /\ m > 0 /\ e \in Nat /\ m + e <= silo.mage
          BY <1>1, <3>2, <3>4, <3>5
      <4> HIDE DEF e, m
      <4> QED
          BY <1>1, <4>1
    <3> QED
        BY <3>6 DEF CanIncrementMage
  <2> QED
      BY <2>1, <2>2
<1> QED
    BY <1>2, <1>3 DEF CanUpdate

\* What an account has deposited it can withdraw, where it can be updated.
LEMMA ExitFrom ==
    ASSUME SInv, ~clock.raining,
           \/ CanIncrementMage(silo)
           \/ UnripeTokens = {} /\ \A t \in Tokens : TokenMage[t] > 0,
           NEW a \in Accounts, NEW token \in Tokens, LaterPPR(silo, clock, a) >= 0,
           Held(a, token) # {}
    PROVE  LET crates == [s \in Held(a, token) |-> deposits[a][token][s].amount]
           IN  /\ CanUpdate(silo, clock, a)
               /\ CanWithdraw(Updated(silo, clock, a), a, token, BdvsOf(a, token, crates))
<1> DEFINE crates == [s \in Held(a, token) |-> deposits[a][token][s].amount]
           updated == Updated(silo, clock, a)
           e == earnedMoons * MagePerMoon
           u == clock.current
           bdvs == BdvsOf(a, token, crates)
           left == RemoveDeposits(a, token, crates)
           s == SeedsOf(token, bdvs)
           m == MageOf(token, bdvs)
<1>1. CanUpdate(silo, clock, a)
    BY UpdateOpen
<1>2. /\ SiloGood(clock, updated, deposits, e) /\ updated \in Silos
      /\ updated.acct[a].lastUpdate = u
    BY <1>1, CallUpdates
<1>3. e \in Nat /\ u \in Nat /\ deposits \in AllDeposits
    BY SInvFacts
<1> HIDE DEF updated, e, u
<1>4. crates \in Crates(a, token, Nat \ {0})
  <2>1. \A x \in Held(a, token) : deposits[a][token][x].amount \in Nat \ {0}
      BY <1>3, RowOf DEF Held
  <2>2. crates \in [Held(a, token) -> Nat \ {0}]
      BY <2>1
  <2> HIDE DEF crates
  <2> QED
      BY <2>2 DEF Crates
<1>5. CanRemove(a, token, crates)
  <2>1. \A x \in Held(a, token) : deposits[a][token][x].amount \in Nat
      BY <1>3, RowOf DEF Held
  <2> QED
      BY <2>1 DEF CanRemove
<1> HIDE DEF crates, left
<1>6. Leaves(left, a, token, crates, bdvs)
  <2>1. left = RemoveDeposits(a, token, crates)
      BY DEF left
  <2> QED
      BY <1>2, <1>4, <1>5, <2>1, CratesLeave
<1> HIDE DEF bdvs
<1>7. /\ Plus(left, deposits, a, token, DOMAIN crates, crates, bdvs)
      /\ s \in Nat /\ m \in Nat
    BY <1>6 DEF Leaves
<1>8. s = Sum(bdvs) * TokenSeeds[token] /\ m = MageAt(token, bdvs, u)
    BY MageOfIs DEF u
<1> HIDE DEF s, m
<1>9. /\ Balanced(updated, e) /\ Sound(updated, deposits, a)
    BY <1>2 DEF SiloGood, Accts
<1>10. /\ AllEarly(deposits, a, u)
       /\ HeldSeeds(deposits, a) \in Nat /\ HeldMage(deposits, a, u) \in Nat
    BY <1>2, <1>3, <1>9, SoundFacts
<1>11. /\ HeldSeeds(left, a) \in Nat /\ HeldMage(left, a, u) \in Nat
       /\ HeldSeeds(deposits, a) = HeldSeeds(left, a) + s
       /\ HeldMage(deposits, a, u) = HeldMage(left, a, u) + m
    BY <1>3, <1>7, <1>8, <1>10, PlusHeld
<1>12. updated.acct[a].seeds >= HeldSeeds(deposits, a)
       /\ updated.acct[a].mage >= HeldMage(deposits, a, u)
    BY <1>2, <1>9 DEF Sound, Enough
<1>13. /\ updated.acct[a].mage + e <= updated.mage /\ updated.acct[a].seeds <= updated.seeds
       /\ updated.acct[a].mage \in Nat /\ updated.acct[a].seeds \in Nat
       /\ updated.mage \in Nat /\ updated.seeds \in Nat
    BY <1>2, <1>3, <1>9, AccountInTotals, SilosHaveTypes
<1>14. /\ s <= updated.acct[a].seeds /\ s <= updated.seeds
       /\ m <= updated.acct[a].mage /\ m <= updated.mage
    BY <1>3, <1>7, <1>10, <1>11, <1>12, <1>13
<1>15. CanWithdraw(updated, a, token, bdvs)
    BY <1>14 DEF CanWithdraw, CanDecrementMage, CanDecrementSeeds, s, m
<1> QED
    BY <1>1, <1>15 DEF updated, bdvs, crates

\* Before the first Season of Plenty, and while it does not rain, every owner
\* can withdraw all of a Deposit, or all Deposits of a token: no balance goes
\* below zero, whatever was withdrawn, transferred, converted or enrooted in
\* part before, and nothing is divided by zero unless all Mage has left and
\* rounding has kept Roots back.
THEOREM ExitsAreOpen ==
    Spec => [](( /\ ~clock.raining /\ clock.lastSop = 0
                 /\ \/ CanIncrementMage(silo)
                    \/ UnripeTokens = {} /\ \A t \in Tokens : TokenMage[t] > 0 ) => ExitOpen)
<1>1. ASSUME SInv, clock.lastSop = 0, NEW a \in Accounts
      PROVE  LaterPPR(silo, clock, a) >= 0
  <2>1. silo.acct[a].lastUpdate \in Nat
    <3>1. silo.acct[a].lastUpdate \in Seasons
        BY <1>1, SInvFacts, SilosHaveTypes
    <3> QED
        BY <3>1 DEF Seasons
  <2>2. ~(clock.lastSop > silo.acct[a].lastUpdate)
      BY <1>1, <2>1
  <2> QED
      BY <2>2 DEF LaterPPR
<1>2. SInv => (( /\ ~clock.raining /\ clock.lastSop = 0
                 /\ \/ CanIncrementMage(silo)
                    \/ UnripeTokens = {} /\ \A t \in Tokens : TokenMage[t] > 0 ) => ExitOpen)
    BY <1>1, ExitFrom DEF ExitOpen
<1> QED
    BY <1>2, InvariantSInv, PTL
===============================================================================
