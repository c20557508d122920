------------------------------ MODULE PlentyProofs ------------------------------
(***************************************************************************)
(* Plenty is fair and covered, for any accounts, Seasons, Weather and      *)
(* sales, where nobody withdraws or converts while it rains.               *)
(***************************************************************************)
EXTENDS FairPlenty, SiloProofs

(***************************************************************************)
(* One account, and what the clock says it is owed                         *)
(***************************************************************************)
AllPPR(k) == k.sops[k.lastSop]

\* PreviousPPR, RainPPR and LaterPPR of the account record q.
PrevOf(q, k) ==
    IF q.lastRain > 0 /\ q.lastSop = q.lastRain THEN q.plentyPerRoot ELSE k.sops[q.lastSop]

RainOf(q, k) ==
    IF q.lastRain > 0 THEN Greater(k.sops[q.lastRain] - PrevOf(q, k), 0) ELSE 0

LaterOf(q, k) ==
    IF k.lastSop > q.lastUpdate THEN AllPPR(k) - PrevOf(q, k) - RainOf(q, k) ELSE 0

\* What an account is owed and has not been noted yet, in units of
\* 1 / SopPrecision.
Pending(q, k) == RainOf(q, k) * q.sopRoots + LaterOf(q, k) * q.roots

PlentyOf(q, k) ==
    q.plenty + (RainOf(q, k) * q.sopRoots) \div SopPrecision
             + (LaterOf(q, k) * q.roots) \div SopPrecision

(***************************************************************************)
(* The invariant                                                           *)
(***************************************************************************)

\* The Seasons that the clock notes of Rain and Plenty, in their order.
ClockSound(k) ==
    /\ k.lastSop <= k.rainStart /\ k.rainStart <= k.current
    /\ k.lastSop <= k.lastSopSeason /\ k.lastSopSeason <= k.current
    /\ k.sops[k.rainStart] = AllPPR(k)
    /\ k.lastSopSeason >= k.rainStart => k.lastSop = k.rainStart
    /\ k.raining => k.rainStart > 0

\* What an account notes is not of later than its last update.
Dates(q, k) ==
    q.lastUpdate <= k.current /\ q.lastSop <= q.lastUpdate /\ q.lastRain <= q.lastUpdate

\* Updated since the last sale, an account has got all Plenty.
Settled(q, k) ==
    k.lastSopSeason <= q.lastUpdate => k.sops[q.lastSop] = AllPPR(k) /\ PrevOf(q, k) = AllPPR(k)

\* Updated since the last Rain began, with sh the Roots it had then; S are
\* those that stayed.
SinceRain(q, k, sh, a, S) ==
    q.lastUpdate >= k.rainStart =>
        /\ q.lastRain \in {0, k.rainStart}
        /\ q.lastRain = 0 =>
              /\ k.sops[q.lastSop] = AllPPR(k)
              /\ k.raining => q.lastSop = k.rainStart
              /\ k.raining /\ a \in S => sh = 0
        /\ q.lastRain > 0 => q.sopRoots = sh /\ PrevOf(q, k) <= AllPPR(k)

\* Not updated since the last Rain began: the Roots are those of then.
BeforeRain(q, k, sh) ==
    q.lastUpdate < k.rainStart =>
        /\ sh = q.roots
        /\ q.lastRain = 0 =>
              /\ k.sops[q.lastSop] <= AllPPR(k)
              /\ k.lastSop <= q.lastUpdate => k.sops[q.lastSop] = AllPPR(k)
        /\ q.lastRain > 0 =>
              /\ PrevOf(q, k) <= k.sops[q.lastRain] /\ k.sops[q.lastRain] <= AllPPR(k)
              /\ k.lastSop <= q.lastUpdate => k.sops[q.lastRain] = AllPPR(k)
              /\ PrevOf(q, k) # k.sops[q.lastRain] => q.lastUpdate + 1 < k.rainStart

\* Who stayed has Roots, or had no share.
Stays(q, sh, a, S) ==
    a \in S => /\ sh = 0 \/ q.roots > 0
               /\ q.roots = 0 /\ q.lastRain > 0 => q.sopRoots = 0

Noted(q, k, sh, a, S) ==
    /\ Dates(q, k) /\ Settled(q, k)
    /\ SinceRain(q, k, sh, a, S) /\ BeforeRain(q, k, sh) /\ Stays(q, sh, a, S)

\* An account has got its share, but for what updates have rounded down: one
\* unit in every Season before its last update, at most.
Fairly(q, k, fr, pd, a, S) ==
    LET got == SopPrecision * (pd + q.plenty) + Pending(q, k)
    IN  /\ got <= fr
        /\ a \in S => fr <= got + (SopPrecision - 1) * q.lastUpdate

(***************************************************************************)
(* What an account is owed                                                 *)
(***************************************************************************)

\* The Seasons and the sums that an account and the clock have.
LEMMA AccountTypes ==
    ASSUME NEW k \in Clocks, NEW q \in AccountStates
    PROVE  /\ k.current \in Nat /\ k.rainStart \in Nat /\ k.lastSop \in Nat
           /\ k.lastSopSeason \in Nat /\ k.sops \in [Seasons -> Nat]
           /\ k.current \in Seasons /\ k.rainStart \in Seasons /\ k.lastSop \in Seasons
           /\ k.raining \in BOOLEAN /\ AllPPR(k) \in Nat
           /\ q.lastUpdate \in Nat /\ q.lastSop \in Nat /\ q.lastRain \in Nat
           /\ q.lastSop \in Seasons /\ q.lastRain \in Seasons /\ q.lastUpdate \in Seasons
           /\ k.sops[q.lastSop] \in Nat /\ k.sops[q.lastRain] \in Nat
           /\ q.plentyPerRoot \in Nat /\ q.sopRoots \in Nat /\ q.roots \in Nat
           /\ q.plenty \in Nat /\ PrevOf(q, k) \in Nat
<1>1. Seasons \subseteq Nat
    BY SiloAssumption DEF Seasons
<1>2. /\ k.current \in Seasons /\ k.rainStart \in Seasons /\ k.lastSop \in Seasons
      /\ k.lastSopSeason \in Seasons /\ k.sops \in [Seasons -> Nat] /\ k.raining \in BOOLEAN
    BY DEF Clocks
<1>3. /\ q.lastSop \in Seasons /\ q.lastRain \in Seasons /\ q.lastUpdate \in Seasons
      /\ q.plentyPerRoot \in Nat /\ q.sopRoots \in Nat /\ q.roots \in Nat /\ q.plenty \in Nat
    BY DEF AccountStates
<1>4. k.sops[q.lastSop] \in Nat /\ k.sops[q.lastRain] \in Nat /\ AllPPR(k) \in Nat
    BY <1>2, <1>3 DEF AllPPR
<1>5. PrevOf(q, k) \in Nat
    BY <1>3, <1>4 DEF PrevOf
<1> QED
    BY <1>1, <1>2, <1>3, <1>4, <1>5

\* PPR of an account that is as noted: a natural number of units per Root.
Owed(q, k) ==
    /\ RainOf(q, k) \in Nat /\ LaterOf(q, k) \in Nat
    /\ q.lastUpdate >= k.rainStart =>
          /\ LaterOf(q, k) = 0
          /\ q.lastRain = 0 => RainOf(q, k) = 0
          /\ q.lastRain > 0 => RainOf(q, k) + PrevOf(q, k) = AllPPR(k)
    /\ q.lastUpdate < k.rainStart => PrevOf(q, k) + RainOf(q, k) + LaterOf(q, k) = AllPPR(k)
    /\ k.lastSopSeason <= q.lastUpdate => RainOf(q, k) = 0 /\ LaterOf(q, k) = 0
    /\ RainOf(q, k) # 0 \/ LaterOf(q, k) # 0 => q.lastUpdate + 1 <= k.current
    /\ RainOf(q, k) # 0 /\ LaterOf(q, k) # 0 => q.lastUpdate + 2 <= k.current

\* LaterPPR and RainPPR are never negative, and nothing is owed twice.
LEMMA OwedByAccount ==
    ASSUME NEW k \in Clocks, NEW q \in AccountStates, ClockSound(k),
           NEW sh, NEW a, NEW S, Noted(q, k, sh, a, S)
    PROVE  Owed(q, k)
<1> DEFINE u == q.lastUpdate
           T == AllPPR(k)
           P == PrevOf(q, k)
           D == k.sops[q.lastSop]
           E == k.sops[q.lastRain]
           R == RainOf(q, k)
           L == LaterOf(q, k)
<1>1. /\ k.current \in Nat /\ k.rainStart \in Nat /\ k.lastSop \in Nat /\ k.lastSopSeason \in Nat
      /\ T \in Nat /\ u \in Nat /\ q.lastRain \in Nat /\ D \in Nat /\ E \in Nat /\ P \in Nat
    BY AccountTypes
<1>2. /\ k.lastSop <= k.rainStart /\ k.rainStart <= k.current
      /\ k.lastSop <= k.lastSopSeason /\ k.lastSopSeason <= k.current
      /\ k.sops[k.rainStart] = T
    BY DEF ClockSound
<1>3. /\ R = IF q.lastRain > 0 THEN (IF E - P <= 0 THEN 0 ELSE E - P) ELSE 0
      /\ L = IF k.lastSop > u THEN T - P - R ELSE 0
    BY DEF RainOf, LaterOf, Greater
<1>4. k.lastSopSeason <= u => D = T /\ P = T
    BY DEF Noted, Settled
<1>5. u >= k.rainStart =>
        /\ q.lastRain = 0 => D = T
        /\ q.lastRain > 0 => E = T /\ P <= T
    BY <1>1, <1>2 DEF Noted, SinceRain
<1>6. u < k.rainStart =>
        /\ q.lastRain = 0 => D <= T /\ (k.lastSop <= u => D = T)
        /\ q.lastRain > 0 => P <= E /\ E <= T /\ (k.lastSop <= u => E = T)
                             /\ (P # E => u + 1 < k.rainStart)
    BY DEF Noted, BeforeRain
<1>7. q.lastRain = 0 => P = D
    BY <1>1 DEF PrevOf
<1> HIDE DEF u, T, P, D, E, R, L
<1>8. R \in Nat /\ L \in Nat
    BY <1>1, <1>2, <1>3, <1>5, <1>6, <1>7
<1>9. u >= k.rainStart =>
          L = 0 /\ (q.lastRain = 0 => R = 0) /\ (q.lastRain > 0 => R + P = T)
    BY <1>1, <1>2, <1>3, <1>5
<1>10. u < k.rainStart => P + R + L = T
    BY <1>1, <1>2, <1>3, <1>6, <1>7
<1>11. k.lastSopSeason <= u => R = 0 /\ L = 0
  <2> SUFFICES ASSUME k.lastSopSeason <= u PROVE R = 0 /\ L = 0
      OBVIOUS
  <2>1. L = 0 /\ P = T
      BY <1>1, <1>2, <1>3, <1>4
  <2>2. E - P <= 0 \/ q.lastRain = 0
      BY <1>1, <1>2, <1>5, <1>6, <2>1
  <2> QED
      BY <1>3, <2>1, <2>2
<1>12. R # 0 \/ L # 0 => u + 1 <= k.current
    BY <1>1, <1>2, <1>11
<1>13. R # 0 /\ L # 0 => u + 2 <= k.current
    BY <1>1, <1>2, <1>3, <1>6
<1> QED
    BY <1>8, <1>9, <1>10, <1>11, <1>12, <1>13 DEF Owed, u, T, P, R, L

(***************************************************************************)
(* An update                                                               *)
(***************************************************************************)

\* w is what an update of q at the clock k notes of Rain and Plenty.
Handles(q, k, w) ==
    /\ q.roots = 0 =>
          /\ w.plenty = q.plenty
          /\ w.lastSop = k.rainStart /\ w.lastRain = 0
    /\ q.roots # 0 =>
          /\ w.plenty = (IF k.lastSopSeason > q.lastUpdate THEN PlentyOf(q, k) ELSE q.plenty)
          /\ w.lastSop = (IF k.lastSopSeason > q.lastUpdate THEN k.lastSop ELSE q.lastSop)
          /\ w.lastRain = (IF ~k.raining THEN 0
                           ELSE IF k.rainStart > q.lastUpdate THEN k.rainStart ELSE q.lastRain)
          /\ w.sopRoots = (IF k.raining /\ k.rainStart > q.lastUpdate
                           THEN q.roots ELSE q.sopRoots)
          /\ w.plentyPerRoot = (IF k.raining /\ k.lastSop = k.rainStart
                                THEN AllPPR(k) ELSE q.plentyPerRoot)

\* The account w is updated in this Season and has sh as its share.
UpToDate(k, w, sh, a, S) ==
    /\ w.lastUpdate = k.current
    /\ w.lastSop <= k.current
    /\ k.sops[w.lastSop] = AllPPR(k) /\ PrevOf(w, k) = AllPPR(k)
    /\ w.lastRain \in {0, k.rainStart}
    /\ w.lastRain = 0 => /\ k.raining => w.lastSop = k.rainStart
                         /\ k.raining /\ a \in S => sh = 0
    /\ w.lastRain > 0 => w.sopRoots = sh

\* Then it is as noted, if it stays only with Roots or without a share.
LEMMA UpToDateIsNoted ==
    ASSUME NEW k \in Clocks, NEW w \in AccountStates, ClockSound(k),
           NEW sh, NEW a, NEW S, UpToDate(k, w, sh, a, S), NEW S2 \in SUBSET S,
           a \in S2 => sh = 0 \/ w.roots > 0
    PROVE  Noted(w, k, sh, a, S2)
<1>1. /\ k.current \in Nat /\ k.rainStart \in Nat /\ k.rainStart <= k.current
      /\ AllPPR(k) \in Nat /\ w.roots \in Nat
    BY AccountTypes DEF ClockSound
<1>2. Dates(w, k)
    BY <1>1 DEF UpToDate, Dates
<1>3. Settled(w, k)
    BY DEF UpToDate, Settled
<1>4. SinceRain(w, k, sh, a, S2)
    BY <1>1 DEF UpToDate, SinceRain
<1>5. BeforeRain(w, k, sh)
    BY <1>1 DEF UpToDate, BeforeRain
<1>6. Stays(w, sh, a, S2)
    BY <1>1 DEF UpToDate, Stays
<1> QED
    BY <1>2, <1>3, <1>4, <1>5, <1>6 DEF Noted

\* An update brings an account up to date.
LEMMA HandledIsUpToDate ==
    ASSUME NEW k \in Clocks, NEW q \in AccountStates, NEW w \in AccountStates, ClockSound(k),
           NEW sh, NEW a, NEW S, Noted(q, k, sh, a, S), Handles(q, k, w),
           w.lastUpdate = k.current
    PROVE  UpToDate(k, w, sh, a, S)
<1> DEFINE u == q.lastUpdate
           T == AllPPR(k)
<1>1. /\ k.current \in Nat /\ k.rainStart \in Nat /\ k.lastSop \in Nat /\ k.lastSopSeason \in Nat
      /\ T \in Nat /\ u \in Nat /\ q.lastRain \in Nat /\ q.lastSop \in Nat /\ q.roots \in Nat
    BY AccountTypes
<1>2. /\ k.lastSop <= k.rainStart /\ k.rainStart <= k.current
      /\ k.lastSop <= k.lastSopSeason /\ k.lastSopSeason <= k.current
      /\ k.sops[k.rainStart] = T /\ k.sops[k.lastSop] = T
      /\ k.lastSopSeason >= k.rainStart => k.lastSop = k.rainStart
      /\ k.raining => k.rainStart > 0
    BY DEF ClockSound, AllPPR
<1>3. u <= k.current /\ q.lastSop <= u /\ q.lastRain <= u
    BY DEF Noted, Dates
<1>4. k.lastSopSeason <= u => k.sops[q.lastSop] = T /\ PrevOf(q, k) = T
    BY DEF Noted, Settled
<1>5. u >= k.rainStart =>
        /\ q.lastRain \in {0, k.rainStart}
        /\ q.lastRain = 0 => /\ k.raining => q.lastSop = k.rainStart
                             /\ k.raining /\ a \in S => sh = 0
        /\ q.lastRain > 0 => q.sopRoots = sh
    BY DEF Noted, SinceRain
<1>6. u < k.rainStart => sh = q.roots
    BY DEF Noted, BeforeRain
<1>7. CASE q.roots = 0
  <2>1. w.lastSop = k.rainStart /\ w.lastRain = 0
      BY <1>7 DEF Handles
  <2>2. PrevOf(w, k) = T
      BY <1>2, <2>1 DEF PrevOf
  <2>3. a \in S => sh = 0
      BY <1>7 DEF Noted, Stays
  <2> QED
      BY <1>2, <2>1, <2>2, <2>3 DEF UpToDate
<1>8. CASE q.roots # 0
  <2>1. /\ w.lastSop = (IF k.lastSopSeason > u THEN k.lastSop ELSE q.lastSop)
        /\ w.lastRain = (IF ~k.raining THEN 0
                         ELSE IF k.rainStart > u THEN k.rainStart ELSE q.lastRain)
        /\ w.sopRoots = (IF k.raining /\ k.rainStart > u THEN q.roots ELSE q.sopRoots)
        /\ w.plentyPerRoot = (IF k.raining /\ k.lastSop = k.rainStart
                              THEN T ELSE q.plentyPerRoot)
      BY <1>8 DEF Handles
  <2> HIDE DEF u, T
  <2>2. k.sops[w.lastSop] = T /\ w.lastSop <= k.current
      BY <1>1, <1>2, <1>3, <1>4, <2>1
  <2>3. w.lastRain \in {0, k.rainStart}
      BY <1>1, <1>5, <2>1
  <2>4. PrevOf(w, k) = T
    <3>1. CASE w.lastRain > 0 /\ w.lastSop = w.lastRain
      <4>1. k.raining /\ w.lastRain = k.rainStart /\ w.lastSop = k.rainStart
          BY <1>1, <2>1, <2>3, <3>1
      <4>2. CASE k.lastSop = k.rainStart
          BY <2>1, <3>1, <4>1, <4>2 DEF PrevOf
      <4>3. CASE k.lastSop # k.rainStart
        <5>1. ~(k.lastSopSeason > u) /\ q.lastSop = k.rainStart
            BY <2>1, <4>1, <4>3
        <5>2. k.lastSopSeason <= u /\ u >= k.rainStart /\ q.lastRain = k.rainStart
            BY <1>1, <1>3, <2>1, <4>1, <5>1
        <5>3. q.plentyPerRoot = T
            BY <1>1, <1>2, <1>4, <4>1, <5>1, <5>2 DEF PrevOf
        <5>4. w.plentyPerRoot = q.plentyPerRoot
            BY <2>1, <4>3
        <5> QED
            BY <3>1, <5>3, <5>4 DEF PrevOf
      <4> QED
          BY <4>2, <4>3
    <3>2. CASE ~(w.lastRain > 0 /\ w.lastSop = w.lastRain)
        BY <2>2, <3>2, Zenon DEF PrevOf
    <3> QED
        BY <3>1, <3>2
  <2>5. w.lastRain = 0 /\ k.raining => u >= k.rainStart /\ q.lastRain = 0
      BY <1>1, <1>2, <2>1
  <2>6. w.lastRain = 0 /\ k.raining => w.lastSop = k.rainStart
      BY <1>1, <1>2, <1>5, <2>1, <2>5
  <2>7. w.lastRain > 0 => w.sopRoots = sh
      BY <1>1, <1>5, <1>6, <2>1
  <2>8. UpToDate(k, w, sh, a, S)
      BY <1>5, <2>2, <2>3, <2>4, <2>5, <2>6, <2>7 DEF UpToDate, T
  <2> QED
      BY <2>8
<1> QED
    BY <1>7, <1>8

\* A quotient by SopPrecision loses less than one, and nothing of 0.
LEMMA Floors ==
    ASSUME NEW m \in Nat
    PROVE  /\ m \div SopPrecision \in Nat /\ SopPrecision * (m \div SopPrecision) \in Nat
           /\ SopPrecision * (m \div SopPrecision) <= m
           /\ m <= SopPrecision * (m \div SopPrecision) + (IF m = 0 THEN 0 ELSE SopPrecision - 1)
<1>1. SopPrecision \in Nat \ {0}
    BY SiloAssumption
<1> DEFINE f == m \div SopPrecision
<1>2. f \in Nat /\ SopPrecision * f <= m /\ m < SopPrecision * f + SopPrecision
    BY <1>1, DivBounds
<1> HIDE DEF f
<1>3. SopPrecision * f \in Nat
    BY <1>1, <1>2
<1> QED
    BY <1>1, <1>2, <1>3 DEF f

\* What an update notes is what is owed, rounded down, at most one unit in
\* every Season since the last update.
LEMMA RoundedDown ==
    ASSUME NEW k \in Clocks, NEW q \in AccountStates, NEW pd \in Nat, Owed(q, k),
           q.lastUpdate <= k.current
    PROVE  /\ Pending(q, k) \in Nat /\ PlentyOf(q, k) \in Nat /\ q.plenty <= PlentyOf(q, k)
           /\ SopPrecision * (pd + PlentyOf(q, k))
                 <= SopPrecision * (pd + q.plenty) + Pending(q, k)
           /\ SopPrecision * (pd + q.plenty) + Pending(q, k) + (SopPrecision - 1) * q.lastUpdate
                 <= SopPrecision * (pd + PlentyOf(q, k)) + (SopPrecision - 1) * k.current
<1> DEFINE A == RainOf(q, k) * q.sopRoots
           B == LaterOf(q, k) * q.roots
           f == A \div SopPrecision
           g == B \div SopPrecision
           s == SopPrecision - 1
           u == q.lastUpdate
           n == (IF A = 0 THEN 0 ELSE 1) + (IF B = 0 THEN 0 ELSE 1)
<1>1. /\ q.sopRoots \in Nat /\ q.roots \in Nat /\ q.plenty \in Nat /\ u \in Nat
      /\ k.current \in Nat /\ RainOf(q, k) \in Nat /\ LaterOf(q, k) \in Nat
    BY AccountTypes DEF Owed
<1>2. SopPrecision \in Nat \ {0} /\ s \in Nat /\ SopPrecision = s + 1
    BY SiloAssumption
<1>3. \A x, y \in Nat : x * y \in Nat /\ 0 * y = 0
    OBVIOUS
<1>4. A \in Nat /\ B \in Nat
    BY <1>1, <1>3
<1>5. (A # 0 => RainOf(q, k) # 0) /\ (B # 0 => LaterOf(q, k) # 0)
    BY <1>1, <1>3
<1>6. Pending(q, k) = A + B /\ PlentyOf(q, k) = q.plenty + f + g
    BY DEF Pending, PlentyOf
<1>7. (A # 0 \/ B # 0 => u + 1 <= k.current) /\ (A # 0 /\ B # 0 => u + 2 <= k.current)
    BY <1>5 DEF Owed
<1> HIDE DEF A, B
<1>8. /\ f \in Nat /\ SopPrecision * f \in Nat /\ SopPrecision * f <= A
      /\ A <= SopPrecision * f + (IF A = 0 THEN 0 ELSE s)
    BY <1>4, Floors
<1>9. /\ g \in Nat /\ SopPrecision * g \in Nat /\ SopPrecision * g <= B
      /\ B <= SopPrecision * g + (IF B = 0 THEN 0 ELSE s)
    BY <1>4, Floors
<1> HIDE DEF f, g
<1>10. u + n <= k.current /\ n \in Nat
    BY <1>1, <1>7
<1>11. s * (u + n) <= s * k.current
  <2>1. u + n \in Nat
      BY <1>1, <1>10
  <2> HIDE DEF s, n, u
  <2> QED
      BY <1>1, <1>2, <1>10, <2>1, ProductMonotone
<1>12. s * (u + n) = s * u + (IF A = 0 THEN 0 ELSE s) + (IF B = 0 THEN 0 ELSE s)
       /\ s * u \in Nat /\ s * k.current \in Nat
  <2> HIDE DEF s, u
  <2>1. s * u \in Nat /\ s * k.current \in Nat
      BY <1>1, <1>2, <1>3
  <2>2. s * (u + 0) = s * u /\ s * (u + 1) = s * u + s /\ s * (u + 2) = s * u + s + s
      BY <1>1, <1>2
  <2>3. CASE A = 0 /\ B = 0
    <3>1. n = 0
        BY <2>3
    <3> HIDE DEF n
    <3> QED
        BY <2>1, <2>2, <2>3, <3>1
  <2>4. CASE (A = 0) # (B = 0)
    <3>1. n = 1
        BY <2>4
    <3> HIDE DEF n
    <3> QED
        BY <1>2, <2>1, <2>2, <2>4, <3>1
  <2>5. CASE A # 0 /\ B # 0
    <3>1. n = 2
        BY <2>5
    <3> HIDE DEF n
    <3> QED
        BY <2>1, <2>2, <2>5, <3>1
  <2> QED
      BY <2>1, <2>3, <2>4, <2>5
<1> DEFINE p == pd + q.plenty
<1>13. SopPrecision * (pd + PlentyOf(q, k))
         = SopPrecision * p + SopPrecision * f + SopPrecision * g
       /\ SopPrecision * p \in Nat
  <2>1. p \in Nat /\ pd + PlentyOf(q, k) = p + f + g
      BY <1>1, <1>6, <1>8, <1>9
  <2> HIDE DEF p
  <2>2. SopPrecision * (p + f + g) = SopPrecision * p + SopPrecision * f + SopPrecision * g
      BY <1>2, <1>8, <1>9, <2>1
  <2> QED
      BY <1>2, <1>3, <2>1, <2>2
<1> DEFINE x == SopPrecision * p
           y == SopPrecision * f
           z == SopPrecision * g
           v == s * u
           w == s * k.current
<1>14. /\ x \in Nat /\ y \in Nat /\ z \in Nat /\ v \in Nat /\ w \in Nat
       /\ v + (IF A = 0 THEN 0 ELSE s) + (IF B = 0 THEN 0 ELSE s) <= w
       /\ y <= A /\ z <= B
       /\ A <= y + (IF A = 0 THEN 0 ELSE s) /\ B <= z + (IF B = 0 THEN 0 ELSE s)
    BY <1>8, <1>9, <1>11, <1>12, <1>13
<1>15. SopPrecision * (pd + PlentyOf(q, k)) = x + y + z
    BY <1>13
<1> HIDE DEF x, y, z, v, w, s
<1>16. x + y + z <= x + (A + B) /\ x + (A + B) + v <= (x + y + z) + w
    BY <1>2, <1>4, <1>14
<1>17. /\ Pending(q, k) \in Nat /\ PlentyOf(q, k) \in Nat /\ q.plenty <= PlentyOf(q, k)
    BY <1>1, <1>4, <1>6, <1>8, <1>9
<1> QED
    BY <1>6, <1>15, <1>16, <1>17 DEF x, p, v, w, s, u

\* An update keeps what an account has got, but for rounding.
LEMMA HandledIsFair ==
    ASSUME NEW k \in Clocks, NEW q \in AccountStates, NEW w \in AccountStates, ClockSound(k),
           NEW sh, NEW fr \in Nat, NEW pd \in Nat, NEW a, NEW S, NEW S2 \in SUBSET S,
           Noted(q, k, sh, a, S), Fairly(q, k, fr, pd, a, S), Handles(q, k, w),
           w.lastUpdate = k.current, Owed(w, k)
    PROVE  Fairly(w, k, fr, pd, a, S2)
<1> DEFINE s == SopPrecision - 1
           x == SopPrecision * (pd + q.plenty)
           c == Pending(q, k)
           y == SopPrecision * (pd + w.plenty)
           v == s * q.lastUpdate
           t == s * k.current
<1>1. /\ q.plenty \in Nat /\ q.lastUpdate \in Nat /\ k.current \in Nat /\ w.plenty \in Nat
      /\ q.sopRoots \in Nat /\ q.roots \in Nat /\ w.sopRoots \in Nat /\ w.roots \in Nat
      /\ q.lastRain \in Nat /\ k.lastSopSeason \in Nat
    BY AccountTypes
<1>2. Owed(q, k) /\ q.lastUpdate <= k.current /\ k.lastSopSeason <= k.current
    BY OwedByAccount DEF Noted, Dates, ClockSound
<1>3. SopPrecision \in Nat \ {0} /\ s \in Nat
    BY SiloAssumption
<1>4. \A m, n \in Nat : m * n \in Nat /\ 0 * n = 0 /\ n * 0 = 0
    OBVIOUS
<1>5. x \in Nat /\ y \in Nat /\ v \in Nat /\ t \in Nat /\ v <= t
  <2>1. pd + q.plenty \in Nat /\ pd + w.plenty \in Nat
      BY <1>1
  <2>2. v <= t
    <3> HIDE DEF s
    <3> QED
        BY <1>1, <1>2, <1>3, ProductMonotone
  <2> HIDE DEF s
  <2> QED
      BY <1>1, <1>3, <1>4, <2>1, <2>2
<1>6. /\ c \in Nat /\ SopPrecision * (pd + PlentyOf(q, k)) <= x + c
      /\ x + c + v <= SopPrecision * (pd + PlentyOf(q, k)) + t
    BY <1>2, RoundedDown
<1>7. Pending(w, k) = 0
  <2>1. RainOf(w, k) = 0 /\ LaterOf(w, k) = 0
      BY <1>2 DEF Owed
  <2> QED
      BY <1>1, <1>4, <2>1 DEF Pending
<1>8. x + c <= fr /\ (a \in S => fr <= x + c + v)
    BY DEF Fairly
<1>9. CASE q.roots = 0
  <2>1. y = x
      BY <1>9 DEF Handles
  <2>2. a \in S => c = 0
    <3>1. a \in S => q.lastRain = 0 \/ q.sopRoots = 0
        BY <1>1, <1>9 DEF Noted, Stays
    <3>2. q.lastRain = 0 => RainOf(q, k) = 0
        BY <1>1 DEF RainOf
    <3>3. RainOf(q, k) \in Nat /\ LaterOf(q, k) \in Nat
        BY <1>2 DEF Owed
    <3> QED
        BY <1>1, <1>4, <1>9, <3>1, <3>2, <3>3 DEF Pending
  <2> HIDE DEF x, y, c, v, t, s
  <2>3. y <= fr /\ (a \in S => fr <= y + t)
      BY <1>5, <1>6, <1>8, <2>1, <2>2
  <2> QED
      BY <1>5, <1>7, <2>3 DEF Fairly, y, t, s
<1>10. CASE q.roots # 0 /\ k.lastSopSeason > q.lastUpdate
  <2>1. y = SopPrecision * (pd + PlentyOf(q, k))
      BY <1>10 DEF Handles
  <2> HIDE DEF x, y, c, v, t, s
  <2>2. y <= fr /\ (a \in S => fr <= y + t)
      BY <1>5, <1>6, <1>8, <2>1
  <2> QED
      BY <1>5, <1>7, <2>2 DEF Fairly, y, t, s
<1>11. CASE q.roots # 0 /\ ~(k.lastSopSeason > q.lastUpdate)
  <2>1. y = x
      BY <1>11 DEF Handles
  <2>2. c = 0
    <3>1. RainOf(q, k) = 0 /\ LaterOf(q, k) = 0
        BY <1>1, <1>2, <1>11 DEF Owed
    <3> QED
        BY <1>1, <1>4, <3>1 DEF Pending
  <2> HIDE DEF x, y, c, v, t, s
  <2>3. y <= fr /\ (a \in S => fr <= y + t)
      BY <1>5, <1>6, <1>8, <2>1, <2>2
  <2> QED
      BY <1>5, <1>7, <2>3 DEF Fairly, y, t, s
<1> QED
    BY <1>9, <1>10, <1>11

\* The same is noted of Rain and Plenty.
SameRain(q, w) ==
    /\ w.plenty = q.plenty /\ w.lastSop = q.lastSop /\ w.lastRain = q.lastRain
    /\ w.sopRoots = q.sopRoots /\ w.plentyPerRoot = q.plentyPerRoot

\* w is q after an update in this Season, whatever its Mage, Seeds and Roots.
Refreshed(q, k, w) ==
    /\ w.lastUpdate = k.current
    /\ q.lastUpdate >= k.current => SameRain(q, w)
    /\ q.lastUpdate < k.current => Handles(q, k, w)

\* An account updated before in this Season is up to date.
LEMMA RefreshedAgain ==
    ASSUME NEW k \in Clocks, NEW q \in AccountStates, NEW w \in AccountStates, ClockSound(k),
           NEW sh, NEW a, NEW S, Noted(q, k, sh, a, S), SameRain(q, w),
           q.lastUpdate >= k.current, w.lastUpdate = k.current
    PROVE  UpToDate(k, w, sh, a, S)
<1>1. /\ k.current \in Nat /\ k.rainStart \in Nat /\ k.lastSopSeason \in Nat
      /\ q.lastUpdate \in Nat /\ q.lastSop \in Nat /\ q.lastRain \in Nat
    BY AccountTypes
<1>2. k.rainStart <= k.current /\ k.lastSopSeason <= k.current
    BY DEF ClockSound
<1>3. q.lastUpdate = k.current /\ q.lastSop <= k.current
    BY <1>1 DEF Noted, Dates
<1>4. k.sops[q.lastSop] = AllPPR(k) /\ PrevOf(q, k) = AllPPR(k)
    BY <1>2, <1>3 DEF Noted, Settled
<1>5. PrevOf(w, k) = PrevOf(q, k)
    BY DEF PrevOf, SameRain
<1>6. /\ q.lastRain \in {0, k.rainStart}
      /\ q.lastRain = 0 => /\ k.raining => q.lastSop = k.rainStart
                           /\ k.raining /\ a \in S => sh = 0
      /\ q.lastRain > 0 => q.sopRoots = sh
    BY <1>1, <1>2, <1>3 DEF Noted, SinceRain
<1> QED
    BY <1>3, <1>4, <1>5, <1>6 DEF UpToDate, SameRain

\* A call that updates an account, or leaves it alone, keeps it as noted and
\* what it has got of its share.
LEMMA AccountKept ==
    ASSUME NEW k \in Clocks, NEW q \in AccountStates, NEW w \in AccountStates, ClockSound(k),
           NEW sh, NEW fr \in Nat, NEW pd \in Nat, NEW a, NEW S, NEW S2 \in SUBSET S,
           Noted(q, k, sh, a, S), Fairly(q, k, fr, pd, a, S),
           w = q \/ Refreshed(q, k, w), a \in S2 => sh = 0 \/ w.roots > 0
    PROVE  Noted(w, k, sh, a, S2) /\ Fairly(w, k, fr, pd, a, S2)
<1>1. q.lastUpdate \in Nat /\ k.current \in Nat /\ k.lastSopSeason \in Nat
      /\ q.sopRoots \in Nat /\ q.roots \in Nat /\ w.sopRoots \in Nat /\ w.roots \in Nat
    BY AccountTypes
<1>2. CASE w = q
  <2>1. SinceRain(q, k, sh, a, S2) /\ Stays(q, sh, a, S2)
      BY DEF Noted, SinceRain, Stays
  <2>2. Noted(q, k, sh, a, S2)
      BY <2>1 DEF Noted
  <2>3. Fairly(q, k, fr, pd, a, S2)
      BY DEF Fairly
  <2> QED
      BY <1>2, <2>2, <2>3
<1>3. CASE Refreshed(q, k, w) /\ q.lastUpdate >= k.current
  <2>1. SameRain(q, w) /\ w.lastUpdate = k.current
      BY <1>3 DEF Refreshed
  <2>2. UpToDate(k, w, sh, a, S)
      BY <1>3, <2>1, RefreshedAgain
  <2>3. Noted(w, k, sh, a, S2)
      BY <2>2, UpToDateIsNoted
  <2>4. Owed(q, k) /\ Owed(w, k)
      BY <2>3, OwedByAccount
  <2>5. q.lastUpdate = k.current /\ k.lastSopSeason <= k.current
      BY <1>1, <1>3 DEF Noted, Dates, ClockSound
  <2>6. /\ RainOf(q, k) = 0 /\ LaterOf(q, k) = 0
        /\ RainOf(w, k) = 0 /\ LaterOf(w, k) = 0
      BY <2>1, <2>4, <2>5 DEF Owed
  <2>7. Pending(q, k) = 0 /\ Pending(w, k) = 0
      BY <1>1, <2>6 DEF Pending
  <2>8. Fairly(w, k, fr, pd, a, S2)
      BY <2>1, <2>5, <2>7, Zenon DEF Fairly, SameRain
  <2> QED
      BY <2>3, <2>8
<1>4. CASE Refreshed(q, k, w) /\ q.lastUpdate < k.current
  <2>1. Handles(q, k, w) /\ w.lastUpdate = k.current
      BY <1>4 DEF Refreshed
  <2>2. Noted(w, k, sh, a, S2)
      BY <2>1, HandledIsUpToDate, UpToDateIsNoted
  <2>3. Owed(w, k)
      BY <2>2, OwedByAccount
  <2>4. Fairly(w, k, fr, pd, a, S2)
      BY <2>1, <2>3, HandledIsFair
  <2> QED
      BY <2>2, <2>4
<1> QED
    BY <1>1, <1>2, <1>3, <1>4

(***************************************************************************)
(* What a call does to the accounts                                        *)
(***************************************************************************)

\* y is z with other Mage, Seeds and Roots of the accounts A.
RainKept(z, A, y) ==
    /\ y \in Silos /\ y.rainRoots = z.rainRoots
    /\ \A b \in Accounts :
          /\ y.acct[b].lastUpdate = z.acct[b].lastUpdate /\ SameRain(z.acct[b], y.acct[b])
          /\ b \notin A => y.acct[b] = z.acct[b]

\* Two changes of this kind are one.
LEMMA RainKeptTwice ==
    ASSUME NEW z, NEW A, NEW x, NEW y, RainKept(z, A, x), RainKept(x, A, y)
    PROVE  RainKept(z, A, y)
BY DEF RainKept, SameRain

\* More Mage and its Roots.
LEMMA IncrementKeepsRain ==
    ASSUME NEW z \in Silos, NEW a \in Accounts, NEW n \in Nat, CanIncrementMage(z),
           NEW y, y = IncrementMage(z, a, n)
    PROVE  RainKept(z, {a}, y)
<1>1. y \in Silos
    BY MageUp DEF Moved
<1>2. y.rainRoots = z.rainRoots
    BY DEF Silos, IncrementMage
<1>3. ASSUME NEW b \in Accounts
      PROVE  /\ y.acct[b].lastUpdate = z.acct[b].lastUpdate /\ SameRain(z.acct[b], y.acct[b])
             /\ b # a => y.acct[b] = z.acct[b]
    BY DEF Silos, AccountStates, IncrementMage, SameRain
<1> QED
    BY <1>1, <1>2, <1>3 DEF RainKept

\* More Seeds.
LEMMA SeedsUpKeepRain ==
    ASSUME NEW z \in Silos, NEW a \in Accounts, NEW n \in Nat, NEW y, y = IncrementSeeds(z, a, n)
    PROVE  RainKept(z, {a}, y)
<1>1. y \in Silos
    BY SeedsUp DEF Moved
<1>2. y.rainRoots = z.rainRoots
    BY DEF Silos, IncrementSeeds
<1>3. ASSUME NEW b \in Accounts
      PROVE  /\ y.acct[b].lastUpdate = z.acct[b].lastUpdate /\ SameRain(z.acct[b], y.acct[b])
             /\ b # a => y.acct[b] = z.acct[b]
    BY DEF Silos, AccountStates, IncrementSeeds, SameRain
<1> QED
    BY <1>1, <1>2, <1>3 DEF RainKept

\* Fewer Seeds.
LEMMA SeedsDownKeepRain ==
    ASSUME NEW z \in Silos, NEW a \in Accounts, NEW n \in Nat, CanDecrementSeeds(z, a, n),
           NEW y, y = DecrementSeeds(z, a, n)
    PROVE  RainKept(z, {a}, y)
<1>1. y \in Silos
    BY SeedsDown DEF Moved
<1>2. y.rainRoots = z.rainRoots
    BY DEF Silos, DecrementSeeds
<1>3. ASSUME NEW b \in Accounts
      PROVE  /\ y.acct[b].lastUpdate = z.acct[b].lastUpdate /\ SameRain(z.acct[b], y.acct[b])
             /\ b # a => y.acct[b] = z.acct[b]
    BY DEF Silos, AccountStates, DecrementSeeds, SameRain
<1> QED
    BY <1>1, <1>2, <1>3 DEF RainKept

\* Less Mage, while it is dry.
LEMMA DecrementKeepsRain ==
    ASSUME NEW z \in Silos, NEW k \in Clocks, NEW a \in Accounts, NEW n \in Nat,
           CanDecrementMage(z, k, a, n), ~k.raining, NEW y, y = DecrementMage(z, k, a, n)
    PROVE  RainKept(z, {a}, y)
<1>1. y \in Silos
    BY MageDown DEF Moved
<1> DEFINE r == LostRoots(z, a, n)
<1>2. y = [z EXCEPT !.mage = @ - n, !.acct[a].mage = @ - n,
                    !.roots = @ - r, !.acct[a].roots = @ - r]
    BY DEF DecrementMage
<1> HIDE DEF r
<1>3. y.rainRoots = z.rainRoots
    BY <1>2 DEF Silos
<1>4. ASSUME NEW b \in Accounts
      PROVE  /\ y.acct[b].lastUpdate = z.acct[b].lastUpdate /\ SameRain(z.acct[b], y.acct[b])
             /\ b # a => y.acct[b] = z.acct[b]
    BY <1>2 DEF Silos, AccountStates, SameRain
<1> QED
    BY <1>1, <1>3, <1>4 DEF RainKept

\* The Mage of planted Moons.
LEMMA PlantedKeepsRain ==
    ASSUME NEW z \in Silos, NEW a \in Accounts, NEW n \in Nat, NEW y, y = PlantedMage(z, a, n)
    PROVE  RainKept(z, {a}, y)
<1>1. y \in Silos
    BY MagePlanted DEF Moved
<1>2. y.rainRoots = z.rainRoots
    BY DEF Silos, PlantedMage
<1>3. ASSUME NEW b \in Accounts
      PROVE  /\ y.acct[b].lastUpdate = z.acct[b].lastUpdate /\ SameRain(z.acct[b], y.acct[b])
             /\ b # a => y.acct[b] = z.acct[b]
    BY DEF Silos, AccountStates, PlantedMage, SameRain
<1> QED
    BY <1>1, <1>2, <1>3 DEF RainKept

\* Mage and Roots that one account gives another.
LEMMA TransferKeepsRain ==
    ASSUME NEW z \in Silos, NEW from \in Accounts, NEW to \in Accounts, NEW n \in Nat,
           CanTransferMage(z, from, n), NEW y, y = TransferMage(z, from, to, n)
    PROVE  RainKept(z, {from, to}, y)
<1>1. y \in Silos
    BY MageTransferred DEF SentMage, Moved
<1> DEFINE r == SentRoots(z, from, n)
           sent == [z EXCEPT !.acct[from].mage = @ - n, !.acct[from].roots = @ - r]
<1>2. y = [sent EXCEPT !.acct[to].mage = @ + n, !.acct[to].roots = @ + r]
    BY DEF TransferMage
<1>3. /\ sent.rainRoots = z.rainRoots
      /\ \A b \in Accounts :
            /\ sent.acct[b].lastUpdate = z.acct[b].lastUpdate /\ SameRain(z.acct[b], sent.acct[b])
            /\ b # from => sent.acct[b] = z.acct[b]
    BY DEF Silos, AccountStates, SameRain
<1>4. sent \in Silos
  <2>1. r \in Nat /\ r <= z.acct[from].roots /\ n <= z.acct[from].mage
      BY RootsSent
  <2> HIDE DEF r
  <2>2. z.acct[from].mage - n \in Nat /\ z.acct[from].roots - r \in Nat
      BY <2>1, SilosHaveTypes
  <2>3. sent = Shares(z, from, z.acct[from].mage - n, z.acct[from].roots - r)
      BY DEF Silos, AccountStates, Shares
  <2> DEFINE m == z.acct[from].mage - n
             l == z.acct[from].roots - r
  <2> HIDE DEF sent, m, l
  <2>4. Moved(z, from, sent, m, z.acct[from].seeds, l, z.acct[from].lastUpdate)
      BY <2>2, <2>3, SharesMove DEF m, l
  <2> QED
      BY <2>4 DEF Moved
<1> HIDE DEF sent, r
<1>5. /\ y.rainRoots = sent.rainRoots
      /\ \A b \in Accounts :
            /\ y.acct[b].lastUpdate = sent.acct[b].lastUpdate /\ SameRain(sent.acct[b], y.acct[b])
            /\ b # to => y.acct[b] = sent.acct[b]
  <2>1. y.rainRoots = sent.rainRoots
      BY <1>2, <1>4 DEF Silos
  <2>2. \A b \in Accounts : b # to => y.acct[b] = sent.acct[b]
      BY <1>2, <1>4 DEF Silos
  <2>3. sent.acct[to] \in AccountStates
      BY <1>4, SilosHaveTypes
  <2>4. y.acct[to].lastUpdate = sent.acct[to].lastUpdate /\ SameRain(sent.acct[to], y.acct[to])
      BY <1>2, <1>4, <2>3 DEF Silos, AccountStates, SameRain
  <2> QED
      BY <2>1, <2>2, <2>4 DEF SameRain
<1> QED
    BY <1>1, <1>3, <1>5 DEF RainKept, SameRain

\* Seeds that one account gives another.
LEMMA SeedsSentKeepRain ==
    ASSUME NEW z \in Silos, NEW from \in Accounts, NEW to \in Accounts, NEW n \in Nat,
           n <= z.acct[from].seeds, NEW y, y = TransferSeeds(z, from, to, n)
    PROVE  RainKept(z, {from, to}, y)
<1>1. y \in Silos
    BY SeedsTransferred DEF SentSeeds, Moved
<1>2. y.rainRoots = z.rainRoots
    BY DEF Silos, TransferSeeds
<1>3. ASSUME NEW b \in Accounts
      PROVE  /\ y.acct[b].lastUpdate = z.acct[b].lastUpdate /\ SameRain(z.acct[b], y.acct[b])
             /\ b \notin {from, to} => y.acct[b] = z.acct[b]
    BY DEF Silos, AccountStates, TransferSeeds, SameRain
<1> QED
    BY <1>1, <1>2, <1>3 DEF RainKept

(***************************************************************************)
(* What an update does to the accounts                                     *)
(***************************************************************************)

\* The operators of LibSilo on a silo are those on the record of the account.
LEMMA OwedInSilo ==
    ASSUME NEW z, NEW k, NEW a
    PROVE  /\ PreviousPPR(z, k, a) = PrevOf(z.acct[a], k)
           /\ RainPPR(z, k, a) = RainOf(z.acct[a], k)
           /\ LaterPPR(z, k, a) = LaterOf(z.acct[a], k)
           /\ BalanceOfPlenty(z, k, a) = PlentyOf(z.acct[a], k)
<1>1. PreviousPPR(z, k, a) = PrevOf(z.acct[a], k)
    BY DEF PreviousPPR, PrevOf
<1>2. RainPPR(z, k, a) = RainOf(z.acct[a], k)
    BY <1>1 DEF RainPPR, RainOf
<1>3. LaterPPR(z, k, a) = LaterOf(z.acct[a], k)
    BY <1>1, <1>2 DEF LaterPPR, LaterOf, AllPPR
<1>4. BalanceOfPlenty(z, k, a) = PlentyOf(z.acct[a], k)
    BY <1>2, <1>3 DEF BalanceOfPlenty, PlentyOf
<1> QED
    BY <1>1, <1>2, <1>3, <1>4

\* What handleRainAndSops notes of one account; the others are as before.
LEMMA SiloHandles ==
    ASSUME NEW z \in Silos, NEW k \in Clocks, NEW a \in Accounts,
           z.acct[a].roots > 0 => LaterPPR(z, k, a) >= 0,
           NEW y, y = HandleRainAndSops(z, k, a)
    PROVE  /\ y \in Silos /\ y.rainRoots = z.rainRoots /\ Handles(z.acct[a], k, y.acct[a])
           /\ \A b \in Accounts : b # a => y.acct[b] = z.acct[b]
<1> DEFINE q == z.acct[a]
           x == HandleSops(z, k, a)
<1>1. y \in Silos /\ \A b \in Accounts : b # a => y.acct[b] = z.acct[b]
    BY RainAndSopsHandled DEF Kept, Moved
<1>2. CASE q.roots = 0
  <2>1. y = [z EXCEPT !.acct[a].lastSop = k.rainStart, !.acct[a].lastRain = 0]
      BY <1>2 DEF HandleRainAndSops
  <2>2. y.rainRoots = z.rainRoots /\ y.acct[a].plenty = q.plenty
        /\ y.acct[a].lastSop = k.rainStart /\ y.acct[a].lastRain = 0
      BY <2>1 DEF Silos, AccountStates
  <2> QED
      BY <1>1, <1>2, <2>2 DEF Handles
<1>3. CASE q.roots # 0
  <2>1. q.roots > 0
      BY <1>3, SilosHaveTypes
  <2>2. x \in Silos /\ Kept(z, a, x)
      BY <2>1, SopsHandled DEF Kept, Moved
  <2>3. y = HandleRain(x, k, a)
      BY <1>3 DEF HandleRainAndSops
  <2>4. /\ x.rainRoots = z.rainRoots
        /\ x.acct[a].plenty = (IF k.lastSopSeason > q.lastUpdate THEN PlentyOf(q, k) ELSE q.plenty)
        /\ x.acct[a].lastSop = (IF k.lastSopSeason > q.lastUpdate THEN k.lastSop ELSE q.lastSop)
        /\ x.acct[a].lastRain = q.lastRain /\ x.acct[a].sopRoots = q.sopRoots
        /\ x.acct[a].plentyPerRoot = q.plentyPerRoot
    <3> DEFINE p == PlentyOf(q, k)
    <3>1. x = IF k.lastSopSeason > q.lastUpdate
              THEN [z EXCEPT !.acct[a].plenty = p, !.acct[a].lastSop = k.lastSop] ELSE z
        BY OwedInSilo DEF HandleSops
    <3> HIDE DEF p, x
    <3> QED
        BY <3>1 DEF Silos, AccountStates, p
  <2>5. x.acct[a].roots = q.roots /\ x.acct[a].lastUpdate = q.lastUpdate
      BY <2>2 DEF Kept, Moved
  <2> HIDE DEF x
  <2> DEFINE t == StartRain(x, k, a)
  <2>6. t \in Silos
      BY <2>2, RainStarted DEF Kept, Moved
  <2>7. /\ t.rainRoots = x.rainRoots
        /\ t.acct[a].plenty = x.acct[a].plenty /\ t.acct[a].lastSop = x.acct[a].lastSop
        /\ t.acct[a].plentyPerRoot = x.acct[a].plentyPerRoot
        /\ t.acct[a].lastRain
              = (IF k.rainStart > q.lastUpdate THEN k.rainStart ELSE x.acct[a].lastRain)
        /\ t.acct[a].sopRoots
              = (IF k.rainStart > q.lastUpdate THEN q.roots ELSE x.acct[a].sopRoots)
      BY <2>2, <2>5 DEF StartRain, Silos, AccountStates
  <2> HIDE DEF t
  <2>8. CASE ~k.raining
    <3>1. y = [x EXCEPT !.acct[a].lastRain = 0]
        BY <2>3, <2>8 DEF HandleRain
    <3>2. /\ y.rainRoots = x.rainRoots /\ y.acct[a].lastRain = 0
          /\ y.acct[a].plenty = x.acct[a].plenty /\ y.acct[a].lastSop = x.acct[a].lastSop
          /\ y.acct[a].sopRoots = x.acct[a].sopRoots
          /\ y.acct[a].plentyPerRoot = x.acct[a].plentyPerRoot
        BY <2>2, <3>1 DEF Silos, AccountStates
    <3> QED
        BY <1>1, <1>3, <2>4, <2>8, <3>2 DEF Handles
  <2>9. CASE k.raining /\ k.lastSop = k.rainStart
    <3>1. y = [t EXCEPT !.acct[a].plentyPerRoot = k.sops[k.lastSop]]
        BY <2>3, <2>9, Zenon DEF HandleRain, t
    <3>2. /\ y.rainRoots = t.rainRoots /\ y.acct[a].lastRain = t.acct[a].lastRain
          /\ y.acct[a].plenty = t.acct[a].plenty /\ y.acct[a].lastSop = t.acct[a].lastSop
          /\ y.acct[a].sopRoots = t.acct[a].sopRoots
          /\ y.acct[a].plentyPerRoot = AllPPR(k)
        BY <2>6, <3>1 DEF Silos, AccountStates, AllPPR
    <3> QED
        BY <1>1, <1>3, <2>4, <2>7, <2>9, <3>2 DEF Handles
  <2>10. CASE k.raining /\ k.lastSop # k.rainStart
    <3>1. y = t
        BY <2>3, <2>10 DEF HandleRain, t
    <3> QED
        BY <1>1, <1>3, <2>4, <2>7, <2>10, <3>1 DEF Handles
  <2> QED
      BY <2>8, <2>9, <2>10
<1> QED
    BY <1>2, <1>3

\* _update: once a Season, an account gets Plenty, and is noted for the Rain.
LEMMA UpdateRefreshes ==
    ASSUME NEW z \in Silos, NEW k \in Clocks, NEW a \in Accounts, CanUpdate(z, k, a),
           z.acct[a].lastUpdate <= k.current, NEW y, y = Updated(z, k, a)
    PROVE  /\ y \in Silos /\ y.rainRoots = z.rainRoots
           /\ Refreshed(z.acct[a], k, y.acct[a])
           /\ \A b \in Accounts : b # a => y.acct[b] = z.acct[b]
<1> DEFINE q == z.acct[a]
<1>1. q.lastUpdate \in Nat /\ k.current \in Nat /\ q.seeds \in Nat /\ z.roots \in Nat
  <2>1. q \in AccountStates /\ q.seeds \in Nat /\ z.roots \in Nat
      BY SilosHaveTypes
  <2> HIDE DEF q
  <2>2. q.lastUpdate \in Nat /\ k.current \in Nat
      BY <2>1, AccountTypes
  <2> QED
      BY <2>1, <2>2
<1>2. y \in Silos /\ \A b \in Accounts : b # a => y.acct[b] = z.acct[b]
    BY AccountUpdated DEF Moved
<1>3. CASE q.lastUpdate >= k.current
  <2>1. y = z /\ q.lastUpdate = k.current
      BY <1>1, <1>3 DEF Updated
  <2>2. Refreshed(q, k, y.acct[a])
      BY <1>1, <2>1 DEF Refreshed, SameRain
  <2> QED
      BY <1>2, <2>1, <2>2
<1>4. CASE q.lastUpdate < k.current
  <2> DEFINE x == HandleRainAndSops(z, k, a)
             w == EarnGrownMage(x, k, a)
  <2>1. q.roots > 0 => LaterPPR(z, k, a) >= 0
      BY <1>4 DEF CanUpdate
  <2>2. Kept(z, a, x)
      BY <2>1, RainAndSopsHandled
  <2>3. /\ x \in Silos /\ x.rainRoots = z.rainRoots /\ Handles(q, k, x.acct[a])
        /\ \A b \in Accounts : b # a => x.acct[b] = z.acct[b]
      BY <2>1, SiloHandles
  <2>4. y = [w EXCEPT !.acct[a].lastUpdate = k.current]
    <3>1. ~(q.lastUpdate >= k.current)
        BY <1>1, <1>4
    <3> QED
        BY <3>1, Zenon DEF Updated
  <2> HIDE DEF x
  <2>5. RainKept(x, {a}, w)
    <3>1. CASE x.acct[a].seeds = 0
      <4>1. w = x
          BY <3>1 DEF EarnGrownMage
      <4> HIDE DEF w
      <4> QED
          BY <2>3, <4>1 DEF RainKept, SameRain
    <3>2. CASE x.acct[a].seeds # 0
      <4> DEFINE g == GrownMage(x, k, a)
      <4>1. x.acct[a].seeds = q.seeds /\ x.acct[a].lastUpdate = q.lastUpdate
            /\ x.roots = z.roots /\ x.mage = z.mage
          BY <2>2 DEF Kept, Moved, Totals
      <4>2. CanIncrementMage(x)
          BY <1>1, <1>4, <3>2, <4>1 DEF CanUpdate, CanIncrementMage
      <4>3. g \in Nat
          BY <2>3, <4>1, GrownTypes
      <4>4. w = IncrementMage(x, a, g)
          BY <3>2 DEF EarnGrownMage
      <4> HIDE DEF g, w
      <4> QED
          BY <2>3, <4>2, <4>3, <4>4, IncrementKeepsRain
    <3> QED
        BY <3>1, <3>2
  <2>6. w \in Silos /\ w.rainRoots = x.rainRoots /\ SameRain(x.acct[a], w.acct[a])
      BY <2>5 DEF RainKept
  <2> HIDE DEF w
  <2>7. /\ y.rainRoots = w.rainRoots /\ y.acct[a].lastUpdate = k.current
        /\ SameRain(w.acct[a], y.acct[a])
      BY <2>4, <2>6 DEF Silos, AccountStates, SameRain
  <2>8. Handles(q, k, y.acct[a])
    <3>1. SameRain(x.acct[a], y.acct[a])
        BY <2>6, <2>7 DEF SameRain
    <3> HIDE DEF q
    <3> QED
        BY <2>3, <3>1 DEF Handles, SameRain
  <2> QED
      BY <1>1, <1>2, <1>4, <2>3, <2>6, <2>7, <2>8 DEF Refreshed
<1> QED
    BY <1>1, <1>3, <1>4

\* Every account is as it was, or as after an update in this Season.
AccountsKept(k, z, y) ==
    /\ y \in Silos /\ y.rainRoots = z.rainRoots
    /\ \A b \in Accounts : y.acct[b] = z.acct[b] \/ Refreshed(z.acct[b], k, y.acct[b])

\* What an update notes, and a call that changes nothing of it, is refreshed.
LEMMA RefreshedOnce ==
    ASSUME NEW k \in Clocks, NEW q \in AccountStates, NEW x \in AccountStates,
           NEW w \in AccountStates, x = q \/ Refreshed(q, k, x),
           x.lastUpdate = k.current, w.lastUpdate = k.current, SameRain(x, w)
    PROVE  Refreshed(q, k, w)
<1>1. q.lastUpdate \in Nat /\ k.current \in Nat
    BY AccountTypes
<1>2. CASE x = q
    BY <1>1, <1>2 DEF Refreshed
<1>3. CASE Refreshed(q, k, x) /\ q.lastUpdate >= k.current
    BY <1>1, <1>3 DEF Refreshed, SameRain
<1>4. CASE Refreshed(q, k, x) /\ q.lastUpdate < k.current
  <2>1. Handles(q, k, w)
      BY <1>4 DEF Refreshed, Handles, SameRain
  <2> QED
      BY <1>1, <1>4, <2>1 DEF Refreshed
<1> QED
    BY <1>1, <1>2, <1>3, <1>4

\* Other Mage, Seeds and Roots of accounts that were updated in the call.
LEMMA KeptAfterUpdate ==
    ASSUME NEW k \in Clocks, NEW z \in Silos, NEW x, NEW y, NEW A, AccountsKept(k, z, x),
           \A b \in A : x.acct[b].lastUpdate = k.current, RainKept(x, A, y)
    PROVE  AccountsKept(k, z, y)
<1>1. x \in Silos /\ x.rainRoots = z.rainRoots /\ y \in Silos /\ y.rainRoots = x.rainRoots
    BY DEF AccountsKept, RainKept
<1>2. ASSUME NEW b \in Accounts
      PROVE  y.acct[b] = z.acct[b] \/ Refreshed(z.acct[b], k, y.acct[b])
  <2>1. x.acct[b] = z.acct[b] \/ Refreshed(z.acct[b], k, x.acct[b])
      BY DEF AccountsKept
  <2>2. CASE b \notin A
      BY <2>1, <2>2 DEF RainKept
  <2>3. CASE b \in A
    <3>1. /\ z.acct[b] \in AccountStates /\ x.acct[b] \in AccountStates
          /\ y.acct[b] \in AccountStates
        BY <1>1, SilosHaveTypes
    <3>2. x.acct[b].lastUpdate = k.current /\ y.acct[b].lastUpdate = k.current
          /\ SameRain(x.acct[b], y.acct[b])
        BY <2>3 DEF RainKept
    <3> QED
        BY <2>1, <3>1, <3>2, RefreshedOnce
  <2> QED
      BY <2>2, <2>3
<1> QED
    BY <1>1, <1>2 DEF AccountsKept

\* One update after another.
LEMMA KeptTwiceOver ==
    ASSUME NEW k \in Clocks, NEW z \in Silos, NEW x, NEW y,
           AccountsKept(k, z, x), AccountsKept(k, x, y)
    PROVE  AccountsKept(k, z, y)
<1>1. x \in Silos /\ x.rainRoots = z.rainRoots /\ y \in Silos /\ y.rainRoots = x.rainRoots
    BY DEF AccountsKept
<1>2. ASSUME NEW b \in Accounts
      PROVE  y.acct[b] = z.acct[b] \/ Refreshed(z.acct[b], k, y.acct[b])
  <2>1. x.acct[b] = z.acct[b] \/ Refreshed(z.acct[b], k, x.acct[b])
      BY DEF AccountsKept
  <2>2. y.acct[b] = x.acct[b] \/ Refreshed(x.acct[b], k, y.acct[b])
      BY DEF AccountsKept
  <2>3. CASE x.acct[b] = z.acct[b] \/ y.acct[b] = x.acct[b]
      BY <2>1, <2>2, <2>3
  <2>4. CASE Refreshed(z.acct[b], k, x.acct[b]) /\ Refreshed(x.acct[b], k, y.acct[b])
    <3>1. /\ z.acct[b] \in AccountStates /\ x.acct[b] \in AccountStates
          /\ y.acct[b] \in AccountStates /\ k.current \in Nat
        BY <1>1, SilosHaveTypes, AccountTypes
    <3>2. x.acct[b].lastUpdate = k.current /\ y.acct[b].lastUpdate = k.current
          /\ SameRain(x.acct[b], y.acct[b])
        BY <2>4, <3>1 DEF Refreshed
    <3> QED
        BY <2>1, <3>1, <3>2, RefreshedOnce
  <2> QED
      BY <2>1, <2>2, <2>3, <2>4
<1> QED
    BY <1>1, <1>2 DEF AccountsKept

\* A Deposit's Mage and Seeds.
LEMMA AssetsKeepRain ==
    ASSUME NEW z \in Silos, NEW a \in Accounts, NEW s \in Nat, NEW m \in Nat,
           CanIncrementMage(z), NEW y, y = DepositSiloAssets(z, a, s, m)
    PROVE  RainKept(z, {a}, y)
<1> DEFINE x == IncrementMage(z, a, m)
<1>1. RainKept(z, {a}, x)
    BY IncrementKeepsRain
<1>2. y = IncrementSeeds(x, a, s)
    BY DEF DepositSiloAssets
<1> HIDE DEF x
<1>3. RainKept(x, {a}, y)
    BY <1>1, <1>2, SeedsUpKeepRain DEF RainKept
<1> QED
    BY <1>1, <1>3, RainKeptTwice

(***************************************************************************)
(* Calls                                                                   *)
(***************************************************************************)

\* What a call does to accounts, Seasons and 3CRV, where it pays no Plenty.
Quiet ==
    /\ clock' = clock /\ threeCrv' = threeCrv
    /\ AccountsKept(clock, silo, silo')

\* An account after its update, in a call.
LEMMA CallRefreshes ==
    ASSUME SInv, NEW z, NEW e, SiloGood(clock, z, deposits, e), NEW a \in Accounts,
           CanUpdate(z, clock, a), NEW y, y = Updated(z, clock, a)
    PROVE  AccountsKept(clock, z, y) /\ y.acct[a].lastUpdate = clock.current
<1>1. z \in Silos /\ clock \in Clocks /\ z.acct[a].lastUpdate <= clock.current
    BY DEF SiloGood, Balanced, Accts
<1>2. /\ y \in Silos /\ y.rainRoots = z.rainRoots
      /\ Refreshed(z.acct[a], clock, y.acct[a])
      /\ \A b \in Accounts : b # a => y.acct[b] = z.acct[b]
    BY <1>1, UpdateRefreshes
<1> QED
    BY <1>2 DEF AccountsKept, Refreshed

\* The same of the silo that a call begins with.
LEMMA CallUpdated ==
    ASSUME SInv, NEW a \in Accounts, CanUpdate(silo, clock, a), NEW y, y = Updated(silo, clock, a)
    PROVE  /\ AccountsKept(clock, silo, y) /\ y.acct[a].lastUpdate = clock.current
           /\ SiloGood(clock, y, deposits, earnedMoons * MagePerMoon)
           /\ y \in Silos /\ silo \in Silos /\ clock \in Clocks
<1>1. SiloGood(clock, silo, deposits, earnedMoons * MagePerMoon)
    BY DEF SInv
<1>2. AccountsKept(clock, silo, y) /\ y.acct[a].lastUpdate = clock.current
    BY <1>1, CallRefreshes
<1> QED
    BY <1>2, CallUpdates, SInvFacts

\* A call that updates one account and then changes its Mage, Seeds and Roots.
LEMMA QuietAfterUpdate ==
    ASSUME SInv, NEW a \in Accounts, NEW y, AccountsKept(clock, silo, y),
           y.acct[a].lastUpdate = clock.current, RainKept(y, {a}, silo'),
           clock' = clock, threeCrv' = threeCrv
    PROVE  Quiet
BY SInvFacts, KeptAfterUpdate DEF Quiet

\* deposit.
LEMMA DepositIsQuiet ==
    ASSUME SInv, NEW c \in Accounts, NEW token \in Tokens, NEW amount \in DepositAmounts,
           NEW bdv \in Bdvs, Deposit(c, token, amount, bdv)
    PROVE  Quiet
<1> DEFINE y == Updated(silo, clock, c)
           s == bdv * TokenSeeds[token]
           m == bdv * TokenMage[token]
<1>1. /\ silo' = DepositSiloAssets(y, c, s, m)
      /\ CanUpdate(silo, clock, c) /\ CanIncrementMage(y)
      /\ clock' = clock /\ threeCrv' = threeCrv
    BY DEF Deposit
<1>2. s \in Nat /\ m \in Nat
  <2>1. bdv \in Nat /\ TokenSeeds[token] \in Nat /\ TokenMage[token] \in Nat
      BY SiloAssumption
  <2>2. \A i, j \in Nat : i * j \in Nat
      OBVIOUS
  <2> QED
      BY <2>1, <2>2
<1>3. AccountsKept(clock, silo, y) /\ y.acct[c].lastUpdate = clock.current /\ y \in Silos
    BY <1>1, CallUpdated
<1> HIDE DEF y, s, m
<1>4. RainKept(y, {c}, silo')
    BY <1>1, <1>2, <1>3, AssetsKeepRain
<1> QED
    BY <1>1, <1>3, <1>4, QuietAfterUpdate

\* Mage and Seeds that leave with a Withdrawal or a Convert.
LEMMA WithdrawnKeepsRain ==
    ASSUME SInv, ~clock.raining, NEW e, NEW y, SiloGood(clock, y, deposits, e),
           NEW c \in Accounts, NEW token \in Tokens, NEW amounts \in SUBSET (Nat \ {0}),
           NEW crates \in Crates(c, token, amounts), CanRemove(c, token, crates),
           NEW bdvs, bdvs = BdvsOf(c, token, crates), CanWithdraw(y, c, token, bdvs),
           NEW x, x = WithdrawSiloAssets(y, c, token, bdvs)
    PROVE  RainKept(y, {c}, x)
<1> DEFINE s == SeedsOf(token, bdvs)
           m == MageOf(token, bdvs)
           d == RemoveDeposits(c, token, crates)
           v == DecrementMage(y, clock, c, m)
<1>1. y \in Silos /\ clock \in Clocks
    BY SInvFacts DEF SiloGood, Balanced
<1>2. Leaves(d, c, token, crates, bdvs)
    BY CratesLeave
<1>3. s \in Nat /\ m \in Nat
    BY <1>2 DEF Leaves
<1>4. CanDecrementMage(y, clock, c, m) /\ CanDecrementSeeds(y, c, s)
      /\ x = DecrementSeeds(v, c, s)
    BY DEF CanWithdraw, WithdrawSiloAssets
<1> HIDE DEF s, m, d
<1>5. RainKept(y, {c}, v) /\ v.seeds = y.seeds /\ v.acct[c].seeds = y.acct[c].seeds
  <2>1. RainKept(y, {c}, v)
      BY <1>1, <1>3, <1>4, DecrementKeepsRain
  <2>2. /\ Moved(y, c, v, y.acct[c].mage - m, y.acct[c].seeds,
                 y.acct[c].roots - LostRoots(y, c, m), y.acct[c].lastUpdate)
        /\ Totals(v, y.mage - m, y.seeds, y.roots - LostRoots(y, c, m))
      BY <1>1, <1>3, <1>4, MageDown
  <2> QED
      BY <2>1, <2>2, Zenon DEF Moved, Totals
<1> HIDE DEF v
<1>6. v \in Silos /\ CanDecrementSeeds(v, c, s)
    BY <1>4, <1>5 DEF RainKept, CanDecrementSeeds
<1>7. RainKept(v, {c}, x)
    BY <1>3, <1>4, <1>6, SeedsDownKeepRain
<1> QED
    BY <1>5, <1>7, RainKeptTwice

\* withdrawDeposits, while it is dry.
LEMMA WithdrawIsQuiet ==
    ASSUME SInv, ~clock.raining, NEW c \in Accounts, NEW token \in Tokens,
           NEW crates \in Crates(c, token, WithdrawAmounts), WithdrawDeposits(c, token, crates)
    PROVE  Quiet
<1> DEFINE y == Updated(silo, clock, c)
           bdvs == BdvsOf(c, token, crates)
<1>1. /\ CanUpdate(silo, clock, c) /\ CanRemove(c, token, crates)
      /\ CanWithdraw(y, c, token, bdvs) /\ silo' = WithdrawSiloAssets(y, c, token, bdvs)
      /\ clock' = clock /\ threeCrv' = threeCrv
    BY Zenon DEF WithdrawDeposits
<1>2. WithdrawAmounts \in SUBSET (Nat \ {0})
    BY SiloAssumption
<1>3. /\ AccountsKept(clock, silo, y) /\ y.acct[c].lastUpdate = clock.current
      /\ SiloGood(clock, y, deposits, earnedMoons * MagePerMoon)
    BY <1>1, CallUpdated
<1> DEFINE e == earnedMoons * MagePerMoon
<1> HIDE DEF y, e
<1>4. SiloGood(clock, y, deposits, e)
    BY <1>3 DEF e
<1>5. RainKept(y, {c}, silo')
    BY <1>1, <1>2, <1>4, WithdrawnKeepsRain
<1> QED
    BY <1>1, <1>3, <1>5, QuietAfterUpdate

\* transferDeposits.
LEMMA TransferIsQuiet ==
    ASSUME SInv, NEW c \in Accounts, NEW from \in Accounts, NEW to \in Accounts,
           NEW token \in Tokens, NEW crates \in Crates(from, token, TransferAmounts),
           TransferDeposits(c, from, to, token, crates)
    PROVE  Quiet
<1> DEFINE one == Updated(silo, clock, from)
           y == Updated(one, clock, to)
           e == earnedMoons * MagePerMoon
           bdvs == BdvsOf(from, token, crates)
           left == RemoveDeposits(from, token, crates)
           s == SeedsOf(token, bdvs)
           m == MageOf(token, bdvs)
           x == TransferMage(y, from, to, m)
<1>1. /\ CanUpdate(silo, clock, from) /\ CanUpdate(one, clock, to)
      /\ CanRemove(from, token, crates)
      /\ CanTransferMage(y, from, m) /\ s <= y.acct[from].seeds
      /\ silo' = TransferSeeds(x, from, to, s)
      /\ clock' = clock /\ threeCrv' = threeCrv
    BY Zenon DEF TransferDeposits
<1>2. TransferAmounts \in SUBSET (Nat \ {0}) /\ e \in Nat
    BY SiloAssumption, SInvFacts
<1>3. /\ AccountsKept(clock, silo, one) /\ one.acct[from].lastUpdate = clock.current
      /\ SiloGood(clock, one, deposits, earnedMoons * MagePerMoon)
      /\ silo \in Silos /\ clock \in Clocks
    BY <1>1, CallUpdated
<1>4. SiloGood(clock, one, deposits, e)
    BY <1>3
<1> HIDE DEF one, e
<1>5. AccountsKept(clock, one, y) /\ y.acct[to].lastUpdate = clock.current
    BY <1>1, <1>4, CallRefreshes
<1>6. /\ SiloGood(clock, y, deposits, e) /\ y.acct[from].lastUpdate = clock.current
      /\ y \in Silos
    BY <1>1, <1>2, <1>3, <1>4, UpdateStep DEF OnlyOne
<1>7. AccountsKept(clock, silo, y)
    BY <1>3, <1>5, KeptTwiceOver
<1> HIDE DEF y, left
<1>8. s \in Nat /\ m \in Nat
  <2>1. left = RemoveDeposits(from, token, crates)
      BY DEF left
  <2>2. Leaves(left, from, token, crates, bdvs)
      BY <1>1, <1>2, <1>6, <2>1, CratesLeave
  <2> QED
      BY <2>2 DEF Leaves
<1> HIDE DEF bdvs, s, m
<1>9. RainKept(y, {from, to}, x)
    BY <1>1, <1>6, <1>8, TransferKeepsRain
<1>10. x \in Silos /\ s <= x.acct[from].seeds
  <2>1. PICK r \in Nat, sent \in Silos : SentMage(y, from, to, sent, x, m, r)
      BY <1>1, <1>6, <1>8, MageTransferred
  <2>2. sent.acct[from].seeds = y.acct[from].seeds
      BY <2>1 DEF SentMage, Moved
  <2>3. x.acct[from].seeds = sent.acct[from].seeds
      BY <2>1 DEF SentMage, Moved
  <2> QED
      BY <1>1, <1>9, <2>2, <2>3 DEF RainKept
<1> HIDE DEF x
<1>11. RainKept(x, {from, to}, silo')
    BY <1>1, <1>8, <1>10, SeedsSentKeepRain
<1>12. RainKept(y, {from, to}, silo')
    BY <1>9, <1>11, RainKeptTwice
<1>13. \A b \in {from, to} : y.acct[b].lastUpdate = clock.current
    BY <1>5, <1>6
<1>14. AccountsKept(clock, silo, silo')
    BY <1>3, <1>7, <1>12, <1>13, KeptAfterUpdate
<1> QED
    BY <1>1, <1>14 DEF Quiet

\* update.
LEMMA UpdateIsQuiet ==
    ASSUME SInv, NEW a \in Accounts, Update(a)
    PROVE  Quiet
<1>1. /\ silo' = Updated(silo, clock, a) /\ CanUpdate(silo, clock, a)
      /\ clock' = clock /\ threeCrv' = threeCrv
    BY DEF Update
<1>2. AccountsKept(clock, silo, silo')
    BY <1>1, CallUpdated
<1> QED
    BY <1>1, <1>2 DEF Quiet

\* plant.
LEMMA PlantIsQuiet ==
    ASSUME SInv, NEW c \in Accounts, Plant(c)
    PROVE  Quiet
<1> DEFINE y == Updated(silo, clock, c)
           n == EarnedMoons(y, earnedMoons, c)
           s == n * SeedsPerMoon
           x == IncrementSeeds(y, c, s)
<1>1. /\ CanUpdate(silo, clock, c) /\ silo' = PlantedMage(x, c, n)
      /\ clock' = clock /\ threeCrv' = threeCrv
    BY DEF Plant
<1>2. AccountsKept(clock, silo, y) /\ y.acct[c].lastUpdate = clock.current /\ y \in Silos
    BY <1>1, CallUpdated
<1>3. n \in Nat
    BY <1>2, SInvFacts, EarnedTypes
<1> HIDE DEF y, n
<1>4. s \in Nat
    BY <1>3, SiloAssumption
<1> HIDE DEF s
<1>5. RainKept(y, {c}, x)
    BY <1>2, <1>4, SeedsUpKeepRain
<1> HIDE DEF x
<1>6. RainKept(x, {c}, silo')
    BY <1>1, <1>3, <1>5, PlantedKeepsRain DEF RainKept
<1>7. RainKept(y, {c}, silo')
    BY <1>5, <1>6, RainKeptTwice
<1> QED
    BY <1>1, <1>2, <1>7, QuietAfterUpdate

\* enrootDeposits.
LEMMA EnrootIsQuiet ==
    ASSUME SInv, NEW c \in Accounts, NEW token \in UnripeTokens, NEW newBdv \in Bdvs,
           NEW crates \in Crates(c, token, EnrootAmounts),
           EnrootDeposits(c, token, crates, newBdv)
    PROVE  Quiet
<1> DEFINE y == Updated(silo, clock, c)
           e == earnedMoons * MagePerMoon
           bdvs == BdvsOf(c, token, crates)
           newBdvs == EnrootedBdvs(crates, newBdv)
           left == RemoveDeposits(c, token, crates)
           s1 == SeedsOf(token, bdvs)
           s2 == newBdv * TokenSeeds[token]
           m1 == MageOf(token, bdvs)
           m2 == MageOf(token, newBdvs)
           s == s2 - s1
           m == m2 - m1
<1>1. /\ s2 - s1 >= 0 /\ m2 - m1 >= 0
      /\ CanUpdate(silo, clock, c) /\ CanRemove(c, token, crates) /\ CanIncrementMage(y)
      /\ silo' = DepositSiloAssets(y, c, s, m)
      /\ clock' = clock /\ threeCrv' = threeCrv
    BY Zenon DEF EnrootDeposits
<1>2. /\ EnrootAmounts \in SUBSET (Nat \ {0}) /\ newBdv \in Nat /\ token \in Tokens
      /\ TokenSeeds[token] \in Nat /\ clock.current \in Nat /\ deposits \in AllDeposits
    BY SiloAssumption, SInvFacts
<1>3. /\ AccountsKept(clock, silo, y) /\ y.acct[c].lastUpdate = clock.current /\ y \in Silos
      /\ SiloGood(clock, y, deposits, earnedMoons * MagePerMoon)
    BY <1>1, CallUpdated
<1>4. SiloGood(clock, y, deposits, e)
    BY <1>3
<1> HIDE DEF y, e, left
<1>5. DOMAIN crates \in SUBSET Seasons /\ DOMAIN crates # {} /\ crates \in [DOMAIN crates -> Nat]
      /\ \A x \in DOMAIN crates : crates[x] > 0 /\ x <= clock.current
    BY <1>2, <1>4, DatedNow, CratesTypes
<1>6. s1 \in Nat /\ m1 \in Nat
  <2>1. left = RemoveDeposits(c, token, crates)
      BY DEF left
  <2>2. Leaves(left, c, token, crates, bdvs)
      BY <1>1, <1>2, <1>4, <2>1, CratesLeave
  <2> QED
      BY <2>2 DEF Leaves
<1> HIDE DEF bdvs
<1>7. newBdvs \in [DOMAIN crates -> Nat]
    BY <1>2, <1>5, EnrootedSum
<1> HIDE DEF newBdvs
<1>8. m2 \in Nat
  <2>1. DOMAIN newBdvs = DOMAIN crates
      BY <1>7
  <2>2. Early(newBdvs, clock.current)
      BY <1>2, <1>5, <2>1 DEF Early, Seasons
  <2>3. m2 = MageAt(token, newBdvs, clock.current)
      BY MageOfIs
  <2> QED
      BY <1>2, <1>5, <1>7, <2>2, <2>3, MageAtTypes
<1>9. s2 \in Nat
    BY <1>2
<1>10. s \in Nat /\ m \in Nat
  <2> HIDE DEF s1, s2, m1, m2
  <2> QED
      BY <1>1, <1>6, <1>8, <1>9
<1> HIDE DEF s, m
<1>11. RainKept(y, {c}, silo')
    BY <1>1, <1>3, <1>10, AssetsKeepRain
<1> QED
    BY <1>1, <1>3, <1>11, QuietAfterUpdate

\* The Deposit of a Convert has Seeds and Mage.
LEMMA ConvertedTypes ==
    ASSUME SInv, NEW token \in Tokens, NEW grown \in Nat, NEW bdv \in Nat,
           grown > 0 => bdv * TokenSeeds[token] > 0
    PROVE  /\ bdv * TokenSeeds[token] \in Nat
           /\ bdv * TokenMage[token] + SeasonsGrown(grown, bdv * TokenSeeds[token])
                                           * (bdv * TokenSeeds[token]) \in Nat
<1> DEFINE s == bdv * TokenSeeds[token]
<1>1. TokenSeeds[token] \in Nat /\ TokenMage[token] \in Nat
    BY SiloAssumption
<1>2. \A i, j \in Nat : i * j \in Nat /\ i + j \in Nat
    OBVIOUS
<1>3. s \in Nat /\ bdv * TokenMage[token] \in Nat
    BY <1>1, <1>2
<1> HIDE DEF s
<1>4. SeasonsGrown(grown, s) \in Nat
  <2>1. grown > 0 => s > 0
      BY DEF s
  <2> QED
      BY <1>3, <2>1, AgoTypes
<1>5. SeasonsGrown(grown, s) * s \in Nat
    BY <1>2, <1>3, <1>4
<1> QED
    BY <1>2, <1>3, <1>5 DEF s

\* convert, while it is dry.
LEMMA ConvertIsQuiet ==
    ASSUME SInv, ~clock.raining, NEW c \in Accounts, NEW from \in Tokens, NEW to \in Tokens,
           NEW toAmount \in ConvertAmounts, NEW newBdv \in Bdvs,
           NEW crates \in Crates(c, from, ConvertAmounts),
           Convert(c, from, to, crates, toAmount, newBdv)
    PROVE  Quiet
<1> DEFINE y == Updated(silo, clock, c)
           e == earnedMoons * MagePerMoon
           bdvs == BdvsOf(c, from, crates)
           left == RemoveDeposits(c, from, crates)
           grown == GrownOf(from, bdvs)
           toBdv == Greater(newBdv, Sum(bdvs))
           seeds == toBdv * TokenSeeds[to]
           mage == toBdv * TokenMage[to] + SeasonsGrown(grown, seeds) * seeds
           withdrawn == WithdrawSiloAssets(y, c, from, bdvs)
<1>1. /\ grown > 0 => seeds > 0
      /\ CanUpdate(silo, clock, c) /\ CanRemove(c, from, crates)
      /\ CanWithdraw(y, c, from, bdvs) /\ CanIncrementMage(withdrawn)
      /\ silo' = DepositSiloAssets(withdrawn, c, seeds, mage)
      /\ clock' = clock /\ threeCrv' = threeCrv
    BY Zenon DEF Convert
<1>2. /\ ConvertAmounts \in SUBSET (Nat \ {0}) /\ newBdv \in Nat /\ clock.current \in Nat
    BY SiloAssumption, SInvFacts
<1>3. /\ AccountsKept(clock, silo, y) /\ y.acct[c].lastUpdate = clock.current
      /\ SiloGood(clock, y, deposits, earnedMoons * MagePerMoon)
    BY <1>1, CallUpdated
<1>4. SiloGood(clock, y, deposits, e)
    BY <1>3
<1> HIDE DEF y, e, left
<1>5. RainKept(y, {c}, withdrawn)
    BY <1>1, <1>2, <1>4, WithdrawnKeepsRain
<1>6. Leaves(left, c, from, crates, bdvs)
  <2>1. left = RemoveDeposits(c, from, crates)
      BY DEF left
  <2> QED
      BY <1>1, <1>2, <1>4, <2>1, CratesLeave
<1> HIDE DEF bdvs, withdrawn
<1>7. grown \in Nat /\ toBdv \in Nat
  <2> DEFINE k == clock.current
  <2>1. grown = Sum(Growth(from, bdvs, k))
      BY MageOfIs
  <2>2. /\ DOMAIN crates \in SUBSET Seasons /\ bdvs \in [DOMAIN crates -> Nat]
        /\ Early(bdvs, k) /\ Sum(bdvs) \in Nat
      BY <1>6, Zenon DEF Leaves, Plus
  <2> HIDE DEF k, grown
  <2>3. k \in Nat
      BY <1>2 DEF k
  <2>4. Growth(from, bdvs, k) \in [DOMAIN crates -> Nat]
      BY <2>2, <2>3, GrowthTypes
  <2>5. toBdv \in Nat
      BY <1>2, <2>2 DEF Greater
  <2> QED
      BY <2>1, <2>2, <2>4, <2>5, SeasonsSum
<1> HIDE DEF grown, toBdv
<1>8. seeds \in Nat /\ mage \in Nat
    BY <1>1, <1>7, ConvertedTypes
<1> HIDE DEF seeds, mage
<1>9. RainKept(withdrawn, {c}, silo')
    BY <1>1, <1>5, <1>8, AssetsKeepRain DEF RainKept
<1>10. RainKept(y, {c}, silo')
    BY <1>5, <1>9, RainKeptTwice
<1> QED
    BY <1>1, <1>3, <1>10, QuietAfterUpdate

\* Calls that leave the silo alone.
LEMMA UnchangedIsQuiet ==
    ASSUME SInv, UNCHANGED <<clock, silo, threeCrv>>
    PROVE  Quiet
BY SInvFacts DEF Quiet, AccountsKept

\* Every call is one of these, where nobody withdraws or converts in the Rain.
LEMMA CallIsQuiet ==
    ASSUME SInv, ExitsWhenDry, NEW c \in Accounts, Call(c, Silent)
    PROVE  Quiet \/ ClaimPlenty(c)
<1>1. CASE DepositCall(c, Silent)
    BY <1>1, DepositIsQuiet DEF DepositCall
<1>2. CASE WithdrawCall(c, Silent)
  <2>1. ~clock.raining
      BY <1>2 DEF ExitsWhenDry
  <2> QED
      BY <1>2, <2>1, WithdrawIsQuiet DEF WithdrawCall
<1>3. CASE ClaimCall(c, Silent)
  <2>1. UNCHANGED <<clock, silo, threeCrv>>
      BY <1>3, Zenon DEF ClaimCall, ClaimWithdrawals
  <2> QED
      BY <2>1, UnchangedIsQuiet
<1>4. CASE TransferCall(c, Silent)
  <2>1. PICK token \in Tokens, other \in Accounts :
          \/ \E amount \in Allowances : ApproveDeposit(c, other, token, amount)
          \/ \E to \in Accounts : \E crates \in Crates(other, token, TransferAmounts) :
                TransferDeposits(c, other, to, token, crates)
      BY <1>4, Zenon DEF TransferCall
  <2>2. CASE \E amount \in Allowances : ApproveDeposit(c, other, token, amount)
    <3>1. UNCHANGED <<clock, silo, threeCrv>>
        BY <2>2 DEF ApproveDeposit
    <3> QED
        BY <3>1, UnchangedIsQuiet
  <2> QED
      BY <2>1, <2>2, TransferIsQuiet
<1>5. CASE RewardCall(c, Silent)
    BY <1>5, PlantIsQuiet, UpdateIsQuiet DEF RewardCall, PlantCall
<1>6. CASE EnrootCall(c, Silent)
    BY <1>6, EnrootIsQuiet DEF EnrootCall
<1>7. CASE ConvertCall(c, Silent)
  <2>1. ~clock.raining
      BY <1>7 DEF ExitsWhenDry
  <2>2. PICK from \in Tokens, to \in Tokens, toAmount \in ConvertAmounts, newBdv \in Bdvs :
          \E crates \in Crates(c, from, ConvertAmounts) :
              Convert(c, from, to, crates, toAmount, newBdv)
      BY <1>7, Zenon DEF ConvertCall
  <2> QED
      BY <2>1, <2>2, ConvertIsQuiet
<1> QED
    BY <1>1, <1>2, <1>3, <1>4, <1>5, <1>6, <1>7 DEF Call

(***************************************************************************)
(* What a sunrise does to one account                                      *)
(***************************************************************************)

\* Nothing but the Season is new, or the Rain has ended.
Ticked(k, l) ==
    /\ l.current = k.current + 1 /\ l.rainStart = k.rainStart /\ l.lastSop = k.lastSop
    /\ l.lastSopSeason = k.lastSopSeason /\ l.sops = k.sops /\ (l.raining => k.raining)

\* It has started to rain.
RainBegun(k, l) ==
    /\ l.current = k.current + 1 /\ l.rainStart = k.current + 1 /\ l.lastSop = k.lastSop
    /\ l.lastSopSeason = k.lastSopSeason
    /\ l.sops = [k.sops EXCEPT ![k.current + 1] = k.sops[k.rainStart]]

\* A Season of Plenty has been sold, for d units of each Root.
Sold(k, l, d) ==
    /\ k.raining /\ l.current = k.current + 1 /\ l.rainStart = k.rainStart
    /\ l.lastSop = k.rainStart /\ l.lastSopSeason = k.current + 1
    /\ l.sops = [k.sops EXCEPT ![k.rainStart] = AllPPR(k) + d]

\* The Seasons of a clock, and its sums.
LEMMA ClockTypes ==
    ASSUME NEW k \in Clocks
    PROVE  /\ k.current \in Nat /\ k.rainStart \in Nat /\ k.lastSop \in Nat
           /\ k.lastSopSeason \in Nat /\ k.sops \in [Seasons -> Nat] /\ AllPPR(k) \in Nat
           /\ k.current \in Seasons /\ k.rainStart \in Seasons /\ k.lastSop \in Seasons
<1>1. Seasons \subseteq Nat
    BY SiloAssumption DEF Seasons
<1>2. /\ k.current \in Seasons /\ k.rainStart \in Seasons /\ k.lastSop \in Seasons
      /\ k.lastSopSeason \in Seasons /\ k.sops \in [Seasons -> Nat]
    BY DEF Clocks
<1>3. AllPPR(k) \in Nat
    BY <1>2 DEF AllPPR
<1> QED
    BY <1>1, <1>2, <1>3

\* A Season that passes leaves an account as noted.
LEMMA TickKeeps ==
    ASSUME NEW k \in Clocks, NEW l \in Clocks, ClockSound(k), Ticked(k, l)
    PROVE  /\ ClockSound(l) /\ AllPPR(l) = AllPPR(k)
           /\ \A q \in AccountStates : \A sh, fr, pd, a, S :
                 Noted(q, k, sh, a, S) /\ Fairly(q, k, fr, pd, a, S)
                    => Noted(q, l, sh, a, S) /\ Fairly(q, l, fr, pd, a, S)
<1>1. k.current \in Nat /\ k.rainStart \in Nat /\ k.lastSop \in Nat /\ k.lastSopSeason \in Nat
    BY ClockTypes
<1>2. AllPPR(l) = AllPPR(k)
    BY DEF Ticked, AllPPR
<1>3. ClockSound(l)
    BY <1>1, <1>2 DEF ClockSound, Ticked
<1>4. ASSUME NEW q \in AccountStates, NEW sh, NEW fr, NEW pd, NEW a, NEW S,
             Noted(q, k, sh, a, S), Fairly(q, k, fr, pd, a, S)
      PROVE  Noted(q, l, sh, a, S) /\ Fairly(q, l, fr, pd, a, S)
  <2>1. q.lastUpdate \in Nat
      BY AccountTypes
  <2>2. PrevOf(q, l) = PrevOf(q, k)
      BY DEF PrevOf, Ticked
  <2>3. RainOf(q, l) = RainOf(q, k)
      BY <2>2 DEF RainOf, Ticked
  <2>4. LaterOf(q, l) = LaterOf(q, k)
      BY <1>2, <2>2, <2>3 DEF LaterOf, Ticked
  <2>5. Fairly(q, l, fr, pd, a, S)
      BY <1>4, <2>3, <2>4, Zenon DEF Fairly, Pending
  <2>6. Dates(q, l) /\ Settled(q, l)
      BY <1>4, <1>1, <1>2, <2>1, <2>2 DEF Noted, Dates, Settled, Ticked
  <2>7. SinceRain(q, l, sh, a, S)
      BY <1>4, <1>2, <2>2 DEF Noted, SinceRain, Ticked
  <2>8. BeforeRain(q, l, sh)
      BY <1>4, <1>2, <2>2 DEF Noted, BeforeRain, Ticked
  <2> QED
      BY <1>4, <2>5, <2>6, <2>7, <2>8 DEF Noted
<1> QED
    BY <1>2, <1>3, <1>4

\* When it starts to rain, the share of an account is its Roots.
LEMMA RainBegunKeeps ==
    ASSUME NEW k \in Clocks, NEW l \in Clocks, ClockSound(k), RainBegun(k, l)
    PROVE  /\ ClockSound(l) /\ AllPPR(l) = AllPPR(k)
           /\ \A q \in AccountStates : \A sh, fr, pd, a, S :
                 Noted(q, k, sh, a, S) /\ Fairly(q, k, fr, pd, a, S)
                    => Noted(q, l, q.roots, a, S) /\ Fairly(q, l, fr, pd, a, S)
<1> DEFINE c == k.current
           T == AllPPR(k)
<1>1. /\ c \in Nat /\ k.rainStart \in Nat /\ k.lastSop \in Nat /\ k.lastSopSeason \in Nat
      /\ k.sops \in [Seasons -> Nat] /\ k.lastSop \in Seasons /\ T \in Nat
    BY ClockTypes
<1>2. /\ k.lastSop <= k.rainStart /\ k.rainStart <= c
      /\ k.lastSop <= k.lastSopSeason /\ k.lastSopSeason <= c /\ k.sops[k.rainStart] = T
    BY DEF ClockSound
<1>3. /\ l.current = c + 1 /\ l.rainStart = c + 1 /\ l.lastSop = k.lastSop
      /\ l.lastSopSeason = k.lastSopSeason
      /\ l.sops = [k.sops EXCEPT ![c + 1] = T] /\ c + 1 \in Seasons
    BY <1>2 DEF RainBegun, Clocks
<1>4. \A s \in Seasons : s <= c => l.sops[s] = k.sops[s]
    BY <1>1, <1>3
<1>5. l.sops[c + 1] = T /\ AllPPR(l) = T
    BY <1>1, <1>2, <1>3 DEF AllPPR
<1>6. ClockSound(l)
  <2> HIDE DEF c, T
  <2> QED
      BY <1>1, <1>2, <1>3, <1>5 DEF ClockSound
<1>7. ASSUME NEW q \in AccountStates, NEW sh, NEW fr, NEW pd, NEW a, NEW S,
             Noted(q, k, sh, a, S), Fairly(q, k, fr, pd, a, S)
      PROVE  Noted(q, l, q.roots, a, S) /\ Fairly(q, l, fr, pd, a, S)
  <2> DEFINE u == q.lastUpdate
             D == k.sops[q.lastSop]
             E == k.sops[q.lastRain]
             P == PrevOf(q, k)
  <2>1. /\ u \in Nat /\ q.lastSop \in Nat /\ q.lastRain \in Nat /\ D \in Nat /\ E \in Nat
        /\ P \in Nat /\ q.lastSop \in Seasons /\ q.lastRain \in Seasons /\ q.roots \in Nat
      BY AccountTypes
  <2>2. u <= c /\ q.lastSop <= u /\ q.lastRain <= u
      BY <1>7 DEF Noted, Dates
  <2>3. l.sops[q.lastSop] = D /\ l.sops[q.lastRain] = E
      BY <1>1, <1>4, <2>1, <2>2
  <2>4. PrevOf(q, l) = P
      BY <2>3 DEF PrevOf
  <2>5. RainOf(q, l) = RainOf(q, k)
      BY <2>3, <2>4 DEF RainOf
  <2>6. LaterOf(q, l) = LaterOf(q, k)
      BY <1>3, <1>5, <2>4, <2>5 DEF LaterOf
  <2>7. Fairly(q, l, fr, pd, a, S)
      BY <1>7, <2>5, <2>6, Zenon DEF Fairly, Pending
  <2>8. k.lastSopSeason <= u => D = T /\ P = T
      BY <1>7 DEF Noted, Settled
  <2>9. u >= k.rainStart => /\ q.lastRain = 0 => D = T
                            /\ q.lastRain > 0 => E = T /\ P <= T
      BY <1>7, <1>2, <2>1 DEF Noted, SinceRain
  <2>10. u < k.rainStart =>
           /\ q.lastRain = 0 => D <= T /\ (k.lastSop <= u => D = T)
           /\ q.lastRain > 0 => P <= E /\ E <= T /\ (k.lastSop <= u => E = T)
                                /\ (P # E => u + 1 < k.rainStart)
      BY <1>7 DEF Noted, BeforeRain
  <2>11. Stays(q, q.roots, a, S)
      BY <1>7, <2>1 DEF Noted, Stays
  <2> HIDE DEF u, D, E, P, c, T
  <2>12. q.lastRain = 0 => D <= T /\ (k.lastSop <= u => D = T)
      BY <1>1, <2>1, <2>9, <2>10
  <2>13. q.lastRain > 0 => P <= E /\ E <= T /\ (k.lastSop <= u => E = T)
                           /\ (P # E => u < c)
      BY <1>1, <1>2, <2>1, <2>8, <2>9, <2>10
  <2>14. Dates(q, l)
      BY <1>1, <1>3, <2>1, <2>2 DEF Dates, u
  <2>15. Settled(q, l)
      BY <1>3, <1>5, <2>3, <2>4, <2>8 DEF Settled, u
  <2>16. SinceRain(q, l, q.roots, a, S)
      BY <1>1, <1>3, <2>1, <2>2 DEF SinceRain, u
  <2>17. BeforeRain(q, l, q.roots)
    <3>1. P # E /\ q.lastRain > 0 => u + 1 < c + 1
        BY <1>1, <2>1, <2>13
    <3> QED
        BY <1>3, <1>5, <2>3, <2>4, <2>12, <2>13, <3>1 DEF BeforeRain, u
  <2> QED
      BY <2>7, <2>11, <2>14, <2>15, <2>16, <2>17 DEF Noted
<1> QED
    BY <1>5, <1>6, <1>7

\* A Season of Plenty is noted, and each account gets d units for its share.
LEMMA SoldKeeps ==
    ASSUME NEW k \in Clocks, NEW l \in Clocks, NEW d \in Nat, ClockSound(k), Sold(k, l, d)
    PROVE  /\ ClockSound(l) /\ AllPPR(l) = AllPPR(k) + d
           /\ \A q \in AccountStates, sh \in Nat, fr \in Nat, pd \in Nat : \A a, S :
                 Noted(q, k, sh, a, S) /\ Fairly(q, k, fr, pd, a, S)
                    => Noted(q, l, sh, a, S) /\ Fairly(q, l, fr + d * sh, pd, a, S)
<1> DEFINE c == k.current
           R == k.rainStart
           T == AllPPR(k)
<1>1. /\ c \in Nat /\ R \in Nat /\ k.lastSop \in Nat /\ k.lastSopSeason \in Nat
      /\ k.sops \in [Seasons -> Nat] /\ R \in Seasons /\ T \in Nat
    BY ClockTypes
<1>2. k.lastSop <= R /\ R <= c /\ k.sops[R] = T /\ R > 0
    BY DEF ClockSound, Sold
<1>3. /\ k.raining /\ l.current = c + 1 /\ l.rainStart = R /\ l.lastSop = R
      /\ l.lastSopSeason = c + 1 /\ l.sops = [k.sops EXCEPT ![R] = T + d]
    BY DEF Sold
<1> HIDE DEF c, R, T
<1>4. \A s \in Seasons : s # R => l.sops[s] = k.sops[s]
    BY <1>1, <1>3
<1>5. l.sops[R] = T + d /\ AllPPR(l) = T + d
    BY <1>1, <1>3 DEF AllPPR
<1>6. ClockSound(l)
    BY <1>1, <1>2, <1>3, <1>5 DEF ClockSound
<1>7. ASSUME NEW q \in AccountStates, NEW sh \in Nat, NEW fr \in Nat, NEW pd \in Nat,
             NEW a, NEW S, Noted(q, k, sh, a, S), Fairly(q, k, fr, pd, a, S)
      PROVE  Noted(q, l, sh, a, S) /\ Fairly(q, l, fr + d * sh, pd, a, S)
  <2> DEFINE u == q.lastUpdate
             D == k.sops[q.lastSop]
             E == k.sops[q.lastRain]
             P == PrevOf(q, k)
  <2>1. /\ u \in Nat /\ q.lastSop \in Nat /\ q.lastRain \in Nat /\ D \in Nat /\ E \in Nat
        /\ P \in Nat /\ q.lastSop \in Seasons /\ q.lastRain \in Seasons
        /\ q.roots \in Nat /\ q.sopRoots \in Nat /\ q.plenty \in Nat
      BY AccountTypes
  <2>2. u <= c /\ q.lastSop <= u /\ q.lastRain <= u
      BY <1>7 DEF Noted, Dates, c
  <2>3. u >= R =>
          /\ q.lastRain \in {0, R}
          /\ q.lastRain = 0 => D = T /\ q.lastSop = R /\ (a \in S => sh = 0)
          /\ q.lastRain > 0 => q.sopRoots = sh /\ P <= T
      BY <1>3, <1>7 DEF Noted, SinceRain, R, T
  <2>4. u < R =>
          /\ sh = q.roots
          /\ q.lastRain = 0 => D <= T
          /\ q.lastRain > 0 => P <= E /\ E <= T /\ (P # E => u + 1 < R)
      BY <1>7 DEF Noted, BeforeRain, R, T
  <2>5. Owed(q, k)
      BY <1>7, OwedByAccount
  <2>6. Stays(q, sh, a, S)
      BY <1>7 DEF Noted
  <2> HIDE DEF u, D, E, P
  <2>7. Dates(q, l) /\ Settled(q, l)
      BY <1>1, <1>3, <2>1, <2>2 DEF Dates, Settled, u
  <2>8. u < R => l.sops[q.lastSop] = D /\ l.sops[q.lastRain] = E
      BY <1>1, <1>4, <2>1, <2>2 DEF D, E
  <2>9. (u < R) \/ (q.lastRain > 0 /\ (q.lastSop = q.lastRain \/ q.lastSop # R))
          => PrevOf(q, l) = P
      BY <1>1, <1>4, <2>1, <2>2 DEF PrevOf, P
  <2>10. u >= R /\ q.lastRain > 0 => PrevOf(q, l) = P
      BY <2>3, <2>9
  <2>11. SinceRain(q, l, sh, a, S)
    <3>1. u >= R /\ q.lastRain = 0 => l.sops[q.lastSop] = T + d
        BY <1>5, <2>3
    <3>2. u >= R /\ q.lastRain > 0 => PrevOf(q, l) <= T + d
        BY <1>1, <2>1, <2>3, <2>10
    <3> QED
        BY <1>3, <1>5, <2>3, <3>1, <3>2 DEF SinceRain, u
  <2>12. BeforeRain(q, l, sh)
    <3>1. u < R => /\ q.lastRain = 0 => D <= T + d
                   /\ q.lastRain > 0 => E <= T + d
                   /\ ~(R <= u)
        BY <1>1, <2>1, <2>4
    <3>2. u < R => l.sops[q.lastSop] = D /\ l.sops[q.lastRain] = E /\ PrevOf(q, l) = P
        BY <2>8, <2>9
    <3>3. q.lastUpdate = u /\ l.rainStart = R /\ l.lastSop = R /\ AllPPR(l) = T + d
        BY <1>3, <1>5 DEF u
    <3> DEFINE X == T + d
    <3>4. u < R => /\ q.lastRain = 0 => D <= X
                   /\ q.lastRain > 0 => E <= X
                   /\ ~(R <= u)
        BY <3>1
    <3>5. AllPPR(l) = X
        BY <3>3
    <3> HIDE DEF X
    <3> QED
        BY <2>4, <3>2, <3>3, <3>4, <3>5, Zenon DEF BeforeRain
  <2>13. Noted(q, l, sh, a, S)
      BY <2>6, <2>7, <2>11, <2>12 DEF Noted
  <2> DEFINE x == SopPrecision * (pd + q.plenty)
             v == (SopPrecision - 1) * u
             p == Pending(q, k)
             e == d * sh
  <2>14. \A i, j, n \in Nat : i * j \in Nat /\ (i + n) * j = i * j + n * j /\ 0 * j = 0 /\ j * 0 = 0
      OBVIOUS
  <2>15. x \in Nat /\ v \in Nat /\ e \in Nat /\ p \in Nat
    <3>1. pd + q.plenty \in Nat /\ SopPrecision \in Nat /\ SopPrecision - 1 \in Nat
        BY <2>1, SiloAssumption
    <3>2. RainOf(q, k) \in Nat /\ LaterOf(q, k) \in Nat
        BY <2>5 DEF Owed
    <3>3. RainOf(q, k) * q.sopRoots \in Nat /\ LaterOf(q, k) * q.roots \in Nat
        BY <2>1, <2>14, <3>2
    <3> QED
        BY <2>1, <2>14, <3>1, <3>3 DEF Pending
  <2>16. x + p <= fr /\ (a \in S => fr <= x + p + v)
      BY <1>7 DEF Fairly, u
  <2>17. CASE u < R
    <3>1. RainOf(q, l) = RainOf(q, k)
      <4>1. l.sops[q.lastRain] = k.sops[q.lastRain] /\ PrevOf(q, l) = PrevOf(q, k)
          BY <2>8, <2>9, <2>17 DEF E, P
      <4> QED
          BY <4>1, Zenon DEF RainOf
    <3>2. P + RainOf(q, k) + LaterOf(q, k) = T /\ RainOf(q, k) \in Nat /\ LaterOf(q, k) \in Nat
        BY <2>5, <2>17 DEF Owed, P, T, u, R
    <3>3. LaterOf(q, l) = (T + d) - P - RainOf(q, k)
      <4>1. AllPPR(l) = T + d /\ PrevOf(q, l) = P
          BY <1>5, <2>9, <2>17
      <4>2. l.lastSop > q.lastUpdate
          BY <1>1, <1>3, <2>1, <2>17 DEF u
      <4>3. LaterOf(q, l) = AllPPR(l) - PrevOf(q, l) - RainOf(q, l)
          BY <4>2 DEF LaterOf
      <4> QED
          BY <3>1, <4>1, <4>3
    <3>4. LaterOf(q, l) = LaterOf(q, k) + d
        BY <1>1, <2>1, <3>2, <3>3
    <3>5. LaterOf(q, l) * q.roots = LaterOf(q, k) * q.roots + e
        BY <2>1, <2>4, <2>14, <2>17, <3>2, <3>4
    <3>6. RainOf(q, k) * q.sopRoots \in Nat /\ LaterOf(q, k) * q.roots \in Nat
        BY <2>1, <2>14, <3>2
    <3> DEFINE g == RainOf(q, k) * q.sopRoots
               h == LaterOf(q, k) * q.roots
    <3>7. Pending(q, l) = g + (h + e) /\ p = g + h /\ g \in Nat /\ h \in Nat
        BY <3>1, <3>5, <3>6 DEF Pending
    <3> HIDE DEF g, h, x, v, e, p
    <3>8. Pending(q, l) = p + e
        BY <2>15, <3>7
    <3>9. x + Pending(q, l) <= fr + e /\ (a \in S => fr + e <= x + Pending(q, l) + v)
        BY <2>15, <2>16, <3>8
    <3> QED
        BY <2>13, <3>9 DEF Fairly, x, v, e, u
  <2>18. CASE u >= R /\ q.lastRain > 0
    <3>1. LaterOf(q, k) = 0 /\ RainOf(q, k) \in Nat /\ RainOf(q, k) + P = T
        BY <1>1, <2>1, <2>5, <2>18 DEF Owed, P, T, u, R
    <3>2. LaterOf(q, l) = 0
        BY <1>1, <1>3, <2>1, <2>18 DEF LaterOf, u
    <3>3. q.lastRain = R /\ q.sopRoots = sh /\ P <= T
        BY <2>3, <2>18
    <3>4. RainOf(q, l) = (T + d) - P
      <4>1. l.sops[q.lastRain] = T + d /\ PrevOf(q, l) = P
          BY <1>5, <2>10, <2>18, <3>3
      <4>2. RainOf(q, l) = Greater((T + d) - P, 0)
        <5>1. RainOf(q, l) = Greater(l.sops[q.lastRain] - PrevOf(q, l), 0)
            BY <2>18 DEF RainOf
        <5> QED
            BY <4>1, <5>1
      <4> QED
          BY <1>1, <2>1, <3>3, <4>2 DEF Greater
    <3>5. RainOf(q, l) = RainOf(q, k) + d
        BY <1>1, <2>1, <3>1, <3>4
    <3>6. RainOf(q, l) * q.sopRoots = RainOf(q, k) * q.sopRoots + e
        BY <2>14, <3>1, <3>3, <3>5
    <3>7. 0 * q.roots = 0 /\ RainOf(q, k) * q.sopRoots \in Nat
        BY <2>1, <2>14, <3>1
    <3> DEFINE g == RainOf(q, k) * q.sopRoots
    <3>8. Pending(q, l) = (g + e) + 0 /\ p = g + 0 /\ g \in Nat
        BY <3>1, <3>2, <3>6, <3>7 DEF Pending
    <3> HIDE DEF g, x, v, e, p
    <3>9. Pending(q, l) = p + e
        BY <2>15, <3>8
    <3>10. x + Pending(q, l) <= fr + e /\ (a \in S => fr + e <= x + Pending(q, l) + v)
        BY <2>15, <2>16, <3>9
    <3> QED
        BY <2>13, <3>10 DEF Fairly, x, v, e, u
  <2>19. CASE u >= R /\ ~(q.lastRain > 0)
    <3>1. q.lastRain = 0
        BY <2>1, <2>19
    <3>2. LaterOf(q, k) = 0 /\ RainOf(q, k) = 0
        BY <1>1, <2>1, <2>5, <2>19, <3>1 DEF Owed, u, R
    <3>3. LaterOf(q, l) = 0 /\ RainOf(q, l) = 0
        BY <1>1, <1>3, <2>1, <2>19 DEF LaterOf, RainOf, u
    <3>4. Pending(q, l) = p
        BY <3>2, <3>3 DEF Pending
    <3>5. a \in S => e = 0
        BY <2>3, <2>14, <2>19, <3>1
    <3> HIDE DEF x, v, e, p
    <3>6. x + Pending(q, l) <= fr + e /\ (a \in S => fr + e <= x + Pending(q, l) + v)
        BY <2>15, <2>16, <3>4, <3>5
    <3> QED
        BY <2>13, <3>6 DEF Fairly, x, v, e, u
  <2> QED
      BY <1>1, <2>1, <2>17, <2>18, <2>19
<1> QED
    BY <1>5, <1>6, <1>7 DEF T

(***************************************************************************)
(* The invariant of all accounts, and its sums                             *)
(***************************************************************************)
PlentyTypes ==
    /\ share \in [Accounts -> Nat] /\ fair \in [Accounts -> Nat] /\ paid \in [Accounts -> Nat]
    /\ stayed \in SUBSET Accounts

AllNoted == \A a \in Accounts : Noted(silo.acct[a], clock, share[a], a, stayed)

AllFair == \A a \in Accounts : Fairly(silo.acct[a], clock, fair[a], paid[a], a, stayed)

\* The shares are the Roots of the Rain, and what is sold pays for all that
\* is fair.
SharesCovered ==
    /\ clock.raining => Sum(share) = silo.rainRoots
    /\ Sum(fair) <= SopPrecision * (threeCrv + Sum(paid))

PInv ==
    /\ SInv /\ PlentyTypes /\ ClockSound(clock)
    /\ AllNoted /\ AllFair /\ SharesCovered

\* The clock that a sunrise sets.
LEMMA SunriseClock ==
    ASSUME SInv, ClockSound(clock), NEW rainy \in BOOLEAN, NEW amount \in Nat,
           clock.current + 1 \in Seasons,
           amount > 0 => rainy /\ clock.raining /\ silo.rainRoots > 0,
           clock' = Weather(rainy, [clock EXCEPT !.current = @ + 1], amount)
    PROVE  /\ clock' \in Clocks
           /\ \/ Ticked(clock, clock') /\ amount = 0 /\ RainRoots(rainy).rainRoots = silo.rainRoots
              \/ Ticked(clock, clock') /\ amount = 0 /\ ~clock'.raining
              \/ /\ RainBegun(clock, clock') /\ amount = 0
                 /\ RainRoots(rainy).rainRoots = silo.roots
              \/ /\ Sold(clock, clock', (amount * SopPrecision) \div silo.rainRoots)
                 /\ amount > 0 /\ RainRoots(rainy).rainRoots = silo.rainRoots
<1> DEFINE k == [clock EXCEPT !.current = @ + 1]
<1>1. /\ clock \in Clocks /\ silo \in Silos /\ clock.current \in Nat
      /\ clock.rainStart \in Seasons /\ clock.lastSop \in Seasons
      /\ clock.sops \in [Seasons -> Nat]
    BY SInvFacts, ClockTypes
<1>2. /\ k \in Clocks /\ k.current = clock.current + 1 /\ k.rainStart = clock.rainStart
      /\ k.lastSop = clock.lastSop /\ k.lastSopSeason = clock.lastSopSeason
      /\ k.sops = clock.sops /\ k.raining = clock.raining
    BY <1>1 DEF Clocks
<1> HIDE DEF k
<1>3. clock' = Weather(rainy, k, amount)
    BY DEF k
<1>4. clock' \in Clocks
    BY <1>2, <1>3, WeatherTypes
<1>5. CASE ~rainy
  <2>1. clock' = [k EXCEPT !.raining = FALSE]
      BY <1>3, <1>5 DEF Weather
  <2>2. Ticked(clock, clock') /\ ~clock'.raining
      BY <1>2, <2>1 DEF Ticked, Clocks
  <2>3. amount = 0
      BY <1>5
  <2> QED
      BY <1>4, <2>2, <2>3, Zenon
<1>6. CASE rainy /\ ~clock.raining
  <2>1. clock' = RainStarts(k)
      BY <1>2, <1>3, <1>6 DEF Weather
  <2>2. RainBegun(clock, clock')
      BY <1>1, <1>2, <2>1 DEF RainBegun, RainStarts, Clocks
  <2>3. RainRoots(rainy).rainRoots = silo.roots
      BY <1>1, <1>6 DEF RainRoots, Silos
  <2>4. amount = 0
      BY <1>6
  <2> QED
      BY <1>4, <2>2, <2>3, <2>4, Zenon
<1>7. CASE rainy /\ clock.raining /\ amount > 0
  <2> DEFINE d == (amount * SopPrecision) \div silo.rainRoots
  <2>1. clock' = RewardSop(k, silo.rainRoots, amount)
      BY <1>2, <1>3, <1>7 DEF Weather
  <2>2. clock' = [k EXCEPT !.sops[k.rainStart] = k.sops[k.lastSop] + d,
                           !.lastSop = k.rainStart, !.lastSopSeason = k.current]
      BY <2>1 DEF RewardSop
  <2> HIDE DEF d
  <2>3. Sold(clock, clock', d)
      BY <1>1, <1>2, <1>7, <2>2 DEF Sold, Clocks, AllPPR
  <2>4. RainRoots(rainy).rainRoots = silo.rainRoots
      BY <1>7 DEF RainRoots
  <2> QED
      BY <1>4, <1>7, <2>3, <2>4 DEF d
<1>8. CASE rainy /\ clock.raining /\ ~(amount > 0)
  <2>1. clock' = k
      BY <1>2, <1>3, <1>8 DEF Weather
  <2>2. Ticked(clock, clock')
      BY <1>2, <2>1 DEF Ticked
  <2>3. RainRoots(rainy).rainRoots = silo.rainRoots
      BY <1>8 DEF RainRoots
  <2>4. amount = 0
      BY <1>8
  <2> QED
      BY <1>4, <2>2, <2>3, <2>4, Zenon
<1> QED
    BY <1>5, <1>6, <1>7, <1>8

\* What accounts are to get is covered by what is paid for it.
LEMMA ShareOfSale ==
    ASSUME NEW amount \in Nat, NEW roots \in Nat \ {0}, NEW d,
           d = (amount * SopPrecision) \div roots
    PROVE  d \in Nat /\ d * roots <= SopPrecision * amount
<1>1. SopPrecision \in Nat
    BY SiloAssumption
<1> DEFINE p == amount * SopPrecision
<1>2. p \in Nat /\ p = SopPrecision * amount
    BY <1>1
<1> HIDE DEF p
<1>3. d \in Nat /\ roots * d <= p
    BY <1>2, DivBounds DEF p
<1>4. roots * d = d * roots
    BY <1>3
<1> QED
    BY <1>2, <1>3, <1>4

\* Every account gets d for each unit of its share.
LEMMA FairSum ==
    ASSUME NEW f \in [Accounts -> Nat], NEW sh \in [Accounts -> Nat], NEW d \in Nat
    PROVE  /\ [a \in Accounts |-> f[a] + d * sh[a]] \in [Accounts -> Nat]
           /\ Sum([a \in Accounts |-> f[a] + d * sh[a]]) = Sum(f) + d * Sum(sh)
           /\ Sum(f) \in Nat /\ Sum(sh) \in Nat /\ d * Sum(sh) \in Nat
<1> DEFINE g == [a \in Accounts |-> d * sh[a]]
<1>1. IsFiniteSet(Accounts)
    BY SiloAssumption
<1>2. \A i, j \in Nat : i * j \in Nat /\ i + j \in Nat
    OBVIOUS
<1>3. g \in [Accounts -> Nat]
    BY <1>2
<1>4. Sum(g) = d * Sum(sh)
    BY <1>1, SumScale
<1>5. [a \in Accounts |-> f[a] + d * sh[a]] = [a \in Accounts |-> f[a] + g[a]]
    OBVIOUS
<1>6. Sum(f) \in Nat /\ Sum(sh) \in Nat
    BY <1>1, SumType
<1>7. [a \in Accounts |-> f[a] + d * sh[a]] \in [Accounts -> Nat]
    BY <1>2
<1> HIDE DEF g
<1>8. Sum([a \in Accounts |-> f[a] + g[a]]) = Sum(f) + Sum(g)
    BY <1>1, <1>3, SumPlus
<1> QED
    BY <1>2, <1>4, <1>5, <1>6, <1>7, <1>8

\* A sunrise keeps the invariant.
LEMMA FairSeasonKeepsPInv ==
    ASSUME PInv, FairSeason
    PROVE  PInv'
<1>1. PICK rainy \in Weathers, amount \in SopAmounts, mint \in SiloMints :
          Sunrise(rainy, amount, mint)
    BY Zenon DEF FairSeason, Season
<1>2. /\ SInv /\ PlentyTypes /\ ClockSound(clock) /\ AllNoted /\ AllFair /\ SharesCovered
      /\ clock \in Clocks /\ silo \in Silos
    BY SInvFacts DEF PInv
<1>3. /\ [clock EXCEPT !.current = @ + 1].current \in Seasons
      /\ amount > 0 => rainy /\ clock.raining /\ silo.rainRoots > 0
      /\ clock' = Weather(rainy, [clock EXCEPT !.current = @ + 1], amount)
      /\ threeCrv' = threeCrv + amount
      /\ silo' = RewardToSilo(RainRoots(rainy), mint)
    BY <1>1, Zenon DEF Sunrise
<1>4. rainy \in BOOLEAN /\ amount \in Nat /\ mint \in Nat /\ threeCrv \in Nat
    BY <1>2, SiloAssumption DEF SInv
<1>5. [clock EXCEPT !.current = @ + 1].current = clock.current + 1
    BY <1>2 DEF Clocks
<1>6. SInv'
    BY <1>1, <1>2, SunriseKeepsSInv
<1>7. silo'.acct = silo.acct /\ silo'.rainRoots = RainRoots(rainy).rainRoots
    BY <1>2, <1>3 DEF RewardToSilo, RainRoots, Silos
<1>8. /\ share' = IF clock'.rainStart # clock.rainStart
                  THEN [a \in Accounts |-> silo.acct[a].roots] ELSE share
      /\ fair' = [a \in Accounts |-> fair[a] + (AllPPR(clock') - AllPPR(clock)) * share[a]]
      /\ paid' = paid /\ stayed' = stayed
    BY DEF FairSeason, PerRoot, AllPPR
<1>9. /\ share \in [Accounts -> Nat] /\ fair \in [Accounts -> Nat]
      /\ paid \in [Accounts -> Nat] /\ stayed \in SUBSET Accounts
    BY <1>2 DEF PlentyTypes
<1>10. ASSUME NEW a \in Accounts
       PROVE  /\ silo.acct[a] \in AccountStates /\ silo'.acct[a] = silo.acct[a]
              /\ share[a] \in Nat /\ fair[a] \in Nat /\ paid[a] \in Nat
              /\ Noted(silo.acct[a], clock, share[a], a, stayed)
              /\ Fairly(silo.acct[a], clock, fair[a], paid[a], a, stayed)
    BY <1>2, <1>7, <1>9, SilosHaveTypes DEF AllNoted, AllFair
<1>11. /\ Sum(fair) \in Nat /\ Sum(share) \in Nat /\ Sum(paid) \in Nat
       /\ Sum(fair) <= SopPrecision * (threeCrv + Sum(paid)) /\ SopPrecision \in Nat
       /\ clock.raining => Sum(share) = silo.rainRoots
  <2>1. IsFiniteSet(Accounts) /\ SopPrecision \in Nat
      BY SiloAssumption
  <2> QED
      BY <1>2, <1>9, <2>1, SumType DEF SharesCovered
<1>12. clock' \in Clocks
  <2> QED
      BY <1>2, <1>3, <1>4, <1>5, SunriseClock
<1>13. CASE Ticked(clock, clock') /\ amount = 0
            /\ (RainRoots(rainy).rainRoots = silo.rainRoots \/ ~clock'.raining)
  <2>1. ClockSound(clock') /\ AllPPR(clock') = AllPPR(clock)
      BY <1>2, <1>12, <1>13, TickKeeps
  <2>2. share' = share
      BY <1>8, <1>13 DEF Ticked
  <2>3. fair' = fair
    <3>1. AllPPR(clock') - AllPPR(clock) = 0
        BY <1>2, <2>1, ClockTypes
    <3> DEFINE d == AllPPR(clock') - AllPPR(clock)
    <3>2. fair' = [a \in Accounts |-> fair[a] + d * share[a]] /\ d = 0
        BY <1>8, <3>1
    <3> HIDE DEF d
    <3>3. \A a \in Accounts : fair[a] + d * share[a] = fair[a]
        BY <1>9, <3>2
    <3> QED
        BY <1>9, <3>2, <3>3
  <2>4. AllNoted' /\ AllFair'
    <3>1. ASSUME NEW a \in Accounts
          PROVE  /\ Noted(silo'.acct[a], clock', share'[a], a, stayed')
                 /\ Fairly(silo'.acct[a], clock', fair'[a], paid'[a], a, stayed')
        BY <1>2, <1>8, <1>10, <1>12, <1>13, <2>2, <2>3, TickKeeps
    <3> QED
        BY <3>1 DEF AllNoted, AllFair
  <2>5. SharesCovered'
    <3>1. clock'.raining => Sum(share') = silo'.rainRoots
        BY <1>7, <1>11, <1>13, <2>2 DEF Ticked
    <3>2. threeCrv' = threeCrv
        BY <1>3, <1>4, <1>13
    <3> QED
        BY <1>8, <1>11, <2>3, <3>1, <3>2 DEF SharesCovered
  <2>6. PlentyTypes'
      BY <1>8, <1>9, <2>2, <2>3 DEF PlentyTypes
  <2> QED
      BY <1>6, <2>1, <2>4, <2>5, <2>6 DEF PInv
<1>14. CASE RainBegun(clock, clock') /\ amount = 0 /\ RainRoots(rainy).rainRoots = silo.roots
  <2>1. ClockSound(clock') /\ AllPPR(clock') = AllPPR(clock)
      BY <1>2, <1>12, <1>14, RainBegunKeeps
  <2>2. share' = [a \in Accounts |-> silo.acct[a].roots]
    <3>1. clock'.rainStart = clock.current + 1 /\ clock.rainStart <= clock.current
          /\ clock.current \in Nat /\ clock.rainStart \in Nat
        BY <1>2, <1>14, ClockTypes DEF RainBegun, ClockSound
    <3>2. clock'.rainStart # clock.rainStart
        BY <3>1
    <3> QED
        BY <1>8, <3>2
  <2>3. fair' = fair
    <3>1. AllPPR(clock') - AllPPR(clock) = 0
        BY <1>2, <2>1, ClockTypes
    <3> DEFINE d == AllPPR(clock') - AllPPR(clock)
    <3>2. fair' = [a \in Accounts |-> fair[a] + d * share[a]] /\ d = 0
        BY <1>8, <3>1
    <3> HIDE DEF d
    <3>3. \A a \in Accounts : fair[a] + d * share[a] = fair[a]
        BY <1>9, <3>2
    <3> QED
        BY <1>9, <3>2, <3>3
  <2>4. AllNoted' /\ AllFair'
    <3>1. ASSUME NEW a \in Accounts
          PROVE  /\ Noted(silo'.acct[a], clock', share'[a], a, stayed')
                 /\ Fairly(silo'.acct[a], clock', fair'[a], paid'[a], a, stayed')
        BY <1>2, <1>8, <1>10, <1>12, <1>14, <2>2, <2>3, RainBegunKeeps
    <3> QED
        BY <3>1 DEF AllNoted, AllFair
  <2>5. SharesCovered'
    <3>1. Sum(share') = silo'.rainRoots
        BY <1>2, <1>7, <1>14, <2>2 DEF SInv, SiloGood, Balanced, RootsIn
    <3>2. threeCrv' = threeCrv
        BY <1>3, <1>4, <1>14
    <3> QED
        BY <1>8, <1>11, <2>3, <3>1, <3>2 DEF SharesCovered
  <2>6. PlentyTypes'
    <3>1. share' \in [Accounts -> Nat]
        BY <1>10, <2>2, AccountTypes, <1>2
    <3> QED
        BY <1>8, <1>9, <2>3, <3>1 DEF PlentyTypes
  <2> QED
      BY <1>6, <2>1, <2>4, <2>5, <2>6 DEF PInv
<1>15. CASE /\ Sold(clock, clock', (amount * SopPrecision) \div silo.rainRoots)
            /\ amount > 0 /\ RainRoots(rainy).rainRoots = silo.rainRoots
  <2> DEFINE d == (amount * SopPrecision) \div silo.rainRoots
  <2>1. silo.rainRoots \in Nat \ {0} /\ clock.raining
      BY <1>2, <1>3, <1>15, SilosHaveTypes
  <2>2. d \in Nat /\ d * silo.rainRoots <= SopPrecision * amount
      BY <1>4, <2>1, ShareOfSale
  <2>3. Sold(clock, clock', d)
      BY <1>15
  <2> HIDE DEF d
  <2>4. ClockSound(clock') /\ AllPPR(clock') = AllPPR(clock) + d
      BY <1>2, <1>12, <2>2, <2>3, SoldKeeps
  <2>5. share' = share
      BY <1>8, <2>3 DEF Sold
  <2>6. fair' = [a \in Accounts |-> fair[a] + d * share[a]]
    <3>1. AllPPR(clock') - AllPPR(clock) = d
        BY <1>2, <2>2, <2>4, ClockTypes
    <3> QED
        BY <1>8, <3>1
  <2>7. AllNoted' /\ AllFair'
    <3>1. ASSUME NEW a \in Accounts
          PROVE  /\ Noted(silo'.acct[a], clock', share'[a], a, stayed')
                 /\ Fairly(silo'.acct[a], clock', fair'[a], paid'[a], a, stayed')
      <4>1. fair'[a] = fair[a] + d * share[a]
          BY <2>6
      <4>2. /\ Noted(silo.acct[a], clock', share[a], a, stayed)
            /\ Fairly(silo.acct[a], clock', fair[a] + d * share[a], paid[a], a, stayed)
          BY <1>2, <1>10, <1>12, <2>2, <2>3, SoldKeeps
      <4> QED
          BY <1>8, <1>10, <2>5, <4>1, <4>2
    <3> QED
        BY <3>1 DEF AllNoted, AllFair
  <2>8. /\ fair' \in [Accounts -> Nat] /\ Sum(fair') = Sum(fair) + d * silo.rainRoots
        /\ d * silo.rainRoots \in Nat
      BY <1>9, <1>11, <2>1, <2>2, <2>6, FairSum
  <2>9. SharesCovered'
    <3>1. clock'.raining => Sum(share') = silo'.rainRoots
        BY <1>7, <1>11, <1>15, <2>1, <2>5
    <3> DEFINE x == SopPrecision * (threeCrv + Sum(paid))
               y == SopPrecision * amount
               z == d * silo.rainRoots
    <3>2. x \in Nat /\ y \in Nat /\ SopPrecision * (threeCrv' + Sum(paid')) = x + y
      <4>1. \A i, m, n \in Nat : /\ i * m \in Nat /\ i * n \in Nat
                                 /\ i * (m + n) = i * m + i * n
          OBVIOUS
      <4>2. threeCrv' + Sum(paid') = (threeCrv + Sum(paid)) + amount
            /\ threeCrv + Sum(paid) \in Nat
          BY <1>3, <1>4, <1>8, <1>11
      <4> QED
          BY <1>4, <1>11, <4>1, <4>2
    <3>3. Sum(fair') = Sum(fair) + z /\ z \in Nat /\ z <= y /\ Sum(fair) <= x
        BY <1>11, <2>2, <2>8
    <3> HIDE DEF x, y, z
    <3>4. Sum(fair') <= x + y
        BY <1>11, <3>2, <3>3
    <3> QED
        BY <3>1, <3>2, <3>4 DEF SharesCovered
  <2>10. PlentyTypes'
      BY <1>8, <1>9, <2>5, <2>8 DEF PlentyTypes
  <2> QED
      BY <1>6, <2>4, <2>7, <2>9, <2>10 DEF PInv
<1> QED
  <2>1. clock.current + 1 \in Seasons
      BY <1>3, <1>5
  <2> QED
      BY <1>2, <1>3, <1>4, <1>13, <1>14, <1>15, <2>1, SunriseClock

\* An account that claims its Plenty has been paid it.
LEMMA ClaimKeeps ==
    ASSUME NEW k \in Clocks, NEW q \in AccountStates, NEW w, w = [q EXCEPT !.plenty = 0],
           NEW sh, NEW fr, NEW pd \in Nat, NEW a, NEW S,
           Noted(q, k, sh, a, S), Fairly(q, k, fr, pd, a, S)
    PROVE  /\ w \in AccountStates /\ Noted(w, k, sh, a, S)
           /\ Fairly(w, k, fr, pd + q.plenty, a, S)
<1>1. /\ w \in AccountStates /\ w.plenty = 0
      /\ w.roots = q.roots /\ w.lastUpdate = q.lastUpdate /\ w.lastSop = q.lastSop
      /\ w.lastRain = q.lastRain /\ w.sopRoots = q.sopRoots
      /\ w.plentyPerRoot = q.plentyPerRoot
    BY DEF AccountStates
<1>2. PrevOf(w, k) = PrevOf(q, k)
    BY <1>1 DEF PrevOf
<1>3. RainOf(w, k) = RainOf(q, k) /\ LaterOf(w, k) = LaterOf(q, k)
    BY <1>1, <1>2 DEF RainOf, LaterOf
<1>4. Pending(w, k) = Pending(q, k)
    BY <1>1, <1>3 DEF Pending
<1>5. (pd + q.plenty) + w.plenty = pd + q.plenty
    BY <1>1, AccountTypes
<1>6. Fairly(w, k, fr, pd + q.plenty, a, S)
    BY <1>1, <1>4, <1>5, Zenon DEF Fairly
<1>7. Dates(w, k) /\ Settled(w, k)
    BY <1>1, <1>2 DEF Noted, Dates, Settled
<1>8. SinceRain(w, k, sh, a, S) /\ BeforeRain(w, k, sh) /\ Stays(w, sh, a, S)
    BY <1>1, <1>2, Zenon DEF Noted, SinceRain, BeforeRain, Stays
<1> QED
    BY <1>1, <1>6, <1>7, <1>8 DEF Noted

\* A call keeps the invariant.
LEMMA FairCallKeepsPInv ==
    ASSUME PInv, ExitsWhenDry, NEW c \in Accounts, FairCall(c)
    PROVE  PInv'
<1>1. /\ SInv /\ PlentyTypes /\ ClockSound(clock) /\ AllNoted /\ AllFair /\ SharesCovered
      /\ clock \in Clocks /\ silo \in Silos /\ threeCrv \in Nat
    BY SInvFacts DEF PInv, SInv
<1>2. /\ Call(c, Silent) /\ share' = share /\ fair' = fair
      /\ paid' = [paid EXCEPT ![c] = @ + threeCrv - threeCrv']
      /\ stayed' = {a \in stayed : share[a] = 0 \/ silo'.acct[a].roots > 0}
    BY DEF FairCall
<1>3. SInv'
    BY <1>1, <1>2, NextSInv DEF Next
<1>4. /\ share \in [Accounts -> Nat] /\ fair \in [Accounts -> Nat]
      /\ paid \in [Accounts -> Nat] /\ stayed \in SUBSET Accounts
    BY <1>1 DEF PlentyTypes
<1>5. ASSUME NEW a \in Accounts
      PROVE  /\ silo.acct[a] \in AccountStates /\ silo'.acct[a] \in AccountStates
             /\ share[a] \in Nat /\ fair[a] \in Nat /\ paid[a] \in Nat
             /\ Noted(silo.acct[a], clock, share[a], a, stayed)
             /\ Fairly(silo.acct[a], clock, fair[a], paid[a], a, stayed)
             /\ a \in stayed' => share[a] = 0 \/ silo'.acct[a].roots > 0
  <2>1. silo' \in Silos
      BY <1>3 DEF SInv, SiloGood, Balanced
  <2> QED
      BY <1>1, <1>2, <1>4, <2>1, SilosHaveTypes DEF AllNoted, AllFair
<1>6. stayed' \in SUBSET stayed
    BY <1>2
<1>7. CASE Quiet
  <2>1. clock' = clock /\ threeCrv' = threeCrv /\ silo'.rainRoots = silo.rainRoots
        /\ \A b \in Accounts : silo'.acct[b] = silo.acct[b]
                               \/ Refreshed(silo.acct[b], clock, silo'.acct[b])
      BY <1>7 DEF Quiet, AccountsKept
  <2>2. paid' = paid
    <3>1. paid[c] + threeCrv - threeCrv' = paid[c]
        BY <1>1, <1>4, <2>1
    <3> QED
        BY <1>2, <1>4, <3>1
  <2>3. AllNoted' /\ AllFair'
    <3>1. ASSUME NEW a \in Accounts
          PROVE  /\ Noted(silo'.acct[a], clock', share'[a], a, stayed')
                 /\ Fairly(silo'.acct[a], clock', fair'[a], paid'[a], a, stayed')
      <4> DEFINE q == silo.acct[a]
                 w == silo'.acct[a]
                 sh == share[a]
                 fr == fair[a]
                 pd == paid[a]
                 S == stayed
                 S2 == stayed'
                 k == clock
      <4>2. /\ q \in AccountStates /\ w \in AccountStates /\ sh \in Nat /\ fr \in Nat /\ pd \in Nat
            /\ Noted(q, k, sh, a, S) /\ Fairly(q, k, fr, pd, a, S)
            /\ a \in S2 => sh = 0 \/ w.roots > 0
          BY <1>5
      <4>3. k \in Clocks /\ ClockSound(k) /\ S2 \in SUBSET S
          BY <1>1, <1>6
      <4>4. w = q \/ Refreshed(q, k, w)
          BY <2>1
      <4>1. /\ Noted(silo'.acct[a], clock, share[a], a, stayed')
            /\ Fairly(silo'.acct[a], clock, fair[a], paid[a], a, stayed')
        <5>1. Noted(w, k, sh, a, S2) /\ Fairly(w, k, fr, pd, a, S2)
          <6> HIDE DEF q, w, sh, fr, pd, S, S2, k
          <6> QED
              BY <4>2, <4>3, <4>4, AccountKept
        <5> QED
            BY <5>1
      <4> QED
          BY <1>2, <2>1, <2>2, <4>1
    <3> QED
        BY <3>1 DEF AllNoted, AllFair
  <2>4. SharesCovered' /\ PlentyTypes' /\ ClockSound(clock')
      BY <1>1, <1>2, <1>4, <1>6, <2>1, <2>2 DEF SharesCovered, PlentyTypes
  <2> QED
      BY <1>3, <2>3, <2>4 DEF PInv
<1>8. CASE ClaimPlenty(c)
  <2> DEFINE p == silo.acct[c].plenty
  <2>1. /\ p <= threeCrv /\ threeCrv' = threeCrv - p /\ clock' = clock
        /\ silo' = [silo EXCEPT !.acct[c].plenty = 0]
      BY <1>8 DEF ClaimPlenty
  <2>2. p \in Nat
      BY <1>5, AccountTypes, <1>1
  <2>3. /\ silo'.rainRoots = silo.rainRoots
        /\ silo'.acct[c] = [silo.acct[c] EXCEPT !.plenty = 0]
        /\ \A b \in Accounts : b # c => silo'.acct[b] = silo.acct[b]
      BY <1>1, <2>1 DEF Silos
  <2> HIDE DEF p
  <2>4. paid' = [paid EXCEPT ![c] = paid[c] + p]
    <3>1. paid[c] + threeCrv - threeCrv' = paid[c] + p
        BY <1>1, <1>4, <2>1, <2>2
    <3> QED
        BY <1>2, <3>1
  <2>5. AllNoted' /\ AllFair'
    <3>1. ASSUME NEW a \in Accounts
          PROVE  /\ Noted(silo'.acct[a], clock', share'[a], a, stayed')
                 /\ Fairly(silo'.acct[a], clock', fair'[a], paid'[a], a, stayed')
      <4>1. /\ Noted(silo'.acct[a], clock, share[a], a, stayed)
            /\ Fairly(silo'.acct[a], clock, fair[a], paid'[a], a, stayed)
            /\ paid'[a] \in Nat
        <5>1. CASE a = c
          <6>1. paid'[a] = paid[c] + silo.acct[c].plenty
              BY <1>4, <2>4, <5>1 DEF p
          <6>2. paid'[a] \in Nat
              BY <1>4, <2>2, <2>4, <5>1
          <6> QED
              BY <1>1, <1>5, <2>3, <5>1, <6>1, <6>2, ClaimKeeps
        <5>2. CASE a # c
          <6>1. paid'[a] = paid[a] /\ silo'.acct[a] = silo.acct[a]
              BY <1>4, <2>3, <2>4, <5>2
          <6> QED
              BY <1>5, <6>1
        <5> QED
            BY <5>1, <5>2
      <4>2. /\ Noted(silo'.acct[a], clock, share[a], a, stayed')
            /\ Fairly(silo'.acct[a], clock, fair[a], paid'[a], a, stayed')
          BY <1>1, <1>5, <1>6, <4>1, AccountKept
      <4> QED
          BY <1>2, <2>1, <4>2
    <3> QED
        BY <3>1 DEF AllNoted, AllFair
  <2>6. PlentyTypes' /\ ClockSound(clock')
      BY <1>1, <1>2, <1>4, <1>6, <2>1, <2>2, <2>4 DEF PlentyTypes
  <2>7. SharesCovered'
    <3>1. IsFiniteSet(Accounts) /\ paid' \in [Accounts -> Nat]
          /\ (\A b \in Accounts : b # c => paid'[b] = paid[b]) /\ paid'[c] = paid[c] + p
        BY <1>4, <2>2, <2>4, SiloAssumption
    <3>2. /\ Sum(paid) \in Nat /\ Sum(paid') \in Nat /\ paid[c] <= Sum(paid)
          /\ Sum(paid') = (Sum(paid) - paid[c]) + paid'[c]
        BY <1>4, <3>1, SumOfOne
    <3>3. threeCrv' + Sum(paid') = threeCrv + Sum(paid)
        BY <1>1, <1>4, <2>1, <2>2, <3>1, <3>2
    <3> QED
        BY <1>1, <1>2, <2>1, <2>3, <3>3 DEF SharesCovered
  <2> QED
      BY <1>3, <2>5, <2>6, <2>7 DEF PInv
<1> QED
    BY <1>1, <1>2, <1>7, <1>8, CallIsQuiet

\* A stutter keeps it.
LEMMA PInvStutters ==
    ASSUME PInv, UNCHANGED plentyVars
    PROVE  PInv'
BY DEF PInv, SInv, PlentyTypes, AllNoted, AllFair, SharesCovered, plentyVars, vars, assetVars

\* At first nothing is owed to anybody.
LEMMA InitPInv ==
    ASSUME FairInit
    PROVE  PInv
<1>1. SInv
    BY InitSInv DEF FairInit
<1>2. /\ 0 \in Seasons /\ clock.current = 1 /\ clock.rainStart = 0 /\ clock.lastSop = 0
      /\ clock.lastSopSeason = 0 /\ clock.raining = FALSE
      /\ clock.sops = [s \in Seasons |-> 0]
    BY SiloAssumption DEF FairInit, Init, Seasons
<1>3. ClockSound(clock)
    BY <1>2 DEF ClockSound, AllPPR
<1>4. PlentyTypes
    BY DEF FairInit, PlentyTypes
<1>5. ASSUME NEW a \in Accounts
      PROVE  /\ Noted(silo.acct[a], clock, share[a], a, stayed)
             /\ Fairly(silo.acct[a], clock, fair[a], paid[a], a, stayed)
  <2> DEFINE q == silo.acct[a]
  <2>1. /\ q.roots = 0 /\ q.sopRoots = 0 /\ q.plenty = 0 /\ q.plentyPerRoot = 0
        /\ q.lastUpdate = 0 /\ q.lastSop = 0 /\ q.lastRain = 0
      BY DEF FairInit, Init, NewAccount
  <2>2. share[a] = 0 /\ fair[a] = 0 /\ paid[a] = 0
      BY DEF FairInit
  <2> HIDE DEF q
  <2>3. clock.sops[0] = 0
      BY <1>2
  <2>4. PrevOf(q, clock) = 0 /\ AllPPR(clock) = 0
      BY <1>2, <2>1, <2>3 DEF PrevOf, AllPPR
  <2>5. Noted(q, clock, share[a], a, stayed)
    <3>1. Dates(q, clock) /\ Settled(q, clock)
        BY <1>2, <2>1, <2>3, <2>4 DEF Dates, Settled
    <3>2. SinceRain(q, clock, share[a], a, stayed)
        BY <1>2, <2>1, <2>2, <2>3, <2>4 DEF SinceRain
    <3>3. BeforeRain(q, clock, share[a]) /\ Stays(q, share[a], a, stayed)
        BY <1>2, <2>1, <2>2 DEF BeforeRain, Stays
    <3> QED
        BY <3>1, <3>2, <3>3 DEF Noted
  <2>6. RainOf(q, clock) = 0 /\ LaterOf(q, clock) = 0
      BY <1>2, <2>1 DEF RainOf, LaterOf
  <2>7. Pending(q, clock) = 0
      BY <2>1, <2>6 DEF Pending
  <2>8. Fairly(q, clock, fair[a], paid[a], a, stayed)
      BY <2>1, <2>2, <2>7, SiloAssumption DEF Fairly
  <2> QED
      BY <2>5, <2>8 DEF q
<1>6. Sum(fair) = 0 /\ Sum(paid) = 0
    BY SumZero DEF FairInit
<1>7. SharesCovered
    BY <1>2, <1>6, SiloAssumption DEF SharesCovered, FairInit, Init
<1> QED
    BY <1>1, <1>3, <1>4, <1>5, <1>7 DEF PInv, AllNoted, AllFair

\* Every step keeps the invariant, where nobody withdraws or converts while
\* it rains.
LEMMA NextPInv == PInv /\ [FairNext /\ ExitsWhenDry]_plentyVars => PInv'
BY FairSeasonKeepsPInv, FairCallKeepsPInv, PInvStutters DEF FairNext

\* The invariant of Plenty holds throughout.
LEMMA InvariantPInv == DrySpec => []PInv
<1>1. FairInit => PInv
    BY InitPInv
<1>2. PInv /\ [FairNext /\ ExitsWhenDry]_plentyVars => PInv'
    BY NextPInv
<1> QED
    BY <1>1, <1>2, PTL DEF DrySpec

(***************************************************************************)
(* The theorems                                                            *)
(***************************************************************************)

\* What an account has got, by the numbers that it and the clock note.
LEMMA GotIsFair ==
    ASSUME PInv, NEW a \in Accounts
    PROVE  LET B == BalanceOfPlenty(silo, clock, a)
               got == SopPrecision * (paid[a] + B)
           IN  /\ B \in Nat /\ paid[a] \in Nat /\ fair[a] \in Nat /\ got \in Nat
               /\ got <= fair[a]
               /\ a \in stayed => fair[a] <= got + (SopPrecision - 1) * clock.current
<1> DEFINE k == clock
           q == silo.acct[a]
           pd == paid[a]
           fr == fair[a]
           sh == share[a]
           B == BalanceOfPlenty(silo, clock, a)
           low == SopPrecision * (pd + q.plenty) + Pending(q, k)
           got == SopPrecision * (pd + B)
<1>1. /\ k \in Clocks /\ silo \in Silos /\ ClockSound(k) /\ pd \in Nat /\ fr \in Nat
      /\ Noted(q, k, sh, a, stayed) /\ Fairly(q, k, fr, pd, a, stayed)
    BY SInvFacts DEF PInv, SInv, PlentyTypes, AllNoted, AllFair
<1>2. q \in AccountStates
    BY <1>1, SilosHaveTypes
<1>3. B = PlentyOf(q, k)
    BY OwedInSilo
<1> HIDE DEF q, k, pd, fr, sh, B
<1>4. Owed(q, k) /\ q.lastUpdate <= k.current
    BY <1>1, <1>2, OwedByAccount DEF Noted, Dates
<1>5. /\ B \in Nat
      /\ got <= low
      /\ low + (SopPrecision - 1) * q.lastUpdate <= got + (SopPrecision - 1) * k.current
      /\ q.plenty \in Nat /\ Pending(q, k) \in Nat /\ q.lastUpdate \in Nat /\ k.current \in Nat
    BY <1>1, <1>2, <1>3, <1>4, RoundedDown, AccountTypes
<1>6. /\ low <= fr
      /\ a \in stayed => fr <= low + (SopPrecision - 1) * q.lastUpdate
    BY <1>1 DEF Fairly
<1>7. got \in Nat /\ low \in Nat
  <2>1. SopPrecision \in Nat /\ \A x, y \in Nat : x * y \in Nat
      BY SiloAssumption
  <2>2. pd + B \in Nat /\ pd + q.plenty \in Nat
      BY <1>1, <1>5
  <2>3. SopPrecision * (pd + q.plenty) \in Nat
      BY <2>1, <2>2
  <2> QED
      BY <1>5, <2>1, <2>2, <2>3
<1>8. (SopPrecision - 1) * q.lastUpdate \in Nat /\ (SopPrecision - 1) * k.current \in Nat
  <2>1. SopPrecision - 1 \in Nat /\ \A x, y \in Nat : x * y \in Nat
      BY SiloAssumption
  <2> QED
      BY <1>5, <2>1
<1> HIDE DEF got, low
<1>9. got <= fr
    BY <1>1, <1>5, <1>6, <1>7
<1>10. a \in stayed => fr <= got + (SopPrecision - 1) * k.current
  <2> DEFINE x == (SopPrecision - 1) * q.lastUpdate
             y == (SopPrecision - 1) * k.current
  <2>1. x \in Nat /\ y \in Nat /\ low + x <= got + y /\ (a \in stayed => fr <= low + x)
      BY <1>5, <1>6, <1>8
  <2> HIDE DEF x, y
  <2>2. a \in stayed => fr <= got + y
      BY <1>1, <1>7, <2>1
  <2> QED
      BY <2>2 DEF y
<1> QED
    BY <1>1, <1>5, <1>7, <1>9, <1>10 DEF got, B, pd, fr, k

\* What an account has claimed and can claim is never more than its share of
\* every Season of Plenty; and an account that kept Roots has got all of it,
\* but for less than one unit in each Season.
THEOREM PlentyIsPaidFairly == DrySpec => []PlentyIsFair
<1>1. PInv => PlentyIsFair
  <2> SUFFICES ASSUME PInv, NEW a \in Accounts
               PROVE  LET got == SopPrecision * (paid[a] + BalanceOfPlenty(silo, clock, a))
                      IN  /\ got <= fair[a]
                          /\ a \in stayed => fair[a] < got + SopPrecision * clock.current
      BY DEF PlentyIsFair
  <2> DEFINE got == SopPrecision * (paid[a] + BalanceOfPlenty(silo, clock, a))
             n == clock.current
             f == fair[a]
  <2>1. /\ got \in Nat /\ f \in Nat /\ got <= f
        /\ a \in stayed => f <= got + (SopPrecision - 1) * n
      BY GotIsFair
  <2>2. n \in Nat \ {0}
      BY SInvFacts DEF PInv, SInv
  <2> HIDE DEF got, n, f
  <2>3. SopPrecision \in Nat \ {0}
      BY SiloAssumption
  <2>4. (SopPrecision - 1) * n \in Nat /\ (SopPrecision - 1) * n < SopPrecision * n
        /\ SopPrecision * n \in Nat
    <3>1. \A x, y \in Nat \ {0} : /\ (x - 1) * y \in Nat /\ x * y \in Nat
                                  /\ (x - 1) * y = x * y - y
        OBVIOUS
    <3>2. /\ (SopPrecision - 1) * n \in Nat /\ SopPrecision * n \in Nat
          /\ (SopPrecision - 1) * n = SopPrecision * n - n
        BY <2>2, <2>3, <3>1
    <3> DEFINE x == (SopPrecision - 1) * n
               y == SopPrecision * n
    <3>3. x \in Nat /\ y \in Nat /\ x = y - n
        BY <3>2
    <3> HIDE DEF x, y
    <3>4. x < y
        BY <2>2, <3>3
    <3> QED
        BY <3>3, <3>4 DEF x, y
  <2>5. got <= f /\ (a \in stayed => f < got + SopPrecision * n)
    <3> DEFINE x == (SopPrecision - 1) * n
               y == SopPrecision * n
    <3>1. x \in Nat /\ y \in Nat /\ x < y /\ (a \in stayed => f <= got + x)
        BY <2>1, <2>4
    <3> HIDE DEF x, y
    <3>2. got <= f /\ (a \in stayed => f < got + y)
        BY <2>1, <3>1
    <3> QED
        BY <3>2 DEF y
  <2> QED
      BY <2>5 DEF got, n, f
<1> QED
    BY <1>1, InvariantPInv, PTL

\* The diamond has the 3CRV for the Plenty of all accounts, whatever rains
\* have started, paid and stopped since each was last updated.
THEOREM PlentyIsCovered == DrySpec => []PlentyCovered
<1>1. PInv => PlentyCovered
  <2> SUFFICES ASSUME PInv PROVE PlentyCovered
      OBVIOUS
  <2> DEFINE B == [a \in Accounts |-> BalanceOfPlenty(silo, clock, a)]
             both == [a \in Accounts |-> paid[a] + B[a]]
             all == [a \in Accounts |-> SopPrecision * both[a]]
  <2>1. /\ IsFiniteSet(Accounts) /\ SopPrecision \in Nat \ {0} /\ threeCrv \in Nat
        /\ paid \in [Accounts -> Nat] /\ fair \in [Accounts -> Nat]
        /\ Sum(fair) <= SopPrecision * (threeCrv + Sum(paid))
      BY SiloAssumption DEF PInv, SInv, PlentyTypes, SharesCovered
  <2>2. \A a \in Accounts : /\ BalanceOfPlenty(silo, clock, a) \in Nat
                            /\ SopPrecision * (paid[a] + BalanceOfPlenty(silo, clock, a)) \in Nat
                            /\ SopPrecision * (paid[a] + BalanceOfPlenty(silo, clock, a)) <= fair[a]
      BY GotIsFair
  <2>3. B \in [Accounts -> Nat]
      BY <2>2
  <2>4. both \in [Accounts -> Nat]
      BY <2>1, <2>3
  <2>5. all \in [Accounts -> Nat] /\ \A a \in Accounts : all[a] <= fair[a]
      BY <2>2
  <2>6. Sum(both) = Sum(paid) + Sum(B)
    <3> HIDE DEF B
    <3> QED
        BY <2>1, <2>3, SumPlus
  <2>7. Sum(all) = SopPrecision * Sum(both)
    <3>1. SopPrecision \in Nat
        BY <2>1
    <3> HIDE DEF both
    <3> QED
        BY <2>1, <2>4, <3>1, SumScale
  <2>8. PlentyCovered = (Sum(B) <= threeCrv)
      BY DEF PlentyCovered
  <2> HIDE DEF B, both, all
  <2>9. Sum(all) <= Sum(fair)
      BY <2>1, <2>5, SumMonotone
  <2>10. Sum(all) \in Nat /\ Sum(fair) \in Nat /\ Sum(paid) \in Nat /\ Sum(B) \in Nat
    <3>1. \A f \in [Accounts -> Nat] : DOMAIN f = Accounts /\ \A x \in Accounts : f[x] \in Nat
        OBVIOUS
    <3>2. \A f \in [Accounts -> Nat] : Sum(f) \in Nat
        BY <2>1, <3>1, SumType
    <3> QED
        BY <2>1, <2>3, <2>5, <3>2
  <2>11. Sum(B) <= threeCrv
    <3> DEFINE x == Sum(paid) + Sum(B)
               y == threeCrv + Sum(paid)
    <3>1. x \in Nat /\ y \in Nat /\ SopPrecision * x <= SopPrecision * y
      <4>1. x \in Nat /\ y \in Nat /\ SopPrecision * x = Sum(all)
          BY <2>1, <2>6, <2>7, <2>10
      <4>2. Sum(fair) <= SopPrecision * y
          BY <2>1
      <4>3. SopPrecision * y \in Nat
        <5>1. \A m, n \in Nat : m * n \in Nat
            OBVIOUS
        <5> QED
            BY <2>1, <4>1, <5>1
      <4> HIDE DEF x, y
      <4> DEFINE u == SopPrecision * x
                 v == SopPrecision * y
      <4>4. u = Sum(all) /\ Sum(fair) <= v /\ v \in Nat
          BY <4>1, <4>2, <4>3
      <4> HIDE DEF u, v
      <4>5. u <= v
          BY <2>9, <2>10, <4>4
      <4> QED
          BY <4>1, <4>5 DEF u, v
    <3>2. x <= y
      <4> HIDE DEF x, y
      <4>1. \A m \in Nat \ {0} : \A i, j \in Nat : m * i <= m * j => i <= j
        <5> SUFFICES ASSUME NEW m \in Nat \ {0}, NEW i \in Nat, NEW j \in Nat, j + 1 <= i
                     PROVE  m * j < m * i
            OBVIOUS
        <5>1. m * (j + 1) <= m * i
            BY ProductMonotone
        <5>2. m * (j + 1) = m * j + m /\ m * j \in Nat /\ m * i \in Nat
            OBVIOUS
        <5> QED
            BY <5>1, <5>2
      <4> QED
          BY <2>1, <3>1, <4>1
    <3> QED
        BY <2>1, <2>10, <3>2
  <2> QED
      BY <2>8, <2>11
<1> QED
    BY <1>1, InvariantPInv, PTL

\* Whatever Plenty was sold, no Deposit is locked in while it is dry: a
\* withdrawal of all Deposits of a token divides by zero only where all Mage
\* has left and rounding has kept Roots back.
THEOREM ExitsStayOpen ==
    DrySpec => [](( /\ ~clock.raining
                    /\ \/ CanIncrementMage(silo)
                       \/ UnripeTokens = {} /\ \A t \in Tokens : TokenMage[t] > 0 ) => ExitOpen)
<1>1. ASSUME PInv, NEW a \in Accounts
      PROVE  LaterPPR(silo, clock, a) >= 0
  <2> DEFINE q == silo.acct[a]
  <2>1. /\ clock \in Clocks /\ silo \in Silos /\ ClockSound(clock)
        /\ Noted(q, clock, share[a], a, stayed)
      BY <1>1, SInvFacts DEF PInv, SInv, AllNoted
  <2>2. q \in AccountStates
      BY <2>1, SilosHaveTypes
  <2>3. LaterPPR(silo, clock, a) = LaterOf(q, clock)
      BY OwedInSilo
  <2> HIDE DEF q
  <2>4. Owed(q, clock)
      BY <2>1, <2>2, OwedByAccount
  <2> QED
      BY <2>3, <2>4 DEF Owed
<1>2. PInv => (( /\ ~clock.raining
                 /\ \/ CanIncrementMage(silo)
                    \/ UnripeTokens = {} /\ \A t \in Tokens : TokenMage[t] > 0 ) => ExitOpen)
    BY <1>1, ExitFrom DEF PInv, ExitOpen
<1> QED
    BY <1>2, InvariantPInv, PTL
=================================================================================
