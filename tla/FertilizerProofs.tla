----------------------------- MODULE FertilizerProofs -----------------------------
(***************************************************************************)
(* Theorems about Fertilizer: the queue, what is owed and paid, what the   *)
(* holders can claim, and what backs the Unripe tokens.                    *)
(***************************************************************************)
EXTENDS Fertilizer, LibTransferProofs

(***************************************************************************)
(* The invariant of the queue                                              *)
(***************************************************************************)
\* The ids that have not ended when bpf is b, the claims to them, and what
\* these have to come.
ActiveAt(b)  == {id \in Ids : id > b /\ fertilizer[id] > 0}
ClaimsAt(b)  == Sum([id \in ActiveAt(b) |-> fertilizer[id]])
OwedAt(b)    == Sum([id \in ActiveAt(b) |-> fertilizer[id] * (id - b)])

\* f is the first of the ids that have not ended at b, l the last.
IsFirst(f, b) ==
    \/ ActiveAt(b) = {} /\ f = 0
    \/ f \in ActiveAt(b) /\ \A k \in ActiveAt(b) : f <= k

IsLast(l, b) ==
    \/ ActiveAt(b) = {} /\ l = 0
    \/ l \in ActiveAt(b) /\ \A k \in ActiveAt(b) : k <= l

QueueTypes ==
    /\ season \in Nat /\ bpf \in Ids
    /\ fFirst \in Ids /\ fLast \in Ids /\ nextFid \in [Ids -> Ids]
    /\ fertilizer \in [Ids -> Nat] /\ activeFertilizer \in Nat
    /\ fertilizedIndex \in Nat /\ unfertilizedIndex \in Nat
    /\ fertilizing \in BOOLEAN

\* Each id that has not ended links to the next.  Of an id without Fertilizer
\* there is no link: the last id of the queue may come to be any id.
Linked ==
    /\ fertilizing <=> ActiveAt(bpf) # {}
    /\ IsFirst(fFirst, bpf) /\ IsLast(fLast, bpf)
    /\ \A id \in ActiveAt(bpf) : IsFirst(nextFid[id], id)
    /\ \A id \in Ids : fertilizer[id] = 0 => nextFid[id] = 0

Owing ==
    /\ activeFertilizer = ClaimsAt(bpf)
    /\ unfertilizedIndex = fertilizedIndex + OwedAt(bpf)

QInv == QueueTypes /\ Linked /\ Owing

(***************************************************************************)
(* What is owed                                                            *)
(***************************************************************************)
\* The ids are finitely many natural numbers.
LEMMA IdsAreNat == IsFiniteSet(Ids) /\ 0 \in Ids /\ \A id \in Ids : id \in Nat
<1>1. MaxId \in Nat
    BY FertilizerAssumption
<1>2. IsFiniteSet(0 .. MaxId)
    BY <1>1, FS_Interval
<1> QED
    BY <1>1, <1>2 DEF Ids

\* So are those that have not ended.
LEMMA ActiveFinite ==
    ASSUME NEW b
    PROVE  /\ IsFiniteSet(ActiveAt(b)) /\ ActiveAt(b) \subseteq Ids
           /\ \A id \in ActiveAt(b) : id \in Ids /\ id \in Nat /\ id > b
<1>1. ActiveAt(b) \subseteq Ids /\ \A id \in ActiveAt(b) : id > b
    BY DEF ActiveAt
<1>2. IsFiniteSet(ActiveAt(b))
    BY <1>1, IdsAreNat, FS_Subset, Zenon
<1> QED
    BY <1>1, <1>2, IdsAreNat

\* The claims and what they have to come are natural numbers.
LEMMA OwedTypes ==
    ASSUME QueueTypes, NEW b \in Nat
    PROVE  /\ \A id \in ActiveAt(b) : /\ fertilizer[id] \in Nat \ {0}
                                      /\ fertilizer[id] * (id - b) \in Nat
           /\ ClaimsAt(b) \in Nat /\ OwedAt(b) \in Nat
<1> DEFINE f == [id \in ActiveAt(b) |-> fertilizer[id]]
           g == [id \in ActiveAt(b) |-> fertilizer[id] * (id - b)]
<1>1. ASSUME NEW id \in ActiveAt(b)
      PROVE  fertilizer[id] \in Nat \ {0} /\ fertilizer[id] * (id - b) \in Nat
  <2>1. id \in Nat /\ id - b \in Nat /\ fertilizer[id] \in Nat \ {0}
      BY IdsAreNat DEF ActiveAt, QueueTypes
  <2> QED
      BY <2>1
<1>2. IsFiniteSet(DOMAIN f) /\ \A x \in DOMAIN f : f[x] \in Nat
    BY <1>1, ActiveFinite
<1>3. IsFiniteSet(DOMAIN g) /\ \A x \in DOMAIN g : g[x] \in Nat
    BY <1>1, ActiveFinite
<1>4. Sum(f) \in Nat
    BY <1>2, SumType
<1>5. Sum(g) \in Nat
    BY <1>3, SumType
<1> QED
    BY <1>1, <1>4, <1>5 DEF ClaimsAt, OwedAt

\* As long as no claim ends, what is owed falls by the same for all of them.
LEMMA PayTogether ==
    ASSUME QueueTypes, NEW b \in Nat, NEW c \in Nat, b <= c,
           \A id \in ActiveAt(b) : c <= id
    PROVE  OwedAt(b) = (c - b) * ClaimsAt(b) + OwedAt(c)
<1> DEFINE S == ActiveAt(b)
           f == [id \in S |-> fertilizer[id]]
           g == [id \in S |-> fertilizer[id] * (id - c)]
           h == [id \in S |-> (c - b) * f[id]]
<1>1. IsFiniteSet(S) /\ \A id \in S : id \in Nat /\ fertilizer[id] \in Nat /\ c <= id
    BY ActiveFinite, OwedTypes
<1>2. c - b \in Nat
    OBVIOUS
<1>3. f \in [S -> Nat] /\ g \in [S -> Nat] /\ h \in [S -> Nat]
  <2>1. \A id \in S : id - c \in Nat
      BY <1>1
  <2> HIDE DEF S
  <2>2. \A id \in S : fertilizer[id] * (id - c) \in Nat /\ (c - b) * fertilizer[id] \in Nat
      BY <1>1, <1>2, <2>1
  <2> QED
      BY <1>1, <2>2
<1>4. \A id \in S : fertilizer[id] * (id - b) = h[id] + g[id]
  <2> SUFFICES ASSUME NEW id \in S
               PROVE  fertilizer[id] * (id - b) = (c - b) * fertilizer[id] + fertilizer[id] * (id - c)
      OBVIOUS
  <2>1. \A x, m, n \in Nat : x * (m + n) = m * x + x * n
      OBVIOUS
  <2>2. id - b = (c - b) + (id - c) /\ id - c \in Nat /\ fertilizer[id] \in Nat
      BY <1>1
  <2> HIDE DEF S
  <2> QED
      BY <1>2, <2>1, <2>2
<1>5. OwedAt(b) = Sum([id \in S |-> h[id] + g[id]])
  <2>1. [id \in S |-> fertilizer[id] * (id - b)] = [id \in S |-> h[id] + g[id]]
    <3> HIDE DEF S, g, h
    <3> QED
        BY <1>4
  <2> QED
      BY <2>1 DEF OwedAt
<1>6. Sum([id \in S |-> h[id] + g[id]]) = Sum(h) + Sum(g)
  <2> HIDE DEF S, f, g, h
  <2> QED
      BY <1>1, <1>3, SumPlus, Zenon
<1>7. Sum(h) = (c - b) * Sum(f)
  <2> HIDE DEF S, f
  <2> QED
      BY <1>1, <1>2, <1>3, SumScale
<1>8. Sum(g) = OwedAt(c)
  <2> DEFINE T == ActiveAt(c)
  <2>1. T \in SUBSET S /\ \A x \in S \ T : x = c
    <3>1. \A x : x \in T <=> x \in Ids /\ x > c /\ fertilizer[x] > 0
        BY DEF ActiveAt
    <3>2. \A x : x \in S <=> x \in Ids /\ x > b /\ fertilizer[x] > 0
        BY DEF ActiveAt
    <3> HIDE DEF S, T
    <3> QED
        BY <1>1, <3>1, <3>2, IdsAreNat
  <2>2. \A x \in S \ T : g[x] = 0
      BY <1>1, <2>1
  <2>3. [x \in T |-> g[x]] = [x \in T |-> fertilizer[x] * (x - c)]
      BY <2>1
  <2>4. Sum(g) = Sum([x \in T |-> g[x]])
    <3> HIDE DEF S, T, g
    <3>1. IsFiniteSet(S) /\ T \in SUBSET S /\ g \in [S -> Nat] /\ \A x \in S \ T : g[x] = 0
        BY <1>1, <1>3, <2>1, <2>2
    <3> QED
        BY <3>1, SumSupport
  <2> QED
      BY <2>3, <2>4 DEF OwedAt
<1>9. Sum(f) = ClaimsAt(b)
    BY DEF ClaimsAt
<1> QED
    BY <1>5, <1>6, <1>7, <1>8, <1>9

\* When the first id ends, its claims end and no others.
LEMMA EndFirst ==
    ASSUME QueueTypes, NEW b \in Nat, NEW first \in ActiveAt(b),
           \A k \in ActiveAt(b) : first <= k
    PROVE  /\ first \notin ActiveAt(first)
           /\ ActiveAt(b) = ActiveAt(first) \union {first}
           /\ ClaimsAt(b) = ClaimsAt(first) + fertilizer[first]
<1>1. first \in Nat /\ fertilizer[first] > 0 /\ first > b
    BY ActiveFinite DEF ActiveAt
<1>2. first \notin ActiveAt(first)
    BY <1>1 DEF ActiveAt
<1>3. ActiveAt(b) = ActiveAt(first) \union {first}
  <2>1. \A x : x \in ActiveAt(b) => x \in Nat /\ first <= x
      BY ActiveFinite
  <2>2. \A x : x \in ActiveAt(b) <=> x \in Ids /\ x > b /\ fertilizer[x] > 0
      BY DEF ActiveAt
  <2>3. \A x : x \in ActiveAt(first) <=> x \in Ids /\ x > first /\ fertilizer[x] > 0
      BY DEF ActiveAt
  <2> QED
      BY <1>1, <2>1, <2>2, <2>3, IdsAreNat
<1>4. /\ IsFiniteSet(ActiveAt(first))
      /\ \A y \in ActiveAt(first) \union {first} : fertilizer[y] \in Nat
    BY <1>3, ActiveFinite, OwedTypes
<1>5. Sum([y \in ActiveAt(first) \union {first} |-> fertilizer[y]])
         = Sum([y \in ActiveAt(first) |-> fertilizer[y]]) + fertilizer[first]
    BY <1>2, <1>4, SumExtend
<1> QED
    BY <1>2, <1>3, <1>5 DEF ClaimsAt

\* Between two ends the same ids have not ended.
LEMMA SameActive ==
    ASSUME NEW b \in Nat, NEW c \in Nat, b <= c, \A id \in ActiveAt(b) : c < id
    PROVE  ActiveAt(c) = ActiveAt(b)
BY IdsAreNat DEF ActiveAt

\* Nobody is owed anything when every id has ended, and there are claims
\* while one has not.
LEMMA NoClaims ==
    ASSUME QueueTypes, NEW b \in Nat
    PROVE  /\ ActiveAt(b) = {} => ClaimsAt(b) = 0 /\ OwedAt(b) = 0
           /\ ActiveAt(b) # {} => ClaimsAt(b) > 0
<1>1. CASE ActiveAt(b) = {}
  <2>1. /\ [id \in ActiveAt(b) |-> fertilizer[id]] = [id \in {} |-> 0]
        /\ [id \in ActiveAt(b) |-> fertilizer[id] * (id - b)] = [id \in {} |-> 0]
      BY <1>1
  <2>2. Sum([id \in {} |-> 0]) = 0
      BY SumZero
  <2> QED
      BY <1>1, <2>1, <2>2 DEF ClaimsAt, OwedAt
<1>2. ASSUME NEW id \in ActiveAt(b)
      PROVE  ClaimsAt(b) > 0
  <2> DEFINE S == ActiveAt(b)
             f == [k \in S |-> fertilizer[k]]
  <2>1. IsFiniteSet(S) /\ f \in [S -> Nat] /\ id \in S /\ f[id] \in Nat \ {0}
      BY ActiveFinite, OwedTypes
  <2>2. f[id] <= Sum(f)
    <3> HIDE DEF S, f
    <3> QED
        BY <2>1, SumAtLeast
  <2>3. Sum(f) = ClaimsAt(b) /\ ClaimsAt(b) \in Nat
      BY OwedTypes DEF ClaimsAt
  <2> HIDE DEF f
  <2> QED
      BY <2>1, <2>2, <2>3
<1> QED
    BY <1>1, <1>2

(***************************************************************************)
(* The payment loop                                                        *)
(***************************************************************************)
Rewards == [first : Ids, active : Int, bpf : Ids, paid : Int]

Start == [first |-> fFirst, active |-> activeFertilizer, bpf |-> bpf, paid |-> 0]

\* after[n] is where the loop is after n ends, or at its end.
PaysByStep(after, max) ==
    /\ after[0] = Start
    /\ \A n \in 0 .. MaxId - 1 :
          after[n + 1] = IF Ends(after[n], max) THEN PayFirst(after[n]) ELSE after[n]

\* A step of the loop is again one of its states.
LEMMA PayFirstType ==
    ASSUME QueueTypes, NEW r \in Rewards, r.first # 0
    PROVE  PayFirst(r) \in Rewards
<1>1. /\ r.first \in Ids /\ r.first \in Nat /\ r.bpf \in Nat /\ r.active \in Int /\ r.paid \in Int
      /\ nextFid[r.first] \in Ids /\ fertilizer[r.first] \in Nat
    BY IdsAreNat DEF Rewards, QueueTypes
<1>2. r.active - fertilizer[r.first] \in Int
    BY <1>1
<1>3. r.paid + (r.first - r.bpf) * r.active \in Int
  <2> DEFINE d == r.first - r.bpf
             a == r.active
  <2>1. d \in Int /\ a \in Int
      BY <1>1
  <2> HIDE DEF d, a
  <2>2. d * a \in Int
      BY <2>1
  <2> QED
      BY <1>1, <2>2 DEF d, a
<1> QED
    BY <1>1, <1>2, <1>3 DEF PayFirst, Rewards

\* The loop, step by step.
LEMMA PayingByStep ==
    ASSUME QueueTypes, NEW max \in Nat
    PROVE  \E after \in [0 .. MaxId -> Rewards] :
              Paying(max) = after[MaxId] /\ PaysByStep(after, max)
<1> DEFINE Value(f, n) ==
              IF n = 0 THEN Start
              ELSE IF Ends(f[n - 1], max) THEN PayFirst(f[n - 1]) ELSE f[n - 1]
           step == [p \in (1 .. MaxId) \X Rewards |->
                       IF Ends(p[2], max) THEN PayFirst(p[2]) ELSE p[2]]
           after == CHOOSE f : f = [n \in 0 .. MaxId |-> Value(f, n)]
<1>0. MaxId \in Nat
    BY FertilizerAssumption
<1>1. step \in [(1 .. MaxId) \X Rewards -> Rewards]
  <2> SUFFICES ASSUME NEW r \in Rewards
               PROVE  (IF Ends(r, max) THEN PayFirst(r) ELSE r) \in Rewards
      OBVIOUS
  <2>1. Ends(r, max) => r.first # 0
      BY DEF Ends
  <2> QED
      BY <2>1, PayFirstType
<1>2. Start \in Rewards
    BY DEF Start, Rewards, QueueTypes
<1>3. PICK f \in [0 .. MaxId -> Rewards] : IsRecursive(f, MaxId, Start, step)
  <2> HIDE DEF step
  <2> QED
      BY <1>0, <1>1, <1>2, PrimitiveRecursion, Zenon
<1>4. \A n \in 0 .. MaxId : f[n] = Value(f, n)
  <2> SUFFICES ASSUME NEW n \in 0 .. MaxId
               PROVE  f[n] = Value(f, n)
      BY Zenon
  <2>1. f[n] = IF n = 0 THEN Start ELSE step[<<n, f[n - 1]>>]
      BY <1>3 DEF IsRecursive
  <2>2. CASE n = 0
      BY <2>1, <2>2
  <2>3. CASE n # 0
    <3>1. n \in 1 .. MaxId /\ n - 1 \in 0 .. MaxId
        BY <1>0, <2>3
    <3>2. f[n - 1] \in Rewards
        BY <3>1
    <3>3. step[<<n, f[n - 1]>>] =
             IF Ends(f[n - 1], max) THEN PayFirst(f[n - 1]) ELSE f[n - 1]
        BY <3>1, <3>2
    <3> HIDE DEF step
    <3> QED
        BY <2>1, <2>3, <3>3
  <2> QED
      BY <2>2, <2>3
<1>5. f = [n \in 0 .. MaxId |-> Value(f, n)]
  <2> HIDE DEF Value
  <2> QED
      BY <1>4
<1>6. after = [n \in 0 .. MaxId |-> Value(after, n)]
    BY <1>5, Zenon
<1>7. Paying(max) = after[MaxId]
    BY Zenon DEF Paying, Start
<1> HIDE DEF after
<1>8. \A n \in 0 .. MaxId : after[n] = Value(after, n)
  <2> HIDE DEF Value
  <2> QED
      BY <1>6, Zenon
<1>9. PaysByStep(after, max)
  <2>1. 0 \in 0 .. MaxId
      BY <1>0
  <2>2. after[0] = Start
      BY <1>8, <2>1
  <2>3. ASSUME NEW n \in 0 .. MaxId - 1
        PROVE  after[n + 1] = IF Ends(after[n], max) THEN PayFirst(after[n]) ELSE after[n]
    <3>1. n + 1 \in 0 .. MaxId /\ n + 1 # 0 /\ (n + 1) - 1 = n
        BY <1>0
    <3>2. after[n + 1] = Value(after, n + 1)
        BY <1>8, <3>1
    <3> QED
        BY <3>1, <3>2
  <2> QED
      BY <2>2, <2>3 DEF PaysByStep
<1>10. \A n \in 0 .. MaxId : after[n] \in Rewards
  <2> DEFINE D == {n \in 0 .. MaxId : after[n] \in Rewards}
  <2>1. 0 \in D
      BY <1>0, <1>2, <1>9 DEF PaysByStep
  <2>2. ASSUME NEW n \in 0 .. MaxId - 1, n \in D
        PROVE  n + 1 \in D
    <3>1. n + 1 \in 0 .. MaxId /\ after[n] \in Rewards
        BY <1>0, <2>2
    <3>2. Ends(after[n], max) => after[n].first # 0
        BY DEF Ends
    <3>3. after[n + 1] = IF Ends(after[n], max) THEN PayFirst(after[n]) ELSE after[n]
        BY <1>9 DEF PaysByStep
    <3>4. after[n + 1] \in Rewards
        BY <3>1, <3>2, <3>3, PayFirstType
    <3> QED
        BY <3>1, <3>4
  <2>3. \A n \in 0 .. MaxId : n \in D
    <3> HIDE DEF D
    <3> QED
        BY <1>0, <2>1, <2>2, BoundedInduction
  <2> QED
      BY <2>3
<1>11. after \in [0 .. MaxId -> Rewards]
  <2>1. after = [n \in 0 .. MaxId |-> after[n]]
    <3> HIDE DEF Value
    <3> QED
        BY <1>6, <1>8
  <2> QED
      BY <1>10, <2>1
<1> QED
    BY <1>7, <1>9, <1>11

\* What the loop has paid is what was owed and is no longer, out of max; its
\* first id and its claims are those at its bpf.
Paid(r, max) ==
    /\ r \in Rewards
    /\ bpf <= r.bpf
    /\ r.active = ClaimsAt(r.bpf)
    /\ IsFirst(r.first, r.bpf)
    /\ r.bpf = bpf \/ fertilizer[r.bpf] > 0
    /\ OwedAt(bpf) = r.paid + OwedAt(r.bpf)
    /\ 0 <= r.paid /\ r.paid <= max

\* An id that ends is paid in full, and the claims to it end.
LEMMA PayFirstPaid ==
    ASSUME QInv, NEW max \in Nat, NEW r, Paid(r, max), Ends(r, max)
    PROVE  Paid(PayFirst(r), max) /\ r.bpf < PayFirst(r).bpf
<1> DEFINE next == PayFirst(r)
           b == r.bpf
           first == r.first
           a == r.active
<1>1. QueueTypes /\ Linked
    BY DEF QInv
<1>2. /\ r \in Rewards /\ b \in Nat /\ b \in Ids /\ r.paid \in Int /\ bpf \in Nat
      /\ bpf <= b
    BY <1>1, IdsAreNat DEF Paid, Rewards, QueueTypes
<1>3. first # 0 /\ a > 0 /\ b + (max - r.paid) \div a >= first
    BY DEF Ends, Target
<1>4. first \in ActiveAt(b) /\ \A k \in ActiveAt(b) : first <= k
    BY <1>3 DEF Paid, IsFirst
<1>5. first \in Nat /\ first \in Ids /\ first > b /\ fertilizer[first] > 0
    BY <1>2, <1>4, IdsAreNat DEF ActiveAt
<1>6. /\ next.first = nextFid[first] /\ next.active = a - fertilizer[first]
      /\ next.bpf = first /\ next.paid = r.paid + (first - b) * a
      /\ next \in Rewards
    BY <1>1, <1>2, <1>3, PayFirstType DEF PayFirst
<1>7. a = ClaimsAt(b) /\ a \in Nat \ {0}
    BY <1>1, <1>2, <1>3, OwedTypes DEF Paid
<1>8. first \in ActiveAt(bpf)
    BY <1>2, <1>5 DEF ActiveAt
<1>9. IsFirst(nextFid[first], first)
    BY <1>1, <1>8 DEF Linked
<1>10. ClaimsAt(b) = ClaimsAt(first) + fertilizer[first] /\ ClaimsAt(first) \in Nat
       /\ fertilizer[first] \in Nat
    BY <1>1, <1>2, <1>4, <1>5, EndFirst, OwedTypes DEF QueueTypes
<1>11. OwedAt(b) = (first - b) * ClaimsAt(b) + OwedAt(first)
  <2>1. b <= first
      BY <1>2, <1>5
  <2> QED
      BY <1>1, <1>2, <1>4, <1>5, <2>1, PayTogether
<1>12. OwedAt(b) \in Nat /\ OwedAt(first) \in Nat /\ OwedAt(bpf) \in Nat
    BY <1>1, <1>2, <1>5, OwedTypes
<1>13. (first - b) * a \in Nat /\ (first - b) * a <= max - r.paid
  <2> DEFINE m == max - r.paid
             n == first - b
             q == m \div a
  <2>1. m \in Nat /\ n \in Nat /\ a \in Nat \ {0}
      BY <1>2, <1>5, <1>7 DEF Paid
  <2> HIDE DEF m, a
  <2>2. q \in Nat /\ a * q <= m
      BY <2>1, DivBounds
  <2>3. n <= q
    <3> HIDE DEF q
    <3>1. b + q >= first
        BY <1>3 DEF q, m
    <3> QED
        BY <1>2, <1>5, <2>2, <3>1
  <2> HIDE DEF n, q
  <2>4. n * a \in Nat /\ n * a <= q * a
      BY <2>1, <2>2, <2>3, ProductMonotone
  <2>5. q * a = a * q /\ a * q \in Nat
      BY <2>1, <2>2
  <2> QED
      BY <2>1, <2>2, <2>4, <2>5 DEF n, m
<1> DEFINE paid == (first - b) * a
<1>14. OwedAt(b) = paid + OwedAt(first)
    BY <1>7, <1>11
<1>15. paid \in Nat /\ paid <= max - r.paid /\ next.paid = r.paid + paid
    BY <1>6, <1>13
<1> HIDE DEF paid, next, b, first, a
<1>16. OwedAt(bpf) = next.paid + OwedAt(first)
  <2>1. OwedAt(bpf) = r.paid + OwedAt(b)
      BY DEF Paid, b
  <2> QED
      BY <1>2, <1>12, <1>14, <1>15, <2>1
<1>17. 0 <= next.paid /\ next.paid <= max
  <2>1. 0 <= r.paid /\ r.paid <= max
      BY DEF Paid
  <2> QED
      BY <1>2, <1>15, <2>1
<1>18. next.active = ClaimsAt(next.bpf) /\ IsFirst(next.first, next.bpf) /\ bpf <= next.bpf
       /\ fertilizer[next.bpf] > 0
       /\ OwedAt(bpf) = next.paid + OwedAt(next.bpf)
    BY <1>2, <1>5, <1>6, <1>7, <1>9, <1>10, <1>16
<1> QED
    BY <1>2, <1>5, <1>6, <1>17, <1>18 DEF Paid, next, b

\* The loop ends, for an id ends at most once, and has paid what it can.
LEMMA PayingResult ==
    ASSUME QInv, NEW max \in Nat
    PROVE  Paid(Paying(max), max) /\ ~Ends(Paying(max), max)
<1>1. QueueTypes /\ Linked /\ Owing /\ MaxId \in Nat
    BY FertilizerAssumption DEF QInv
<1>2. PICK after \in [0 .. MaxId -> Rewards] :
         Paying(max) = after[MaxId] /\ PaysByStep(after, max)
    BY <1>1, PayingByStep, Zenon
<1> DEFINE Fine(n) == /\ Paid(after[n], max)
                      /\ Ends(after[n], max) => n <= after[n].bpf
           D == {n \in 0 .. MaxId : Fine(n)}
<1>3. 0 \in D
  <2>1. after[0] = Start /\ 0 \in 0 .. MaxId
      BY <1>1, <1>2 DEF PaysByStep
  <2>2. bpf \in Nat /\ OwedAt(bpf) \in Nat
      BY <1>1, OwedTypes, IdsAreNat DEF QueueTypes
  <2>3. Start \in Rewards
      BY <1>1 DEF Start, Rewards, QueueTypes
  <2>4. Paid(Start, max)
      BY <1>1, <2>2, <2>3 DEF Start, Paid, Linked, Owing
  <2>5. 0 <= Start.bpf
      BY <2>2 DEF Start
  <2> QED
      BY <2>1, <2>4, <2>5
<1>4. ASSUME NEW n \in 0 .. MaxId - 1, n \in D
      PROVE  n + 1 \in D
  <2>1. /\ n + 1 \in 0 .. MaxId /\ n \in Nat /\ Fine(n)
        /\ after[n + 1] = IF Ends(after[n], max) THEN PayFirst(after[n]) ELSE after[n]
      BY <1>1, <1>2, <1>4 DEF PaysByStep
  <2>2. CASE ~Ends(after[n], max)
      BY <2>1, <2>2
  <2>3. CASE Ends(after[n], max)
    <3>1. Paid(after[n + 1], max) /\ after[n].bpf < after[n + 1].bpf
        BY <2>1, <2>3, PayFirstPaid
    <3>2. after[n].bpf \in Nat /\ after[n + 1].bpf \in Nat
        BY <2>1, <3>1, IdsAreNat DEF Paid, Rewards
    <3> QED
        BY <2>1, <2>3, <3>1, <3>2
  <2> QED
      BY <2>2, <2>3
<1>5. Fine(MaxId)
  <2>1. \A n \in 0 .. MaxId : n \in D
    <3> HIDE DEF D
    <3> QED
        BY <1>1, <1>3, <1>4, BoundedInduction
  <2>2. MaxId \in 0 .. MaxId
      BY <1>1
  <2> QED
      BY <2>1, <2>2
<1>6. ~Ends(after[MaxId], max)
  <2> SUFFICES ASSUME Ends(after[MaxId], max)
               PROVE  FALSE
      OBVIOUS
  <2> DEFINE r == after[MaxId]
  <2>1. r.first # 0 /\ IsFirst(r.first, r.bpf) /\ r.bpf \in Ids /\ MaxId <= r.bpf
      BY <1>5 DEF Ends, Paid, Rewards
  <2>2. r.first \in Ids /\ r.first > r.bpf
      BY <2>1 DEF IsFirst, ActiveAt
  <2> HIDE DEF r
  <2> QED
      BY <1>1, <2>1, <2>2 DEF Ids
<1> QED
    BY <1>2, <1>5, <1>6

(***************************************************************************)
(* A payment                                                               *)
(***************************************************************************)
\* How far a payment out of max pays every claim, and what it costs.
BpfAfter(max)  == Paying(max).bpf + RestOf(Paying(max), max)
PaidAfter(max) == Paying(max).paid + RestOf(Paying(max), max) * Paying(max).active

\* No payment is stopped by the requirements in the code.  It costs no more
\* than max; one more Moon for each claim that has not ended would.
LEMMA RewardPays ==
    ASSUME QInv, NEW max \in Nat
    PROVE  /\ CanReward(max)
           /\ Paying(max) \in Rewards
           /\ BpfAfter(max) \in Ids /\ BpfAfter(max) \in Nat /\ bpf <= BpfAfter(max)
           /\ PaidAfter(max) \in Nat /\ PaidAfter(max) <= max
           /\ OwedAt(bpf) = PaidAfter(max) + OwedAt(BpfAfter(max))
           /\ Paying(max).active = ClaimsAt(BpfAfter(max))
           /\ IsFirst(Paying(max).first, BpfAfter(max))
           /\ Paying(max).first # 0 => max < PaidAfter(max) + ClaimsAt(BpfAfter(max))
           /\ Paying(max).first = 0 => BpfAfter(max) = bpf \/ fertilizer[BpfAfter(max)] > 0
<1> DEFINE r == Paying(max)
           rest == RestOf(r, max)
           b == r.bpf + rest
           x == r.paid + rest * r.active
<1>1. QueueTypes /\ Linked /\ Owing
    BY DEF QInv
<1>2. Paid(r, max) /\ ~Ends(r, max)
    BY PayingResult
<1>3. b = BpfAfter(max) /\ x = PaidAfter(max)
    BY DEF BpfAfter, PaidAfter
<1> HIDE DEF r
<1>4. /\ r \in Rewards /\ r.bpf \in Nat /\ r.bpf \in Ids /\ r.paid \in Nat /\ r.paid <= max
      /\ bpf <= r.bpf /\ r.active = ClaimsAt(r.bpf) /\ IsFirst(r.first, r.bpf)
      /\ OwedAt(bpf) = r.paid + OwedAt(r.bpf) /\ bpf \in Nat
      /\ r.bpf = bpf \/ fertilizer[r.bpf] > 0
    BY <1>1, <1>2, IdsAreNat DEF Paid, Rewards, QueueTypes
<1>5. r.active \in Nat /\ OwedAt(r.bpf) \in Nat
    BY <1>1, <1>4, OwedTypes
<1>6. CASE r.first = 0
  <2>1. ActiveAt(r.bpf) = {}
      BY <1>4, <1>6, IdsAreNat DEF IsFirst, ActiveAt
  <2>2. r.active = 0 /\ OwedAt(r.bpf) = 0
      BY <1>1, <1>4, <2>1, NoClaims
  <2>3. rest = 0 /\ b = r.bpf /\ x = r.paid
      BY <1>4, <1>6, <2>2 DEF RestOf
  <2>4. fertilizedIndex + r.paid = unfertilizedIndex
      BY <1>1, <1>4, <2>2 DEF Owing, QueueTypes
  <2>5. CanReward(max)
      BY <1>6, <2>2, <2>4 DEF CanReward, r
  <2> HIDE DEF b, x
  <2> QED
      BY <1>3, <1>4, <1>6, <2>3, <2>5 DEF r
<1>7. CASE r.first # 0
  <2>1. r.first \in ActiveAt(r.bpf) /\ \A k \in ActiveAt(r.bpf) : r.first <= k
      BY <1>4, <1>7 DEF IsFirst
  <2>2. r.active \in Nat \ {0}
      BY <1>1, <1>4, <1>5, <2>1, NoClaims
  <2>3. r.first \in Nat /\ r.first <= MaxId /\ MaxId \in Nat /\ r.first > r.bpf
      BY <2>1, FertilizerAssumption DEF ActiveAt, Ids
  <2> DEFINE m == max - r.paid
             a == r.active
  <2>4. m \in Nat /\ rest = m \div a
      BY <1>4, <1>7 DEF RestOf
  <2> HIDE DEF m, rest
  <2>5. rest \in Nat /\ a * rest <= m /\ m < a * rest + a
      BY <2>2, <2>4, DivBounds
  <2>6. b < r.first
    <3>1. ~(r.bpf + m \div a >= r.first)
        BY <1>2, <1>7, <2>2 DEF Ends, Target, m
    <3> QED
        BY <1>4, <2>3, <2>4, <2>5, <3>1
  <2>7. b \in Nat /\ r.bpf <= b /\ b \in Ids /\ bpf <= b
      BY <1>4, <2>3, <2>5, <2>6 DEF Ids
  <2>8. \A k \in ActiveAt(r.bpf) : b < k
      BY <2>1, <2>3, <2>6, <2>7, ActiveFinite
  <2>9. ActiveAt(b) = ActiveAt(r.bpf)
      BY <1>4, <2>7, <2>8, SameActive
  <2>10. ClaimsAt(b) = a /\ IsFirst(r.first, b)
      BY <1>4, <2>9 DEF ClaimsAt, IsFirst
  <2>11. OwedAt(r.bpf) = (b - r.bpf) * ClaimsAt(r.bpf) + OwedAt(b)
    <3>1. \A k \in ActiveAt(r.bpf) : b <= k
        BY <2>7, <2>8, ActiveFinite
    <3> HIDE DEF b
    <3> QED
        BY <1>1, <1>4, <2>7, <3>1, PayTogether
  <2>12. b - r.bpf = rest
      BY <1>4, <2>5
  <2> DEFINE y == rest * a
  <2>13. y \in Nat /\ y = a * rest
      BY <2>2, <2>5
  <2>14. OwedAt(r.bpf) = y + OwedAt(b) /\ OwedAt(b) \in Nat
      BY <1>1, <1>4, <2>7, <2>11, <2>12, OwedTypes
  <2>15. x = r.paid + y
      OBVIOUS
  <2> HIDE DEF y, x, b
  <2>16. x \in Nat /\ x <= max /\ max < x + a /\ OwedAt(bpf) = x + OwedAt(b)
      BY <1>4, <2>2, <2>5, <2>13, <2>14, <2>15 DEF m
  <2>17. CanReward(max)
      BY <1>7, <2>2 DEF CanReward, r
  <2> QED
      BY <1>3, <1>4, <1>7, <2>7, <2>10, <2>16, <2>17 DEF r
<1> QED
    BY <1>6, <1>7

\* What the loop pays, and where it stops.
LEMMA RewardIsPayment ==
    ASSUME QInv, NEW max \in Nat, RewardToFertilizer(max)
    PROVE  /\ bpf' = BpfAfter(max)
           /\ fertilizedIndex' = fertilizedIndex + PaidAfter(max)
           /\ fertilizer' = fertilizer
<1> DEFINE r == Paying(max)
           y == RestOf(r, max) * r.active
<1>1. /\ bpf' = BpfAfter(max)
      /\ fertilizedIndex' = (fertilizedIndex + r.paid) + y
      /\ fertilizer' = fertilizer
    BY DEF RewardToFertilizer, BpfAfter
<1>2. PaidAfter(max) = r.paid + y /\ PaidAfter(max) \in Nat /\ r \in Rewards
    BY RewardPays DEF PaidAfter
<1>3. r.paid \in Int /\ fertilizedIndex \in Nat
    BY <1>2 DEF QInv, QueueTypes, Rewards
<1>4. y \in Int
  <2>1. r.active \in Nat /\ RestOf(r, max) \in Int
    <3>1. r.active = ClaimsAt(BpfAfter(max)) /\ IsFirst(r.first, BpfAfter(max))
          /\ BpfAfter(max) \in Nat
        BY RewardPays
    <3>2. QueueTypes
        BY DEF QInv
    <3>3. r.active \in Nat
        BY <3>1, <3>2, OwedTypes
    <3>4. CASE r.first = 0
        BY <3>3, <3>4 DEF RestOf
    <3>5. CASE r.first # 0
      <4>1. ActiveAt(BpfAfter(max)) # {}
          BY <3>1, <3>5 DEF IsFirst
      <4>2. r.active > 0
          BY <3>1, <3>2, <4>1, NoClaims
      <4> HIDE DEF r
      <4>3. max - r.paid \in Int
          BY <1>3
      <4> QED
          BY <3>3, <3>5, <4>2, <4>3 DEF RestOf
    <3> QED
        BY <3>4, <3>5
  <2>2. \A m, n \in Int : m * n \in Int
      OBVIOUS
  <2> HIDE DEF r
  <2> QED
      BY <2>1, <2>2
<1> HIDE DEF r, y
<1> QED
    BY <1>1, <1>2, <1>3, <1>4

\* A payment keeps the invariant of the queue.
LEMMA RewardKeepsQueue ==
    ASSUME QInv, NEW max \in Nat, RewardToFertilizer(max), season' \in Nat,
           unfertilizedIndex' = unfertilizedIndex
    PROVE  QInv'
<1> DEFINE r == Paying(max)
           b == BpfAfter(max)
           x == PaidAfter(max)
<1>1. QueueTypes /\ Linked /\ Owing
    BY DEF QInv
<1>2. /\ bpf' = b
      /\ fFirst' = r.first /\ fLast' = IF r.first = 0 THEN 0 ELSE fLast
      /\ fertilizing' = (r.first # 0) /\ activeFertilizer' = r.active
      /\ nextFid' = nextFid /\ fertilizer' = fertilizer
    BY DEF RewardToFertilizer, BpfAfter
<1>3. /\ r \in Rewards /\ b \in Ids /\ b \in Nat /\ bpf <= b /\ x \in Nat /\ x <= max
      /\ OwedAt(bpf) = x + OwedAt(b) /\ r.active = ClaimsAt(b) /\ IsFirst(r.first, b)
    BY RewardPays
<1>5. OwedAt(b) \in Nat /\ ClaimsAt(b) \in Nat /\ bpf \in Nat
    BY <1>1, <1>3, OwedTypes, IdsAreNat DEF QueueTypes
<1> HIDE DEF r, b, x
<1>6. fertilizedIndex' = fertilizedIndex + x
    BY RewardIsPayment DEF x
<1>7. QueueTypes'
    BY <1>1, <1>2, <1>3, <1>5, <1>6, IdsAreNat DEF QueueTypes, Rewards
<1>8. /\ ActiveAt(bpf)' = ActiveAt(b) /\ ClaimsAt(bpf)' = ClaimsAt(b)
      /\ OwedAt(bpf)' = OwedAt(b)
  <2>1. ActiveAt(bpf)' = ActiveAt(b)
      BY <1>2 DEF ActiveAt
  <2>2. ClaimsAt(bpf)' = Sum([id \in ActiveAt(bpf)' |-> fertilizer'[id]])
      BY Zenon DEF ClaimsAt, Sum, Units
  <2>3. OwedAt(bpf)' = Sum([id \in ActiveAt(bpf)' |-> fertilizer'[id] * (id - bpf')])
      BY Zenon DEF OwedAt, Sum, Units
  <2> QED
      BY <1>2, <2>1, <2>2, <2>3, Zenon DEF ClaimsAt, OwedAt
<1>9. Owing'
    BY <1>1, <1>2, <1>3, <1>5, <1>6, <1>8 DEF Owing, QueueTypes
<1>10. ActiveAt(b) \subseteq ActiveAt(bpf)
  <2>1. \A id \in Ids : id > b => id > bpf
    <3>1. b \in Nat /\ bpf \in Nat /\ bpf <= b
        BY <1>3, <1>5
    <3> QED
        BY <3>1, IdsAreNat
  <2> QED
      BY <2>1 DEF ActiveAt
<1>11. r.first = 0 <=> ActiveAt(b) = {}
    BY <1>3, <1>5, ActiveFinite DEF IsFirst
<1>12. Linked'
  <2>1. fertilizing' <=> ActiveAt(bpf)' # {}
      BY <1>2, <1>8, <1>11
  <2>2. IsFirst(fFirst, bpf)'
      BY <1>2, <1>3, <1>8 DEF IsFirst
  <2>3. IsLast(fLast, bpf)'
    <3>1. CASE ActiveAt(b) = {}
        BY <1>2, <1>8, <1>11, <3>1 DEF IsLast
    <3>2. CASE ActiveAt(b) # {}
      <4>1. fLast' = fLast /\ fLast \in ActiveAt(bpf) /\ \A k \in ActiveAt(bpf) : k <= fLast
          BY <1>1, <1>2, <1>10, <1>11, <3>2 DEF Linked, IsLast
      <4>2. \A k \in ActiveAt(b) : k <= fLast
          BY <1>10, <4>1
      <4>3. fLast \in ActiveAt(b)
        <5>1. PICK k \in ActiveAt(b) : TRUE
            BY <3>2
        <5>2. k > b /\ k \in Nat /\ k <= fLast
            BY <4>2, <5>1, ActiveFinite
        <5>3. fLast \in Ids /\ fLast \in Nat /\ fertilizer[fLast] > 0
            BY <4>1, IdsAreNat DEF ActiveAt
        <5>4. fLast > b
            BY <1>3, <5>2, <5>3
        <5> QED
            BY <5>3, <5>4 DEF ActiveAt
      <4> QED
          BY <1>8, <4>1, <4>2, <4>3 DEF IsLast
    <3> QED
        BY <3>1, <3>2
  <2>4. \A id \in ActiveAt(bpf)' : IsFirst(nextFid[id], id)'
    <3>1. \A id \in ActiveAt(b) : IsFirst(nextFid[id], id)
        BY <1>1, <1>10 DEF Linked
    <3>2. \A n, id : IsFirst(n, id)' <=> IsFirst(n, id)
        BY <1>2 DEF IsFirst, ActiveAt
    <3>3. \A id : IsFirst(nextFid[id], id)' <=> IsFirst(nextFid[id], id)
        BY <1>2 DEF IsFirst, ActiveAt
    <3> QED
        BY <1>8, <3>1, <3>3
  <2>5. \A id \in Ids : fertilizer'[id] = 0 => nextFid'[id] = 0
      BY <1>1, <1>2 DEF Linked
  <2> QED
      BY <2>1, <2>2, <2>3, <2>4, <2>5 DEF Linked
<1> QED
    BY <1>7, <1>9, <1>12 DEF QInv

(***************************************************************************)
(* New Fertilizer.  The definitions above, of any supplies and links.      *)
(***************************************************************************)
ActiveIn(F, b) == {id \in Ids : id > b /\ F[id] > 0}
ClaimsIn(F, b) == Sum([id \in ActiveIn(F, b) |-> F[id]])
OwedIn(F, b)   == Sum([id \in ActiveIn(F, b) |-> F[id] * (id - b)])

FirstOf(f, A) == (A = {} /\ f = 0) \/ (f \in A /\ \A k \in A : f <= k)
LastOf(l, A)  == (A = {} /\ l = 0) \/ (l \in A /\ \A k \in A : k <= l)

LinkedIn(F, b, first, last, next) ==
    /\ FirstOf(first, ActiveIn(F, b)) /\ LastOf(last, ActiveIn(F, b))
    /\ \A id \in ActiveIn(F, b) : FirstOf(next[id], ActiveIn(F, id))
    /\ \A id \in Ids : F[id] = 0 => next[id] = 0

\* The claims, and what they have to come, as sums over all ids.
LEMMA ClaimsOverIds ==
    ASSUME NEW F \in [Ids -> Nat], NEW b \in Nat
    PROVE  /\ ClaimsIn(F, b) = Sum([k \in Ids |-> IF k > b THEN F[k] ELSE 0])
           /\ OwedIn(F, b) = Sum([k \in Ids |-> IF k > b THEN F[k] * (k - b) ELSE 0])
<1> DEFINE A == ActiveIn(F, b)
           f == [k \in Ids |-> IF k > b THEN F[k] ELSE 0]
           g == [k \in Ids |-> IF k > b THEN F[k] * (k - b) ELSE 0]
<1>1. A \in SUBSET Ids /\ \A k : k \in A <=> k \in Ids /\ k > b /\ F[k] > 0
    BY DEF ActiveIn
<1>2. IsFiniteSet(Ids)
    BY IdsAreNat
<1>3. \A k \in Ids : k > b => F[k] * (k - b) \in Nat
    <2>1. \A k \in Ids : k > b => k - b \in Nat /\ F[k] \in Nat
        BY IdsAreNat
    <2>2. \A m, n \in Nat : m * n \in Nat
        OBVIOUS
    <2> QED
        BY <2>1, <2>2
<1>4. f \in [Ids -> Nat] /\ g \in [Ids -> Nat]
    BY <1>3
<1>5. \A k \in Ids \ A : f[k] = 0
    BY <1>1
<1>6. \A k \in Ids \ A : g[k] = 0
  <2>1. ASSUME NEW k \in Ids \ A, k > b
        PROVE  F[k] * (k - b) = 0
    <3>1. F[k] = 0 /\ k - b \in Nat
        BY <1>1, <2>1, IdsAreNat
    <3>2. \A n \in Nat : 0 * n = 0
        OBVIOUS
    <3> QED
        BY <3>1, <3>2
  <2> QED
      BY <2>1
<1>7. Sum(f) = Sum([k \in A |-> f[k]])
  <2> HIDE DEF A, f
  <2>1. IsFiniteSet(Ids) /\ A \in SUBSET Ids /\ f \in [Ids -> Nat] /\ \A k \in Ids \ A : f[k] = 0
      BY <1>1, <1>2, <1>4, <1>5
  <2> QED
      BY <2>1, SumSupport
<1>8. Sum(g) = Sum([k \in A |-> g[k]])
  <2> HIDE DEF A, g
  <2>1. IsFiniteSet(Ids) /\ A \in SUBSET Ids /\ g \in [Ids -> Nat] /\ \A k \in Ids \ A : g[k] = 0
      BY <1>1, <1>2, <1>4, <1>6
  <2> QED
      BY <2>1, SumSupport
<1>9. [k \in A |-> f[k]] = [k \in A |-> F[k]]
  <2> HIDE DEF A
  <2> QED
      BY <1>1
<1>10. [k \in A |-> g[k]] = [k \in A |-> F[k] * (k - b)]
  <2> HIDE DEF A
  <2> QED
      BY <1>1
<1> QED
    BY <1>7, <1>8, <1>9, <1>10, Zenon DEF ClaimsIn, OwedIn

\* What n new claims to id do to the sums at b.
ClaimsAdded(F, b, id, n, G) ==
    /\ G \in [Ids -> Nat]
    /\ ClaimsIn(G, b) = ClaimsIn(F, b) + n
    /\ OwedIn(G, b) = OwedIn(F, b) + n * (id - b)
    /\ ClaimsIn(F, b) \in Nat /\ OwedIn(F, b) \in Nat

\* Claims to an id that has not ended add what they have to come.
LEMMA AddClaims ==
    ASSUME NEW F \in [Ids -> Nat], NEW b \in Nat, NEW id \in Ids, id > b, NEW n \in Nat,
           NEW G, G = [F EXCEPT ![id] = F[id] + n]
    PROVE  ClaimsAdded(F, b, id, n, G)
<1> DEFINE cF == [k \in Ids |-> IF k > b THEN F[k] ELSE 0]
           cG == [k \in Ids |-> IF k > b THEN G[k] ELSE 0]
           oF == [k \in Ids |-> IF k > b THEN F[k] * (k - b) ELSE 0]
           oG == [k \in Ids |-> IF k > b THEN G[k] * (k - b) ELSE 0]
           v == (F[id] + n) * (id - b)
<1>1. IsFiniteSet(Ids) /\ id \in Nat /\ id - b \in Nat /\ F[id] \in Nat
    BY IdsAreNat
<1>2. G \in [Ids -> Nat]
    BY <1>1
<1>3. cF \in [Ids -> Nat] /\ oF \in [Ids -> Nat] /\ F[id] + n \in Nat /\ v \in Nat
  <2>1. \A k \in Ids : k > b => k - b \in Nat /\ F[k] \in Nat
      BY IdsAreNat
  <2>2. \A m, k \in Nat : m * k \in Nat
      OBVIOUS
  <2> QED
      BY <1>1, <2>1, <2>2
<1>4. cG = [cF EXCEPT ![id] = F[id] + n]
    OBVIOUS
<1>5. oG = [oF EXCEPT ![id] = v]
    OBVIOUS
<1>6. Sum(cG) = Sum(cF) - cF[id] + (F[id] + n)
  <2> HIDE DEF cF, cG
  <2> QED
      BY <1>1, <1>3, <1>4, SumUpdate, ZenonT(60)
<1>7. Sum(oG) = Sum(oF) - oF[id] + v
  <2> HIDE DEF oF, oG, v
  <2> QED
      BY <1>1, <1>3, <1>5, SumUpdate, ZenonT(60)
<1>8. cF[id] = F[id] /\ oF[id] = F[id] * (id - b)
    OBVIOUS
<1>9. v = F[id] * (id - b) + n * (id - b)
  <2>1. \A x, y, z \in Nat : (x + y) * z = x * z + y * z
      OBVIOUS
  <2> QED
      BY <1>1, <2>1
<1>10. Sum(cF) \in Nat /\ Sum(oF) \in Nat
  <2>1. IsFiniteSet(DOMAIN cF) /\ \A x \in DOMAIN cF : cF[x] \in Nat
    <3>1. DOMAIN cF = Ids
        OBVIOUS
    <3> HIDE DEF cF
    <3> QED
        BY <1>1, <1>3, <3>1
  <2>2. IsFiniteSet(DOMAIN oF) /\ \A x \in DOMAIN oF : oF[x] \in Nat
    <3>1. DOMAIN oF = Ids
        OBVIOUS
    <3> HIDE DEF oF
    <3> QED
        BY <1>1, <1>3, <3>1
  <2> HIDE DEF cF, oF
  <2> QED
      BY <2>1, <2>2, SumType
<1>11. /\ ClaimsIn(F, b) = Sum(cF) /\ OwedIn(F, b) = Sum(oF)
       /\ ClaimsIn(G, b) = Sum(cG) /\ OwedIn(G, b) = Sum(oG)
    BY <1>2, ClaimsOverIds, Zenon
<1> DEFINE x == F[id] * (id - b)
           y == n * (id - b)
<1>12. x \in Nat /\ y \in Nat
    BY <1>1
<1> HIDE DEF cF, cG, oF, oG, v, x, y
<1>13. Sum(cG) = Sum(cF) + n
    BY <1>1, <1>6, <1>8, <1>10
<1>14. Sum(oG) = Sum(oF) + y
    BY <1>7, <1>8, <1>9, <1>10, <1>12 DEF x, y
<1> QED
    BY <1>2, <1>10, <1>11, <1>13, <1>14 DEF y, ClaimsAdded

\* What the four cases of a push have in common: an id without Fertilizer gets
\* some, in a queue that is linked.
NewIn(F, b, first, last, next, id, G) ==
    /\ F \in [Ids -> Nat] /\ b \in Nat /\ next \in [Ids -> Ids]
    /\ LinkedIn(F, b, first, last, next)
    /\ id \in Ids /\ id > b /\ F[id] = 0
    /\ \E n \in Nat \ {0} : G = [F EXCEPT ![id] = F[id] + n]

\* Which ids are active at c, before and after.
JoinedAt(F, id, G, c) ==
    /\ ActiveIn(F, c) \subseteq Ids /\ ActiveIn(G, c) \subseteq Ids
    /\ \A k \in Ids : k \in ActiveIn(F, c) <=> k > c /\ F[k] # 0
    /\ \A k \in Ids : k \in ActiveIn(G, c) <=> k > c /\ (F[k] # 0 \/ k = id)

Known(F, next, id, G) ==
    /\ \A c : JoinedAt(F, id, G, c)
    /\ \A k \in Ids : G[k] = 0 => next[k] = 0 /\ k # id
    /\ id \in Nat /\ next[id] = 0 /\ \A k \in Ids : F[k] # 0 => G[k] # 0

\* The new id joins those that end later than it begins.
LEMMA NewFacts ==
    ASSUME NEW F, NEW b, NEW first, NEW last, NEW next, NEW id, NEW G,
           NewIn(F, b, first, last, next, id, G)
    PROVE  Known(F, next, id, G)
<1>1. /\ F \in [Ids -> Nat] /\ id \in Ids /\ F[id] = 0
      /\ \E n \in Nat \ {0} : G = [F EXCEPT ![id] = F[id] + n]
      /\ \A k \in Ids : F[k] = 0 => next[k] = 0
    BY DEF NewIn, LinkedIn
<1>2. PICK n \in Nat \ {0} : G = [F EXCEPT ![id] = F[id] + n]
    BY <1>1
<1>3. /\ \A k \in Ids : F[k] \in Nat
      /\ G[id] \in Nat \ {0} /\ \A k \in Ids : k # id => G[k] = F[k]
    BY <1>1, <1>2
<1>4. \A k \in Ids : (G[k] > 0 <=> F[k] # 0 \/ k = id) /\ (F[k] > 0 <=> F[k] # 0)
    BY <1>1, <1>3
<1>5. /\ \A k \in Ids : G[k] = 0 => next[k] = 0 /\ k # id
      /\ \A k \in Ids : F[k] # 0 => G[k] # 0
    BY <1>1, <1>3
<1>6. \A c : JoinedAt(F, id, G, c)
    BY <1>4 DEF ActiveIn, JoinedAt
<1> QED
    BY <1>1, <1>5, <1>6, IdsAreNat, Zenon DEF Known

\* Into an empty queue.
LEMMA PushOnly ==
    ASSUME NEW F, NEW b, NEW first, NEW last, NEW next, NEW id, NEW G,
           NewIn(F, b, first, last, next, id, G), ActiveIn(F, b) = {}
    PROVE  LinkedIn(G, b, id, id, next)
<1>0. Known(F, next, id, G)
    BY NewFacts
<1>1. /\ JoinedAt(F, id, G, b) /\ JoinedAt(F, id, G, id)
      /\ \A k \in Ids : G[k] = 0 => next[k] = 0 /\ k # id
      /\ id \in Nat /\ next[id] = 0
    BY <1>0, Zenon DEF Known
<1>2. b \in Nat /\ id \in Ids /\ id > b
    BY DEF NewIn
<1>3. \A k \in Ids : k > id => k > b
    BY <1>1, <1>2, IdsAreNat
<1>4. ActiveIn(G, b) = {id}
    BY <1>1, <1>2 DEF JoinedAt
<1>5. ActiveIn(G, id) = {}
  <2>1. ~(id > id)
      BY <1>1
  <2>2. \A k \in Ids : k \in ActiveIn(G, id) => k \in ActiveIn(F, b)
      BY <1>1, <1>2, <1>3, <2>1 DEF JoinedAt
  <2>3. ActiveIn(G, id) \subseteq Ids
      BY <1>1 DEF JoinedAt
  <2> QED
      BY <2>2, <2>3
<1> QED
    BY <1>1, <1>4, <1>5 DEF LinkedIn, FirstOf, LastOf

\* Before the first id.
LEMMA PushFront ==
    ASSUME NEW F, NEW b, NEW first, NEW last, NEW next, NEW id, NEW G,
           NewIn(F, b, first, last, next, id, G), ActiveIn(F, b) # {}, id <= first
    PROVE  LinkedIn(G, b, id, last, [next EXCEPT ![id] = first])
<1> DEFINE new == [next EXCEPT ![id] = first]
<1>0. Known(F, next, id, G)
    BY NewFacts
<1>1. /\ \A c : JoinedAt(F, id, G, c)
      /\ \A k \in Ids : G[k] = 0 => next[k] = 0 /\ k # id
      /\ id \in Nat /\ next[id] = 0
    BY <1>0, Zenon DEF Known
<1>2. b \in Nat /\ id \in Ids /\ id > b /\ F[id] = 0 /\ next \in [Ids -> Ids]
    BY DEF NewIn
<1>3. /\ first \in ActiveIn(F, b) /\ \A k \in ActiveIn(F, b) : first <= k
      /\ last \in ActiveIn(F, b) /\ \A k \in ActiveIn(F, b) : k <= last
      /\ \A k \in ActiveIn(F, b) : FirstOf(next[k], ActiveIn(F, k))
    BY DEF NewIn, LinkedIn, FirstOf, LastOf
<1>4. JoinedAt(F, id, G, b) /\ JoinedAt(F, id, G, id)
    BY <1>1
<1>5. /\ first \in Ids /\ last \in Ids /\ first \in Nat /\ last \in Nat
      /\ id < first /\ id < last
  <2>1. first \in Ids /\ last \in Ids /\ F[first] # 0
      BY <1>3, <1>4 DEF JoinedAt
  <2>2. first \in Nat /\ last \in Nat
      BY <2>1, IdsAreNat
  <2>3. id # first /\ id <= first /\ first <= last
      BY <1>2, <1>3, <2>1
  <2> QED
      BY <1>1, <2>1, <2>2, <2>3
<1>6. new[id] = first /\ \A k \in Ids : k # id => new[k] = next[k]
    BY <1>2
<1> HIDE DEF new
<1>7. ActiveIn(G, b) = ActiveIn(F, b) \union {id}
    BY <1>2, <1>4 DEF JoinedAt
<1>8. \A k \in ActiveIn(F, b) : k \in Ids /\ k \in Nat /\ k > id /\ k # id
  <2>1. \A k \in ActiveIn(F, b) : k \in Ids /\ k \in Nat /\ first <= k
      BY <1>3, <1>4, IdsAreNat DEF JoinedAt
  <2> QED
      BY <1>1, <1>5, <2>1
<1>9. FirstOf(id, ActiveIn(G, b)) /\ LastOf(last, ActiveIn(G, b))
    BY <1>1, <1>3, <1>5, <1>7, <1>8 DEF FirstOf, LastOf
<1>10. ASSUME NEW k \in ActiveIn(F, b)
       PROVE  FirstOf(new[k], ActiveIn(G, k))
  <2>1. JoinedAt(F, id, G, k) /\ k \in Ids /\ k \in Nat /\ k > id
      BY <1>1, <1>8
  <2>2. ActiveIn(G, k) = ActiveIn(F, k)
    <3>1. ~(id > k)
        BY <1>1, <2>1
    <3> QED
        BY <2>1, <3>1 DEF JoinedAt
  <2> QED
      BY <1>3, <1>6, <1>8, <2>2
<1>11. ActiveIn(F, id) = ActiveIn(F, b) /\ ActiveIn(G, id) = ActiveIn(F, id)
  <2>1. ActiveIn(G, id) = ActiveIn(F, id)
    <3>1. ~(id > id)
        BY <1>1
    <3>2. JoinedAt(F, id, G, id)
        BY <1>4
    <3> QED
        BY <3>1, <3>2 DEF JoinedAt
  <2>2. \A k \in Ids : k > id => k > b
      BY <1>1, <1>2, IdsAreNat
  <2>3. ActiveIn(F, id) \subseteq ActiveIn(F, b)
      BY <1>4, <2>2 DEF JoinedAt
  <2>4. ActiveIn(F, b) \subseteq ActiveIn(F, id)
      BY <1>4, <1>8 DEF JoinedAt
  <2> QED
      BY <2>1, <2>3, <2>4
<1>12. FirstOf(new[id], ActiveIn(G, id))
    BY <1>3, <1>6, <1>11 DEF FirstOf
<1>13. \A k \in Ids : G[k] = 0 => new[k] = 0
    BY <1>1, <1>6
<1> QED
    BY <1>7, <1>9, <1>10, <1>12, <1>13 DEF LinkedIn, new

\* After the last id.
LEMMA PushBack ==
    ASSUME NEW F, NEW b, NEW first, NEW last, NEW next, NEW id, NEW G,
           NewIn(F, b, first, last, next, id, G), ActiveIn(F, b) # {}, id >= last
    PROVE  LinkedIn(G, b, first, id, [next EXCEPT ![last] = id])
<1> DEFINE new == [next EXCEPT ![last] = id]
<1>0. Known(F, next, id, G)
    BY NewFacts
<1>1. /\ \A c : JoinedAt(F, id, G, c)
      /\ \A k \in Ids : G[k] = 0 => next[k] = 0 /\ k # id
      /\ id \in Nat /\ next[id] = 0
    BY <1>0, Zenon DEF Known
<1>2. b \in Nat /\ id \in Ids /\ id > b /\ F[id] = 0 /\ next \in [Ids -> Ids]
    BY DEF NewIn
<1>3. /\ first \in ActiveIn(F, b) /\ \A k \in ActiveIn(F, b) : first <= k
      /\ last \in ActiveIn(F, b) /\ \A k \in ActiveIn(F, b) : k <= last
      /\ \A k \in ActiveIn(F, b) : FirstOf(next[k], ActiveIn(F, k))
    BY DEF NewIn, LinkedIn, FirstOf, LastOf
<1>4. JoinedAt(F, id, G, b) /\ JoinedAt(F, id, G, id) /\ JoinedAt(F, id, G, last)
    BY <1>1
<1>5. /\ first \in Ids /\ last \in Ids /\ first \in Nat /\ last \in Nat
      /\ last < id /\ first < id /\ last > b /\ F[last] # 0
  <2>1. first \in Ids /\ last \in Ids /\ F[last] # 0 /\ last > b
      BY <1>3, <1>4 DEF JoinedAt
  <2>2. first \in Nat /\ last \in Nat
      BY <2>1, IdsAreNat
  <2>3. id # last /\ id >= last /\ first <= last
      BY <1>2, <1>3, <2>1
  <2> QED
      BY <1>1, <2>1, <2>2, <2>3
<1>6. new[last] = id /\ \A k \in Ids : k # last => new[k] = next[k]
    BY <1>2, <1>5
<1> HIDE DEF new
<1>7. ActiveIn(G, b) = ActiveIn(F, b) \union {id}
    BY <1>2, <1>4 DEF JoinedAt
<1>8. \A k \in ActiveIn(F, b) : k \in Ids /\ k \in Nat /\ k < id /\ k <= last
  <2>1. \A k \in ActiveIn(F, b) : k \in Ids /\ k \in Nat /\ k <= last
      BY <1>3, <1>4, IdsAreNat DEF JoinedAt
  <2> QED
      BY <1>1, <1>5, <2>1
<1>9. FirstOf(first, ActiveIn(G, b)) /\ LastOf(id, ActiveIn(G, b))
    BY <1>1, <1>3, <1>5, <1>7, <1>8 DEF FirstOf, LastOf
<1>10. ActiveIn(F, last) = {} /\ ActiveIn(F, id) = {}
  <2>1. \A k \in Ids : (k > last => k > b) /\ (k > id => k > b /\ k > last)
      BY <1>1, <1>2, <1>5, IdsAreNat
  <2>2. \A k \in Ids : F[k] # 0 /\ k > b => ~(k > last)
      BY <1>4, <1>5, <1>8 DEF JoinedAt
  <2>3. \A k \in Ids : ~(k \in ActiveIn(F, last)) /\ ~(k \in ActiveIn(F, id))
      BY <1>4, <2>1, <2>2 DEF JoinedAt
  <2>4. ActiveIn(F, last) \subseteq Ids /\ ActiveIn(F, id) \subseteq Ids
      BY <1>4 DEF JoinedAt
  <2> QED
      BY <2>3, <2>4
<1>11. ActiveIn(G, last) = {id} /\ ActiveIn(G, id) = {}
  <2>1. ~(id > id) /\ id > last
      BY <1>1, <1>5
  <2>2. \A k \in Ids : k \in ActiveIn(G, last) <=> k = id
      BY <1>4, <1>10, <2>1 DEF JoinedAt
  <2>3. \A k \in Ids : ~(k \in ActiveIn(G, id))
      BY <1>4, <1>10, <2>1 DEF JoinedAt
  <2>4. ActiveIn(G, last) \subseteq Ids /\ ActiveIn(G, id) \subseteq Ids
      BY <1>4 DEF JoinedAt
  <2> QED
      BY <1>2, <2>2, <2>3, <2>4
<1>12. FirstOf(new[last], ActiveIn(G, last)) /\ FirstOf(new[id], ActiveIn(G, id))
    BY <1>1, <1>2, <1>5, <1>6, <1>11 DEF FirstOf
<1>13. ASSUME NEW k \in ActiveIn(F, b), k # last
       PROVE  FirstOf(new[k], ActiveIn(G, k))
  <2>1. k \in Ids /\ k \in Nat /\ k < last /\ k < id /\ JoinedAt(F, id, G, k)
      BY <1>1, <1>5, <1>8, <1>13
  <2>2. last \in ActiveIn(F, k)
      BY <1>5, <2>1 DEF JoinedAt
  <2>3. ActiveIn(G, k) = ActiveIn(F, k) \union {id}
      BY <1>1, <1>2, <2>1 DEF JoinedAt
  <2>4. /\ next[k] \in ActiveIn(F, k) /\ \A j \in ActiveIn(F, k) : next[k] <= j
        /\ next[k] \in Nat
      BY <1>2, <1>3, <2>1, <2>2, IdsAreNat DEF FirstOf
  <2>5. next[k] <= last
      BY <2>2, <2>4
  <2>6. next[k] <= id
      BY <1>1, <1>5, <2>4, <2>5
  <2> QED
      BY <1>6, <1>13, <2>1, <2>3, <2>4, <2>6 DEF FirstOf
<1>14. \A k \in Ids : G[k] = 0 => new[k] = 0
  <2>1. G[last] # 0
      BY <1>0, <1>5 DEF Known
  <2> QED
      BY <1>1, <1>6, <2>1
<1> QED
    BY <1>7, <1>9, <1>12, <1>13, <1>14 DEF LinkedIn, new

\* Between two ids: the place is where the search ends.
LEMMA PushBetween ==
    ASSUME NEW F, NEW b, NEW first, NEW last, NEW next, NEW id, NEW G,
           NewIn(F, b, first, last, next, id, G), ActiveIn(F, b) # {},
           id > first, id < last,
           NEW p \in Ids, F[p] > 0, p >= first, p < id, id <= next[p]
    PROVE  LinkedIn(G, b, first, last, [next EXCEPT ![p] = id, ![id] = next[p]])
<1> DEFINE new == [next EXCEPT ![p] = id, ![id] = next[p]]
<1>0. Known(F, next, id, G)
    BY NewFacts
<1>1. /\ \A c : JoinedAt(F, id, G, c)
      /\ \A k \in Ids : G[k] = 0 => next[k] = 0 /\ k # id
      /\ id \in Nat /\ next[id] = 0
    BY <1>0, Zenon DEF Known
<1>2. b \in Nat /\ id \in Ids /\ id > b /\ F[id] = 0 /\ next \in [Ids -> Ids]
    BY DEF NewIn
<1>3. /\ first \in ActiveIn(F, b) /\ \A k \in ActiveIn(F, b) : first <= k
      /\ last \in ActiveIn(F, b) /\ \A k \in ActiveIn(F, b) : k <= last
      /\ \A k \in ActiveIn(F, b) : FirstOf(next[k], ActiveIn(F, k))
    BY DEF NewIn, LinkedIn, FirstOf, LastOf
<1>4. JoinedAt(F, id, G, b) /\ JoinedAt(F, id, G, id) /\ JoinedAt(F, id, G, p)
    BY <1>1
<1>5. /\ first \in Nat /\ last \in Nat /\ last \in Ids /\ p \in Nat /\ F[last] # 0 /\ F[p] # 0
      /\ first > b /\ p > b
  <2>1. first \in Ids /\ last \in Ids /\ F[last] # 0 /\ first > b
      BY <1>3, <1>4 DEF JoinedAt
  <2>2. first \in Nat /\ last \in Nat /\ p \in Nat
      BY <2>1, IdsAreNat
  <2>3. F[p] # 0
      OBVIOUS
  <2>4. p > b
      BY <1>2, <2>1, <2>2
  <2> QED
      BY <2>1, <2>2, <2>3, <2>4
<1>6. p \in ActiveIn(F, b) /\ last \in ActiveIn(F, p)
  <2>1. last > p
      BY <1>1, <1>5
  <2> QED
      BY <1>4, <1>5, <2>1 DEF JoinedAt
<1>7. /\ next[p] \in ActiveIn(F, p) /\ \A k \in ActiveIn(F, p) : next[p] <= k
      /\ next[p] \in Nat /\ next[p] \in Ids /\ F[next[p]] # 0 /\ next[p] > p /\ id < next[p]
  <2>1. next[p] \in ActiveIn(F, p) /\ \A k \in ActiveIn(F, p) : next[p] <= k
      BY <1>3, <1>6 DEF FirstOf
  <2>2. next[p] \in Ids /\ F[next[p]] # 0 /\ next[p] > p
      BY <1>4, <2>1 DEF JoinedAt
  <2>3. next[p] # id /\ next[p] \in Nat
      BY <1>2, <2>2, IdsAreNat
  <2> QED
      BY <1>1, <2>1, <2>2, <2>3
<1>8. /\ new[p] = id /\ new[id] = next[p]
      /\ \A k \in Ids : k # p /\ k # id => new[k] = next[k]
    BY <1>2, <1>5
<1> HIDE DEF new
<1>9. ActiveIn(G, b) = ActiveIn(F, b) \union {id}
    BY <1>2, <1>4 DEF JoinedAt
<1>10. \A k \in ActiveIn(F, b) : k \in Ids /\ k \in Nat /\ F[k] # 0 /\ k # id
    BY <1>2, <1>4, IdsAreNat DEF JoinedAt
<1>11. FirstOf(first, ActiveIn(G, b)) /\ LastOf(last, ActiveIn(G, b))
  <2>1. first <= id /\ id <= last
      BY <1>1, <1>5
  <2> QED
      BY <1>3, <1>9, <2>1 DEF FirstOf, LastOf
<1>12. \A k \in ActiveIn(F, p) : id < k
  <2>1. \A k \in ActiveIn(F, p) : k \in Nat /\ next[p] <= k
      BY <1>4, <1>7, IdsAreNat DEF JoinedAt
  <2> QED
      BY <1>1, <1>7, <2>1
<1>13. FirstOf(new[p], ActiveIn(G, p))
  <2>1. id > p
      BY <1>1, <1>5
  <2>2. ActiveIn(G, p) = ActiveIn(F, p) \union {id}
      BY <1>2, <1>4, <2>1 DEF JoinedAt
  <2>3. \A k \in ActiveIn(F, p) : id <= k
    <3>1. \A k \in ActiveIn(F, p) : k \in Nat
        BY <1>4, IdsAreNat DEF JoinedAt
    <3> QED
        BY <1>1, <1>12, <3>1
  <2>4. id <= id
      BY <1>1
  <2> QED
      BY <1>8, <2>2, <2>3, <2>4 DEF FirstOf
<1>14. FirstOf(new[id], ActiveIn(G, id))
  <2>1. ~(id > id) /\ next[p] > id /\ \A k \in Ids : k > id => k > p
      BY <1>1, <1>5, <1>7, IdsAreNat
  <2>2. next[p] \in ActiveIn(G, id)
      BY <1>4, <1>7, <2>1 DEF JoinedAt
  <2>3. \A k \in ActiveIn(G, id) : k \in ActiveIn(F, p)
      BY <1>4, <2>1 DEF JoinedAt
  <2> QED
      BY <1>7, <1>8, <2>2, <2>3 DEF FirstOf
<1>15. ASSUME NEW k \in ActiveIn(F, b), k # p
       PROVE  FirstOf(new[k], ActiveIn(G, k))
  <2>1. k \in Ids /\ k \in Nat /\ F[k] # 0 /\ k # id /\ JoinedAt(F, id, G, k)
        /\ new[k] = next[k]
      BY <1>1, <1>8, <1>10, <1>15
  <2>2. CASE k > id
    <3>1. ~(id > k)
        BY <1>1, <2>1, <2>2
    <3>2. ActiveIn(G, k) = ActiveIn(F, k)
        BY <2>1, <3>1 DEF JoinedAt
    <3> QED
        BY <1>3, <2>1, <3>2
  <2>3. CASE k < id
    <3>1. k < p
      <4>1. ASSUME k > p
            PROVE  FALSE
        <5>1. k \in ActiveIn(F, p)
            BY <1>4, <2>1, <4>1 DEF JoinedAt
        <5>2. id < k
            BY <1>12, <5>1
        <5> QED
            BY <1>1, <2>1, <2>3, <5>2
      <4> QED
          BY <1>5, <1>15, <2>1, <4>1
    <3>2. p > k /\ id > k
        BY <1>1, <1>5, <2>1, <2>3, <3>1
    <3>3. p \in ActiveIn(F, k)
        BY <1>5, <2>1, <3>2 DEF JoinedAt
    <3>4. /\ next[k] \in ActiveIn(F, k) /\ \A j \in ActiveIn(F, k) : next[k] <= j
          /\ next[k] \in Nat
        BY <1>2, <1>3, <2>1, <3>3, IdsAreNat DEF FirstOf
    <3>5. next[k] <= id
      <4>1. next[k] <= p
          BY <3>3, <3>4
      <4> QED
          BY <1>1, <1>5, <3>4, <4>1
    <3>6. ActiveIn(G, k) = ActiveIn(F, k) \union {id}
        BY <1>2, <2>1, <3>2 DEF JoinedAt
    <3> QED
        BY <2>1, <3>4, <3>5, <3>6 DEF FirstOf
  <2> QED
      BY <1>1, <2>1, <2>2, <2>3
<1>16. \A k \in Ids : G[k] = 0 => new[k] = 0
  <2>1. G[p] # 0
      BY <1>0, <1>5 DEF Known
  <2> QED
      BY <1>1, <1>8, <2>1
<1> QED
    BY <1>9, <1>11, <1>13, <1>14, <1>15, <1>16 DEF LinkedIn, new

\* The search finds a place: after the greatest id that is smaller.
LEMMA PlaceExists ==
    ASSUME NEW F \in [Ids -> Nat], NEW b \in Nat, NEW first, NEW last, NEW next, NEW id \in Ids,
           LinkedIn(F, b, first, last, next), ActiveIn(F, b) # {},
           id > first, id < last, F[id] = 0
    PROVE  \E p \in Ids : F[p] > 0 /\ p >= first /\ p < id /\ id <= next[p]
<1> DEFINE A == ActiveIn(F, b)
           Below == {k \in A : k < id}
           T == {MaxId - k : k \in Below}
<1>1. /\ A \subseteq Ids
      /\ \A k \in Ids : k \in Nat /\ k <= MaxId /\ F[k] \in Nat /\ (k \in A <=> k > b /\ F[k] > 0)
    BY FertilizerAssumption DEF ActiveIn, Ids
<1>2. MaxId \in Nat
    BY FertilizerAssumption
<1>3. /\ first \in A /\ \A k \in A : first <= k
      /\ last \in A
      /\ \A k \in A : FirstOf(next[k], ActiveIn(F, k))
    BY DEF LinkedIn, FirstOf, LastOf
<1>4. first \in Below
  <2>1. first \in Nat
      BY <1>1, <1>3
  <2> QED
      BY <1>1, <1>3, <2>1
<1>5. T \subseteq Nat /\ T # {}
  <2>1. ASSUME NEW k \in Below
        PROVE  MaxId - k \in Nat
    <3>1. k \in Nat /\ k <= MaxId
        BY <1>1
    <3> QED
        BY <1>2, <3>1
  <2> QED
      BY <1>4, <2>1
<1>6. PICK t \in T : \A m \in T : t <= m
  <2> HIDE DEF T
  <2> QED
      BY <1>5, LeastNatural
<1>7. PICK p \in Below : t = MaxId - p
    OBVIOUS
<1>8. \A k \in Below : k <= p
  <2> SUFFICES ASSUME NEW k \in Below
               PROVE  k <= p
      OBVIOUS
  <2>1. k \in Nat /\ p \in Nat /\ MaxId - p <= MaxId - k
      BY <1>1, <1>6, <1>7
  <2> QED
      BY <1>2, <2>1
<1>9. p \in A /\ p \in Ids /\ p < id /\ p \in Nat /\ F[p] > 0 /\ p >= first /\ first \in Nat
    BY <1>1, <1>3
<1>10. last \in ActiveIn(F, p)
  <2>1. last \in Ids /\ last \in Nat /\ F[last] > 0
      BY <1>1, <1>3
  <2>2. last > p
      BY <1>1, <1>9, <2>1
  <2> QED
      BY <2>1, <2>2 DEF ActiveIn
<1>11. next[p] \in ActiveIn(F, p)
    BY <1>3, <1>9, <1>10 DEF FirstOf
<1>12. next[p] \in Ids /\ next[p] \in Nat /\ next[p] > p /\ F[next[p]] > 0
    BY <1>1, <1>11 DEF ActiveIn
<1>13. next[p] \in A
  <2>1. next[p] > b
      BY <1>1, <1>9, <1>12
  <2> QED
      BY <1>1, <1>12, <2>1
<1>14. id <= next[p]
  <2>1. ~(next[p] < id)
    <3> SUFFICES ASSUME next[p] < id
                 PROVE  FALSE
        OBVIOUS
    <3>1. next[p] \in Below
        BY <1>13
    <3>2. next[p] <= p
        BY <1>8, <3>1
    <3> QED
        BY <1>9, <1>12, <3>2
  <2> QED
      BY <1>1, <1>12, <2>1
<1> QED
    BY <1>9, <1>14

\* Every Fertilizer has some Moons to come.
LEMMA BpfType ==
    ASSUME NEW s \in Nat, HasHumidity(s)
    PROVE  Bpf(s) \in Nat \ {0}
<1>1. /\ Humidity0 \in Nat /\ EndHumidity \in Nat /\ RestartHumidity \in Nat
      /\ HumidityBase \in Nat \ {0} /\ ReplantSeason \in Nat /\ HumidityDecrease \in Nat
      /\ EndDecreaseSeason \in Nat
    BY FertilizerAssumption
<1> DEFINE d == (s - ReplantSeason) * HumidityDecrease
<1>2. CASE s = 0
    BY <1>1, <1>2 DEF Bpf, Humidity
<1>3. CASE s # 0 /\ s >= EndDecreaseSeason
    BY <1>1, <1>3 DEF Bpf, Humidity
<1>4. CASE s # 0 /\ ~(s >= EndDecreaseSeason)
  <2>1. s >= ReplantSeason /\ d <= RestartHumidity
      BY <1>4 DEF HasHumidity
  <2>2. s - ReplantSeason \in Nat
      BY <1>1, <2>1
  <2>3. d \in Nat
    <3>1. \A x, y \in Nat : x * y \in Nat
        OBVIOUS
    <3> QED
        BY <1>1, <2>2, <3>1
  <2>4. Humidity(s) = RestartHumidity - d
      BY <1>4 DEF Humidity
  <2> HIDE DEF d
  <2> QED
      BY <1>1, <2>1, <2>3, <2>4 DEF Bpf
<1> QED
    BY <1>2, <1>3, <1>4

\* The two ways to write the invariant.
LEMMA QueueForms ==
    /\ Linked <=> /\ fertilizing <=> ActiveIn(fertilizer, bpf) # {}
                  /\ LinkedIn(fertilizer, bpf, fFirst, fLast, nextFid)
    /\ Owing <=> /\ activeFertilizer = ClaimsIn(fertilizer, bpf)
                 /\ unfertilizedIndex = fertilizedIndex + OwedIn(fertilizer, bpf)
<1>1. /\ ActiveAt(bpf) = ActiveIn(fertilizer, bpf)
      /\ \A id : ActiveAt(id) = ActiveIn(fertilizer, id)
      /\ ClaimsAt(bpf) = ClaimsIn(fertilizer, bpf) /\ OwedAt(bpf) = OwedIn(fertilizer, bpf)
    BY DEF ActiveAt, ActiveIn, ClaimsAt, ClaimsIn, OwedAt, OwedIn
<1>2. /\ \A f, b : IsFirst(f, b) <=> FirstOf(f, ActiveIn(fertilizer, b))
      /\ \A l, b : IsLast(l, b) <=> LastOf(l, ActiveIn(fertilizer, b))
    BY <1>1 DEF IsFirst, IsLast, FirstOf, LastOf
<1> QED
    BY <1>1, <1>2, Zenon DEF Linked, Owing, LinkedIn

\* Wherever the new id comes into the queue, the queue stays linked.
LEMMA PushKeepsLinks ==
    ASSUME QInv, NEW id \in Ids, id > bpf, fertilizer[id] = 0, NEW n \in Nat \ {0},
           fertilizer' = [fertilizer EXCEPT ![id] = fertilizer[id] + n],
           bpf' = bpf, Push(id)
    PROVE  /\ LinkedIn(fertilizer', bpf', fFirst', fLast', nextFid')
           /\ fertilizing' = TRUE
           /\ fFirst' \in Ids /\ fLast' \in Ids /\ nextFid' \in [Ids -> Ids]
<1> DEFINE A == ActiveIn(fertilizer, bpf)
<1>1. /\ QueueTypes /\ LinkedIn(fertilizer, bpf, fFirst, fLast, nextFid)
      /\ fertilizing <=> A # {}
    BY QueueForms DEF QInv
<1>2. /\ fertilizer \in [Ids -> Nat] /\ bpf \in Nat /\ nextFid \in [Ids -> Ids]
      /\ fFirst \in Ids /\ fLast \in Ids /\ fertilizing \in BOOLEAN
    BY <1>1, IdsAreNat DEF QueueTypes
<1>3. NewIn(fertilizer, bpf, fFirst, fLast, nextFid, id, fertilizer')
    BY <1>1, <1>2 DEF NewIn
<1>4. fFirst = 0 <=> A = {}
  <2>1. FirstOf(fFirst, A)
      BY <1>1 DEF LinkedIn
  <2>2. 0 \notin A
    <3>1. \A k \in A : k > bpf
        BY DEF ActiveIn
    <3> HIDE DEF A
    <3> QED
        BY <1>2, <3>1
  <2> HIDE DEF A
  <2> QED
      BY <2>1, <2>2 DEF FirstOf
<1>5. CASE /\ fFirst = 0
           /\ fFirst' = id /\ fLast' = id /\ fertilizing' = TRUE
           /\ UNCHANGED nextFid
  <2>1. LinkedIn(fertilizer', bpf, id, id, nextFid)
      BY <1>3, <1>4, <1>5, PushOnly
  <2> QED
      BY <1>2, <1>5, <2>1
<1>6. CASE /\ fFirst # 0 /\ id <= fFirst
           /\ nextFid' = [nextFid EXCEPT ![id] = fFirst]
           /\ fFirst' = id
           /\ UNCHANGED <<fLast, fertilizing>>
  <2>1. LinkedIn(fertilizer', bpf, id, fLast, [nextFid EXCEPT ![id] = fFirst])
      BY <1>3, <1>4, <1>6, PushFront
  <2>2. fertilizing' = TRUE
      BY <1>1, <1>2, <1>4, <1>6
  <2> QED
      BY <1>2, <1>6, <2>1, <2>2
<1>7. CASE /\ fFirst # 0 /\ id > fFirst /\ id >= fLast
           /\ nextFid' = [nextFid EXCEPT ![fLast] = id]
           /\ fLast' = id
           /\ UNCHANGED <<fFirst, fertilizing>>
  <2>1. LinkedIn(fertilizer', bpf, fFirst, id, [nextFid EXCEPT ![fLast] = id])
      BY <1>3, <1>4, <1>7, PushBack
  <2>2. fertilizing' = TRUE
      BY <1>1, <1>2, <1>4, <1>7
  <2> QED
      BY <1>2, <1>7, <2>1, <2>2
<1>8. CASE /\ fFirst # 0 /\ id > fFirst /\ id < fLast
           /\ LinkIn(id)
           /\ UNCHANGED <<fFirst, fLast, fertilizing>>
  <2> DEFINE p == PlaceOf(id)
  <2>1. \E k \in Ids : fertilizer[k] > 0 /\ k >= fFirst /\ k < id /\ id <= nextFid[k]
      BY <1>1, <1>2, <1>4, <1>8, PlaceExists
  <2>2. p \in Ids /\ fertilizer[p] > 0 /\ p >= fFirst /\ p < id /\ id <= nextFid[p]
      BY <2>1, Zenon DEF PlaceOf
  <2>3. nextFid' = [nextFid EXCEPT ![p] = id, ![id] = nextFid[p]]
      BY <1>8 DEF LinkIn
  <2> HIDE DEF p
  <2>4. LinkedIn(fertilizer', bpf, fFirst, fLast,
                 [nextFid EXCEPT ![p] = id, ![id] = nextFid[p]])
      BY <1>3, <1>4, <1>8, <2>2, PushBetween
  <2>5. fertilizing' = TRUE
      BY <1>1, <1>2, <1>4, <1>8
  <2>6. nextFid' \in [Ids -> Ids]
      BY <1>2, <2>2, <2>3
  <2> QED
      BY <1>2, <1>8, <2>3, <2>4, <2>5, <2>6
<1> QED
    BY <1>5, <1>6, <1>7, <1>8 DEF Push

\* New Fertilizer keeps the invariant of the queue.
LEMMA AddKeepsQueue ==
    ASSUME QInv, NEW s \in Nat, NEW n \in Nat, NEW newLP, AddFertilizer(s, n, newLP)
    PROVE  QInv'
<1> DEFINE id == bpf + Bpf(s)
           F == fertilizer
<1>1. QueueTypes /\ Linked /\ Owing
    BY DEF QInv
<1>2. /\ HasHumidity(s) /\ id <= MaxId /\ n > 0
      /\ unfertilizedIndex' = unfertilizedIndex + n * Bpf(s)
      /\ fertilizer' = [F EXCEPT ![id] = F[id] + n]
      /\ activeFertilizer' = activeFertilizer + n
      /\ IF F[id] > 0 THEN UNCHANGED <<fFirst, fLast, nextFid, fertilizing>> ELSE Push(id)
      /\ season' = season /\ bpf' = bpf /\ fertilizedIndex' = fertilizedIndex
    BY DEF AddFertilizer, AddUnderlying, paidVars
<1>3. Bpf(s) \in Nat \ {0} /\ bpf \in Nat /\ MaxId \in Nat /\ n \in Nat \ {0}
    BY <1>1, <1>2, BpfType, IdsAreNat, FertilizerAssumption DEF QueueTypes
<1>4. id \in Ids /\ id > bpf /\ id - bpf = Bpf(s) /\ id \in Nat
    BY <1>2, <1>3 DEF Ids
<1>5. F \in [Ids -> Nat] /\ F[id] \in Nat
    BY <1>1, <1>4 DEF QueueTypes
<1> HIDE DEF id, F
<1>6. /\ fertilizer' \in [Ids -> Nat]
      /\ ClaimsIn(fertilizer', bpf) = ClaimsIn(F, bpf) + n
      /\ OwedIn(fertilizer', bpf) = OwedIn(F, bpf) + n * (id - bpf)
      /\ ClaimsIn(F, bpf) \in Nat /\ OwedIn(F, bpf) \in Nat
  <2>1. /\ F \in [Ids -> Nat] /\ bpf \in Nat /\ id \in Ids /\ id > bpf /\ n \in Nat
        /\ fertilizer' = [F EXCEPT ![id] = F[id] + n]
      BY <1>2, <1>3, <1>4, <1>5
  <2>2. ClaimsAdded(F, bpf, id, n, fertilizer')
      BY <2>1, AddClaims
  <2> QED
      BY <2>2 DEF ClaimsAdded
<1>7. n * Bpf(s) \in Nat
    BY <1>3
<1>8. Owing'
  <2>1. activeFertilizer = ClaimsIn(F, bpf) /\ unfertilizedIndex = fertilizedIndex + OwedIn(F, bpf)
      BY <1>1, QueueForms DEF F
  <2>2. fertilizedIndex \in Nat
      BY <1>1 DEF QueueTypes
  <2> DEFINE y == n * Bpf(s)
  <2>3. OwedIn(fertilizer', bpf) = OwedIn(F, bpf) + y /\ unfertilizedIndex' = unfertilizedIndex + y
        /\ y \in Nat
      BY <1>2, <1>4, <1>6, <1>7
  <2> HIDE DEF y
  <2>4. unfertilizedIndex' = fertilizedIndex + OwedIn(fertilizer', bpf)
      BY <1>6, <2>1, <2>2, <2>3
  <2>5. activeFertilizer' = ClaimsIn(fertilizer', bpf)
      BY <1>2, <1>6, <2>1
  <2>6. ClaimsAt(bpf)' = ClaimsIn(fertilizer', bpf')
      BY Zenon DEF ClaimsAt, ClaimsIn, ActiveAt, ActiveIn, Sum, Units
  <2>7. OwedAt(bpf)' = OwedIn(fertilizer', bpf')
      BY Zenon DEF OwedAt, OwedIn, ActiveAt, ActiveIn, Sum, Units
  <2> QED
      BY <1>2, <2>4, <2>5, <2>6, <2>7 DEF Owing
<1>9. /\ LinkedIn(fertilizer', bpf', fFirst', fLast', nextFid')
      /\ fertilizing' = (ActiveIn(fertilizer', bpf) # {})
      /\ fFirst' \in Ids /\ fLast' \in Ids /\ nextFid' \in [Ids -> Ids]
      /\ fertilizing' \in BOOLEAN
  <2>1. fertilizer'[id] > 0
      BY <1>2, <1>3, <1>4, <1>5
  <2>2. id \in ActiveIn(fertilizer', bpf)
      BY <1>4, <2>1 DEF ActiveIn
  <2>3. CASE F[id] > 0
    <3>1. fFirst' = fFirst /\ fLast' = fLast /\ nextFid' = nextFid /\ fertilizing' = fertilizing
        BY <1>2, <2>3
    <3>2. \A k \in Ids : (fertilizer'[k] > 0 <=> F[k] > 0) /\ (fertilizer'[k] = 0 <=> F[k] = 0)
        BY <1>2, <1>3, <1>4, <1>5, <2>3
    <3>3. \A c : ActiveIn(fertilizer', c) = ActiveIn(F, c)
        BY <3>2 DEF ActiveIn
    <3>4. /\ LinkedIn(F, bpf, fFirst, fLast, nextFid)
          /\ fertilizing <=> ActiveIn(F, bpf) # {}
        BY <1>1, QueueForms DEF F
    <3>5. LinkedIn(fertilizer', bpf, fFirst, fLast, nextFid)
        BY <3>2, <3>3, <3>4 DEF LinkedIn
    <3>6. fertilizing = TRUE
        BY <1>1, <2>2, <3>3, <3>4 DEF QueueTypes
    <3> QED
        BY <1>1, <1>2, <2>2, <3>1, <3>5, <3>6 DEF QueueTypes
  <2>4. CASE ~(F[id] > 0)
    <3>1. F[id] = 0 /\ Push(id)
        BY <1>2, <1>5, <2>4
    <3>2. /\ LinkedIn(fertilizer', bpf', fFirst', fLast', nextFid')
          /\ fertilizing' = TRUE
          /\ fFirst' \in Ids /\ fLast' \in Ids /\ nextFid' \in [Ids -> Ids]
        BY <1>2, <1>3, <1>4, <3>1, PushKeepsLinks DEF F
    <3> QED
        BY <2>2, <3>2
  <2> QED
      BY <2>3, <2>4
<1>10. Linked'
  <2>1. \A b : {k \in Ids : k > b /\ fertilizer'[k] > 0} = ActiveIn(fertilizer', b)
      BY DEF ActiveIn
  <2> QED
      BY <1>2, <1>9, <2>1, ZenonT(60)
         DEF Linked, LinkedIn, IsFirst, IsLast, FirstOf, LastOf, ActiveAt
<1>11. QueueTypes'
    BY <1>1, <1>2, <1>3, <1>6, <1>7, <1>9 DEF QueueTypes
<1> QED
    BY <1>8, <1>10, <1>11 DEF QInv

(***************************************************************************)
(* The queue in every reachable state                                      *)
(***************************************************************************)
\* The queue starts empty.
LEMMA QueueInit == Init => QInv
<1> SUFFICES ASSUME Init
             PROVE  QInv
    OBVIOUS
<1>1. QueueTypes
    BY IdsAreNat, FertilizerAssumption DEF Init, QueueTypes
<1>2. ActiveAt(bpf) = {} /\ fFirst = 0 /\ fLast = 0 /\ fertilizing = FALSE
      /\ activeFertilizer = 0 /\ unfertilizedIndex = 0 /\ fertilizedIndex = 0
      /\ nextFid = [id \in Ids |-> 0]
    BY DEF Init, ActiveAt
<1>3. Linked
    BY <1>2 DEF Linked, IsFirst, IsLast
<1>4. ClaimsAt(bpf) = 0 /\ OwedAt(bpf) = 0
  <2>1. bpf \in Nat
      BY <1>1, IdsAreNat DEF QueueTypes
  <2> QED
      BY <1>1, <1>2, <2>1, NoClaims
<1>5. Owing
    BY <1>2, <1>4 DEF Owing
<1> QED
    BY <1>1, <1>3, <1>5 DEF QInv

\* Every step keeps the invariant: only new Fertilizer and sunrises touch it.
LEMMA QueueStep == QInv /\ [Next]_vars => QInv'
<1> SUFFICES ASSUME QInv, [Next]_vars
             PROVE  QInv'
    OBVIOUS
<1> USE FertilizerAssumption
<1>1. season \in Nat
    BY DEF QInv, QueueTypes
<1>2. ASSUME UNCHANGED <<season, paidVars, queueVars, unfertilizedIndex>>
      PROVE  QInv'
    BY <1>2 DEF QInv, QueueTypes, Linked, Owing, IsFirst, IsLast, ActiveAt, ClaimsAt,
                OwedAt, Sum, Units, paidVars, queueVars
<1>3. CASE Mint
  <2>1. PICK c \in Accounts, asked \in Amounts, received \in Amounts, newLP \in NewLPs :
            MintFertilizer(c, asked, received, newLP)
      BY <1>3 DEF Mint
  <2>2. AddFertilizer(season, received, newLP) /\ received \in Nat
      BY <2>1 DEF MintFertilizer
  <2> QED
      BY <1>1, <2>2, AddKeepsQueue
<1>4. CASE AddByOwner
  <2>1. PICK s \in OwnerSeasons, amount \in Amounts, newLP \in NewLPs :
            AddFertilizerOwner(s, amount, newLP)
      BY <1>4 DEF AddByOwner
  <2>2. AddFertilizer(s, amount, newLP) /\ amount \in Nat /\ s \in Nat
      BY <2>1 DEF AddFertilizerOwner
  <2> QED
      BY <2>2, AddKeepsQueue
<1>5. CASE Claim
    BY <1>2, <1>5 DEF Claim, ClaimFertilized
<1>6. CASE Transfer
    BY <1>2, <1>6 DEF Transfer, SafeTransferFrom
<1>7. CASE ChopSome
    BY <1>2, <1>7 DEF ChopSome, Chop
<1>8. CASE Season
  <2>1. PICK mint \in Mints : Sunrise(mint)
      BY <1>8 DEF Season
  <2>2. season' \in Nat /\ unfertilizedIndex' = unfertilizedIndex
      BY <1>1, <2>1 DEF Sunrise
  <2>3. CASE mint > 0 /\ fertilizing
    <3>1. mint \div FertilizerDenominator \in Nat
        BY DivNat
    <3>2. RewardToFertilizer(mint \div FertilizerDenominator)
        BY <2>1, <2>3 DEF Sunrise
    <3> QED
        BY <2>2, <3>1, <3>2, RewardKeepsQueue
  <2>4. CASE ~(mint > 0 /\ fertilizing)
    <3>1. UNCHANGED <<paidVars, queueVars>> /\ season' \in Nat
          /\ unfertilizedIndex' = unfertilizedIndex
        BY <2>1, <2>2, <2>4 DEF Sunrise
    <3> QED
        BY <3>1 DEF QInv, QueueTypes, Linked, Owing, IsFirst, IsLast, ActiveAt, ClaimsAt,
                    OwedAt, Sum, Units, paidVars, queueVars
  <2> QED
      BY <2>3, <2>4
<1>9. CASE UNCHANGED vars
    BY <1>2, <1>9 DEF vars
<1> QED
    BY <1>3, <1>4, <1>5, <1>6, <1>7, <1>8, <1>9 DEF Next

\* The invariant of the queue holds in every reachable state.
LEMMA QueueInvariant == Spec => []QInv
BY QueueInit, QueueStep, PTL DEF Spec

\* The least and the greatest of some ids, as the community modules choose them.
LEMMA MinOf ==
    ASSUME NEW A, NEW f \in A, f \in Nat, \A k \in A : k \in Nat /\ f <= k
    PROVE  Min(A) = f
<1> DEFINE P(x) == \A y \in A : x <= y
<1>1. P(f)
    OBVIOUS
<1>2. \A x \in A : P(x) => x = f
    OBVIOUS
<1>3. Min(A) \in A /\ P(Min(A))
    BY <1>1, Zenon DEF Min
<1> QED
    BY <1>2, <1>3

\* So for the greatest.
LEMMA MaxOf ==
    ASSUME NEW A, NEW l \in A, l \in Nat, \A k \in A : k \in Nat /\ k <= l
    PROVE  Max(A) = l
<1> DEFINE P(x) == \A y \in A : x >= y
<1>1. P(l)
    OBVIOUS
<1>2. \A x \in A : P(x) => x = l
    OBVIOUS
<1>3. Max(A) \in A /\ P(Max(A))
    BY <1>1, Zenon DEF Max
<1> QED
    BY <1>2, <1>3

\* Whatever is added and paid, and in what order, the linked list of the
\* Fertilizer is the ids that have not ended, in order: LibFertilizer.push and
\* pop never lose an id or link past one.
THEOREM QueueIsSorted == Spec => []QueueSorted
<1>1. QInv => QueueSorted
  <2> SUFFICES ASSUME QInv
               PROVE  QueueSorted
      OBVIOUS
  <2>1. QueueTypes /\ Linked /\ bpf \in Nat /\ Active = ActiveAt(bpf)
      BY IdsAreNat DEF QInv, QueueTypes, Active, ActiveAt
  <2>2. \A k \in Active : k \in Ids /\ k \in Nat /\ k > bpf
      BY <2>1, ActiveFinite
  <2>3. fertilizing <=> Active # {}
      BY <2>1 DEF Linked
  <2>4. Active = {} => fFirst = 0 /\ fLast = 0
      BY <2>1 DEF Linked, IsFirst, IsLast
  <2>5. ASSUME Active # {}
        PROVE  fFirst = Min(Active) /\ fLast = Max(Active)
    <3>1. fFirst \in Active /\ \A k \in Active : fFirst <= k
        BY <2>1, <2>5 DEF Linked, IsFirst
    <3>2. fLast \in Active /\ \A k \in Active : k <= fLast
        BY <2>1, <2>5 DEF Linked, IsLast
    <3> QED
        BY <2>2, <3>1, <3>2, MinOf, MaxOf
  <2>6. ASSUME NEW id \in Active
        PROVE  LET later == {k \in Active : k > id}
               IN  nextFid[id] = IF later = {} THEN 0 ELSE Min(later)
    <3> DEFINE later == {k \in Active : k > id}
    <3>1. IsFirst(nextFid[id], id)
        BY <2>1 DEF Linked
    <3>2. later = ActiveAt(id)
      <4>1. \A k \in Ids : k > id => k > bpf
          BY <2>1, <2>2, IdsAreNat
      <4> QED
          BY <4>1 DEF Active, ActiveAt
    <3>3. CASE later = {}
        BY <3>1, <3>2, <3>3 DEF IsFirst
    <3>4. CASE later # {}
      <4>1. nextFid[id] \in later /\ \A k \in later : nextFid[id] <= k
          BY <3>1, <3>2, <3>4 DEF IsFirst
      <4>2. \A k \in later : k \in Nat
          BY <2>2
      <4> HIDE DEF later
      <4>3. nextFid[id] \in later /\ nextFid[id] \in Nat
            /\ \A k \in later : k \in Nat /\ nextFid[id] <= k
          BY <4>1, <4>2
      <4>4. Min(later) = nextFid[id]
        <5> DEFINE f == nextFid[id]
        <5> HIDE DEF f
        <5>1. f \in later /\ f \in Nat /\ \A k \in later : k \in Nat /\ f <= k
            BY <4>3 DEF f
        <5>2. Min(later) = f
            BY <5>1, MinOf
        <5> QED
            BY <5>2 DEF f
      <4> QED
          BY <3>4, <4>4, Zenon DEF later
    <3> QED
        BY <3>3, <3>4, Zenon
  <2> QED
      BY <2>3, <2>4, <2>5, <2>6 DEF QueueSorted
<1> QED
    BY <1>1, QueueInvariant, PTL

\* What rewardToFertilizer owes is, in every reachable state, exactly what the
\* ids that have not ended have to come: no rounding loses a Moon of it.
THEOREM DebtIsExact == Spec => []DebtExact
<1>1. QInv => DebtExact
  <2> SUFFICES ASSUME QInv
               PROVE  DebtExact
      OBVIOUS
  <2>1. QueueTypes /\ Owing /\ bpf \in Nat /\ Active = ActiveAt(bpf)
      BY IdsAreNat DEF QInv, QueueTypes, Active, ActiveAt
  <2>2. OwedAt(bpf) \in Nat /\ fertilizedIndex \in Nat
      BY <2>1, OwedTypes DEF QueueTypes
  <2>3. /\ ClaimsAt(bpf) = Sum([id \in Active |-> fertilizer[id]])
        /\ OwedAt(bpf) = Sum([id \in Active |-> fertilizer[id] * (id - bpf)])
      BY <2>1 DEF ClaimsAt, OwedAt
  <2>4. unfertilizedIndex - fertilizedIndex = OwedAt(bpf)
      BY <2>1, <2>2 DEF Owing
  <2> QED
      BY <2>1, <2>3, <2>4 DEF DebtExact, Owing
<1> QED
    BY <1>1, QueueInvariant, PTL

\* No reachable state makes the requirements and the divisions of
\* rewardToFertilizer stop a sunrise, whatever it mints.
THEOREM SunriseAlwaysPays == Spec => []SunriseCanPay
<1>1. QInv => SunriseCanPay
  <2> SUFFICES ASSUME QInv, NEW mint \in Mints
               PROVE  CanReward(mint \div FertilizerDenominator)
      BY DEF SunriseCanPay
  <2>1. mint \div FertilizerDenominator \in Nat
    <3>1. mint \in Nat /\ FertilizerDenominator \in Nat \ {0}
        BY FertilizerAssumption
    <3> QED
        BY <3>1, DivNat
  <2> QED
      BY <2>1, RewardPays
<1> QED
    BY <1>1, QueueInvariant, PTL

(***************************************************************************)
(* The plain debt                                                          *)
(***************************************************************************)
\* Whoever is paid less has more to come: more by a Moon for each claim that
\* has not ended, if the others are paid a Moon less or more.
LEMMA OwedFalls ==
    ASSUME QueueTypes, NEW b \in Nat, NEW c \in Nat, b < c
    PROVE  OwedAt(b) >= OwedAt(c) + ClaimsAt(b)
<1> DEFINE Left(d) == [k \in Ids |-> IF k > d THEN fertilizer[k] * (k - d) ELSE 0]
           l == Left(c)
           m == Left(b + 1)
<1>1. \A k \in ActiveAt(b) : b + 1 <= k
    BY ActiveFinite
<1>2. b + 1 \in Nat /\ b <= b + 1 /\ (b + 1) - b = 1 /\ b + 1 <= c
    OBVIOUS
<1>3. OwedAt(b) = ((b + 1) - b) * ClaimsAt(b) + OwedAt(b + 1)
    BY <1>1, <1>2, PayTogether
<1>4. ClaimsAt(b) \in Nat /\ OwedAt(b + 1) \in Nat /\ OwedAt(c) \in Nat /\ OwedAt(b) \in Nat
    BY <1>2, OwedTypes
<1>5. fertilizer \in [Ids -> Nat]
    BY DEF QueueTypes
<1>6. OwedAt(c) = Sum(l) /\ OwedAt(b + 1) = Sum(m)
  <2>1. \A d : OwedAt(d) = OwedIn(fertilizer, d)
      BY DEF OwedAt, OwedIn, ActiveAt, ActiveIn
  <2> QED
      BY <1>2, <1>5, <2>1, ClaimsOverIds, Zenon
<1>7. \A k \in Ids : l[k] \in Nat /\ m[k] \in Nat /\ l[k] <= m[k]
  <2> SUFFICES ASSUME NEW k \in Ids
               PROVE  l[k] \in Nat /\ m[k] \in Nat /\ l[k] <= m[k]
      OBVIOUS
  <2>1. k \in Nat /\ fertilizer[k] \in Nat
      BY <1>5, IdsAreNat
  <2>2. CASE k > c
    <3>1. k - c \in Nat /\ k - (b + 1) \in Nat /\ k - c <= k - (b + 1) /\ k > b + 1
        BY <1>2, <2>1, <2>2
    <3> DEFINE x == k - c
               y == k - (b + 1)
    <3>2. l[k] = fertilizer[k] * x /\ m[k] = fertilizer[k] * y
        BY <2>2, <3>1
    <3>3. x \in Nat /\ y \in Nat /\ x <= y
        BY <3>1
    <3> HIDE DEF x, y, l, m
    <3>4. fertilizer[k] * x <= fertilizer[k] * y
        BY <2>1, <3>3, ProductMonotone
    <3>5. fertilizer[k] * x \in Nat /\ fertilizer[k] * y \in Nat
        BY <2>1, <3>3
    <3> QED
        BY <3>2, <3>4, <3>5
  <2>3. CASE ~(k > c)
    <3>1. l[k] = 0
        BY <2>3
    <3>2. m[k] \in Nat
      <4>1. CASE k > b + 1
        <5>1. k - (b + 1) \in Nat /\ m[k] = fertilizer[k] * (k - (b + 1))
            BY <2>1, <4>1
        <5>2. \A x, y \in Nat : x * y \in Nat
            OBVIOUS
        <5> HIDE DEF m
        <5> QED
            BY <2>1, <5>1, <5>2
      <4>2. CASE ~(k > b + 1)
          BY <4>2
      <4> QED
          BY <4>1, <4>2
    <3> HIDE DEF l, m
    <3> QED
        BY <3>1, <3>2
  <2> QED
      BY <2>2, <2>3
<1>8. Sum(l) <= Sum(m)
  <2>1. l \in [Ids -> Nat] /\ m \in [Ids -> Nat]
      BY <1>7
  <2> HIDE DEF l, m
  <2> QED
      BY <1>7, <2>1, IdsAreNat, SumMonotone
<1> HIDE DEF l, m
<1> QED
    BY <1>2, <1>3, <1>4, <1>6, <1>8

\* The cost of the abstract specification, in the terms of this one.
LEMMA CostSum ==
    ASSUME NEW c
    PROVE  Debt!Cost(c) = Sum([k \in {i \in Ids : i > bpf} |-> fertilizer[k] * (Lesser(k, c) - bpf)])
<1> DEFINE T == {i \in Ids : i > bpf}
<1>1. Debt!DebtIds = Ids /\ \A k : Debt!Lesser(k, c) = Lesser(k, c)
    BY DEF Debt!DebtIds, Ids, Debt!Lesser, Lesser
<1>2. \A f : Debt!Sum(f) = Sum(f)
    BY Zenon DEF Debt!Sum, Debt!Units, Debt!Cardinality, Sum, Units, Cardinality
<1>3. Debt!Cost(c) = Debt!Sum([k \in T |-> fertilizer[k] * (Debt!Lesser(k, c) - bpf)])
    BY <1>1, Zenon DEF Debt!Cost
<1>4. [k \in T |-> fertilizer[k] * (Debt!Lesser(k, c) - bpf)]
         = [k \in T |-> fertilizer[k] * (Lesser(k, c) - bpf)]
    BY <1>1
<1> QED
    BY <1>2, <1>3, <1>4

\* The cost of paying every claim up to c is what is then no longer owed.
LEMMA CostIsOwed ==
    ASSUME QueueTypes, NEW c \in Nat, bpf <= c
    PROVE  OwedAt(bpf) = Debt!Cost(c) + OwedAt(c) /\ Debt!Cost(c) \in Nat
<1> DEFINE F == fertilizer
           b == bpf
           T == {i \in Ids : i > b}
           p == [k \in T |-> F[k] * (Lesser(k, c) - b)]
           q == [k \in T |-> IF k > c THEN F[k] * (k - c) ELSE 0]
           all == [k \in Ids |-> IF k > b THEN F[k] * (k - b) ELSE 0]
           left == [k \in Ids |-> IF k > c THEN F[k] * (k - c) ELSE 0]
<1>1. F \in [Ids -> Nat] /\ b \in Nat
    BY IdsAreNat DEF QueueTypes
<1>2. IsFiniteSet(T) /\ T \in SUBSET Ids /\ IsFiniteSet(Ids)
    BY IdsAreNat, FS_Subset
<1>3. \A x, y \in Nat : x * y \in Nat
    OBVIOUS
<1>4. \A k \in T : /\ k \in Nat /\ F[k] \in Nat /\ Lesser(k, c) - b \in Nat
                   /\ k > c => k - c \in Nat
                   /\ k - b = (Lesser(k, c) - b) + (IF k > c THEN k - c ELSE 0)
  <2> SUFFICES ASSUME NEW k \in T
               PROVE  /\ k \in Nat /\ F[k] \in Nat /\ Lesser(k, c) - b \in Nat
                      /\ k > c => k - c \in Nat
                      /\ k - b = (Lesser(k, c) - b) + (IF k > c THEN k - c ELSE 0)
      BY Zenon
  <2>1. k \in Nat /\ k > b /\ F[k] \in Nat
      BY <1>1, IdsAreNat
  <2> HIDE DEF F, T, b
  <2> QED
      BY <1>1, <2>1 DEF Lesser, b
<1>5. p \in [T -> Nat] /\ q \in [T -> Nat]
  <2> HIDE DEF T, F
  <2> QED
      BY <1>3, <1>4
<1>6. \A k \in Ids : k \in Nat /\ (k > b => k - b \in Nat) /\ (k > c => k - c \in Nat)
    BY <1>1, IdsAreNat
<1>7. all \in [Ids -> Nat] /\ left \in [Ids -> Nat]
    BY <1>1, <1>3, <1>6
<1>8. \A k \in T : all[k] = p[k] + q[k]
  <2> SUFFICES ASSUME NEW k \in T
               PROVE  F[k] * (k - b) = F[k] * (Lesser(k, c) - b)
                                        + (IF k > c THEN F[k] * (k - c) ELSE 0)
      BY <1>2
  <2>1. \A x, y, z \in Nat : x * (y + z) = x * y + x * z
      OBVIOUS
  <2>2. CASE k > c
    <3>1. /\ k - b = (Lesser(k, c) - b) + (k - c) /\ Lesser(k, c) - b \in Nat /\ k - c \in Nat
          /\ F[k] \in Nat
        BY <1>4, <2>2
    <3> QED
        BY <2>1, <2>2, <3>1
  <2>3. CASE ~(k > c)
    <3>1. /\ k - b = (Lesser(k, c) - b) + 0 /\ Lesser(k, c) - b \in Nat /\ F[k] \in Nat
        BY <1>4, <2>3
    <3>2. F[k] * (Lesser(k, c) - b) \in Nat
        BY <1>3, <3>1
    <3> QED
        BY <2>3, <3>1, <3>2
  <2> QED
      BY <2>2, <2>3
<1>9. Sum([k \in T |-> p[k] + q[k]]) = Sum(p) + Sum(q)
  <2> HIDE DEF T, p, q
  <2> QED
      BY <1>2, <1>5, SumPlus, Zenon
<1>10. Sum(all) = Sum([k \in T |-> all[k]])
  <2>1. \A k \in Ids \ T : all[k] = 0
      OBVIOUS
  <2> HIDE DEF T, all
  <2> QED
      BY <1>2, <1>7, <2>1, SumSupport
<1>11. Sum(left) = Sum([k \in T |-> left[k]])
  <2>1. \A k \in Ids \ T : left[k] = 0
      BY <1>1, IdsAreNat
  <2> HIDE DEF T, left
  <2> QED
      BY <1>2, <1>7, <2>1, SumSupport
<1>12. [k \in T |-> all[k]] = [k \in T |-> p[k] + q[k]]
  <2> HIDE DEF T, all, p, q
  <2> QED
      BY <1>8
<1>13. [k \in T |-> left[k]] = q
    OBVIOUS
<1>14. OwedAt(b) = Sum(all) /\ OwedAt(c) = Sum(left)
  <2>1. OwedAt(b) = OwedIn(F, b) /\ OwedAt(c) = OwedIn(F, c)
      BY DEF OwedAt, OwedIn, ActiveAt, ActiveIn
  <2> HIDE DEF F, b
  <2>2. OwedIn(F, b) = Sum(all)
      BY <1>1, ClaimsOverIds
  <2>3. OwedIn(F, c) = Sum(left)
      BY <1>1, ClaimsOverIds
  <2> QED
      BY <2>1, <2>2, <2>3
<1>15. Debt!Cost(c) = Sum(p)
    BY CostSum, Zenon
<1>16. Sum(p) \in Nat /\ Sum(q) \in Nat
  <2>1. IsFiniteSet(DOMAIN p) /\ \A x \in DOMAIN p : p[x] \in Nat
    <3> HIDE DEF T, p
    <3> QED
        BY <1>2, <1>5
  <2>2. IsFiniteSet(DOMAIN q) /\ \A x \in DOMAIN q : q[x] \in Nat
    <3> HIDE DEF T, q
    <3> QED
        BY <1>2, <1>5
  <2> HIDE DEF T, p, q
  <2> QED
      BY <2>1, <2>2, SumType
<1> HIDE DEF T, p, q, all, left
<1> QED
    BY <1>9, <1>10, <1>11, <1>12, <1>13, <1>14, <1>15, <1>16 DEF b

\* The loop reaches as far as the budget does, and no further.
LEMMA PaymentReaches ==
    ASSUME QInv, NEW max \in Nat
    PROVE  Debt!Reaches(BpfAfter(max), max) /\ Debt!Cost(BpfAfter(max)) = PaidAfter(max)
<1> DEFINE b == BpfAfter(max)
           x == PaidAfter(max)
           first == Paying(max).first
<1>1. QueueTypes /\ bpf \in Nat
    BY IdsAreNat DEF QInv, QueueTypes
<1>2. /\ b \in Ids /\ b \in Nat /\ bpf <= b /\ x \in Nat /\ x <= max
      /\ OwedAt(bpf) = x + OwedAt(b) /\ IsFirst(first, b)
      /\ first # 0 => max < x + ClaimsAt(b)
      /\ first = 0 => b = bpf \/ fertilizer[b] > 0
    BY RewardPays
<1> HIDE DEF b, x, first
<1>3. /\ \A c \in Nat : OwedAt(c) \in Nat /\ ClaimsAt(c) \in Nat
      /\ \A c \in Nat : bpf <= c => OwedAt(bpf) = Debt!Cost(c) + OwedAt(c)
                                    /\ Debt!Cost(c) \in Nat
    BY <1>1, OwedTypes, CostIsOwed
<1>4. Debt!Cost(b) = x
    BY <1>1, <1>2, <1>3
<1>5. ASSUME NEW c \in Debt!DebtIds, c > b
      PROVE  Debt!Cost(c) > max \/ Debt!Cost(c) = Debt!Cost(b)
  <2>1. c \in Nat /\ bpf <= c
    <3>1. c \in Ids
        BY <1>5 DEF Debt!DebtIds, Ids
    <3>2. c \in Nat
        BY <3>1, IdsAreNat
    <3> QED
        BY <1>1, <1>2, <1>5, <3>2
  <2>2. CASE ActiveAt(b) = {}
    <3>1. ActiveAt(c) = {}
      <4>1. \A k \in Ids : k > c => k > b
          BY <1>2, <1>5, <2>1, IdsAreNat
      <4> QED
          BY <2>2, <4>1 DEF ActiveAt
    <3>2. OwedAt(c) = 0 /\ OwedAt(b) = 0
        BY <1>1, <1>2, <2>1, <2>2, <3>1, NoClaims
    <3>3. OwedAt(bpf) = Debt!Cost(c) + OwedAt(c) /\ Debt!Cost(c) \in Nat
        BY <1>3, <2>1
    <3> QED
        BY <1>1, <1>2, <1>4, <3>2, <3>3
  <2>3. CASE ActiveAt(b) # {}
    <3>1. max < x + ClaimsAt(b)
      <4>1. first \in ActiveAt(b)
          BY <1>2, <2>3 DEF IsFirst
      <4>2. first # 0
          BY <1>2, <4>1, ActiveFinite
      <4> QED
          BY <1>2, <4>2
    <3>2. OwedAt(b) >= OwedAt(c) + ClaimsAt(b)
        BY <1>1, <1>2, <1>5, <2>1, OwedFalls
    <3>3. OwedAt(bpf) = Debt!Cost(c) + OwedAt(c) /\ Debt!Cost(c) \in Nat
        BY <1>3, <2>1
    <3>4. OwedAt(c) \in Nat /\ ClaimsAt(b) \in Nat /\ OwedAt(b) \in Nat
        BY <1>2, <1>3, <2>1
    <3> QED
        BY <1>2, <3>1, <3>2, <3>3, <3>4
  <2> QED
      BY <2>2, <2>3
<1>6. ASSUME NEW c \in bpf .. b, c # b
      PROVE  Debt!Cost(c) < Debt!Cost(b)
  <2>1. c \in Nat /\ bpf <= c /\ c < b
      BY <1>1, <1>2, <1>6
  <2>2. ActiveAt(c) # {}
    <3>1. CASE first = 0
      <4>1. fertilizer[b] > 0
          BY <1>1, <1>2, <2>1, <3>1
      <4>2. b \in ActiveAt(c)
          BY <1>2, <2>1, <4>1 DEF ActiveAt
      <4> QED
          BY <4>2
    <3>2. CASE first # 0
      <4>1. first \in Ids /\ first > b /\ fertilizer[first] > 0 /\ first \in Nat
          BY <1>2, <3>2, IdsAreNat DEF IsFirst, ActiveAt
      <4>2. first > c
          BY <1>2, <2>1, <4>1
      <4>3. first \in ActiveAt(c)
          BY <4>1, <4>2 DEF ActiveAt
      <4> QED
          BY <4>3
    <3> QED
        BY <3>1, <3>2
  <2>3. ClaimsAt(c) > 0
      BY <1>1, <2>1, <2>2, NoClaims
  <2>4. OwedAt(c) >= OwedAt(b) + ClaimsAt(c)
      BY <1>1, <1>2, <2>1, OwedFalls
  <2>5. OwedAt(bpf) = Debt!Cost(c) + OwedAt(c) /\ Debt!Cost(c) \in Nat
      BY <1>3, <2>1
  <2>6. OwedAt(c) \in Nat /\ ClaimsAt(c) \in Nat /\ OwedAt(b) \in Nat
      BY <1>2, <1>3, <2>1
  <2> QED
      BY <1>2, <1>4, <2>3, <2>4, <2>5, <2>6
<1>7. Debt!Reaches(b, max)
    BY <1>2, <1>4, <1>5, <1>6, Zenon DEF Debt!Reaches
<1> QED
    BY <1>4, <1>7 DEF b, x

\* The queue of ids, the pushes into it and the loop of rewardToFertilizer
\* implement the plain debt: each sunrise pays every claim that has not ended
\* alike, as much as the share of the mint allows, and no claim beyond its end.
THEOREM ImplementsDebt == Spec => RefinesDebt
<1>1. Init => Debt!DebtInit
    BY DEF Init, Debt!DebtInit, Debt!DebtIds, Ids
<1>2. QInv /\ [Next]_vars => [Debt!DebtNext]_(Debt!debtVars)
  <2> SUFFICES ASSUME QInv, [Next]_vars
               PROVE  [Debt!DebtNext]_(Debt!debtVars)
      OBVIOUS
  <2> USE FertilizerAssumption
  <2>1. season \in Nat /\ QueueTypes /\ bpf \in Nat
      BY IdsAreNat DEF QInv, QueueTypes
  <2>2. ASSUME UNCHANGED <<paidVars, queueVars, unfertilizedIndex>>
        PROVE  UNCHANGED Debt!debtVars
      BY <2>2 DEF Debt!debtVars, paidVars, queueVars
  <2>3. ASSUME NEW s \in Nat, NEW n \in Nat, NEW newLP, AddFertilizer(s, n, newLP)
        PROVE  Debt!DebtNext
    <3> DEFINE id == bpf + Bpf(s)
    <3>1. /\ HasHumidity(s) /\ id <= MaxId
          /\ unfertilizedIndex' = unfertilizedIndex + n * Bpf(s)
          /\ fertilizer' = [fertilizer EXCEPT ![id] = fertilizer[id] + n]
          /\ bpf' = bpf /\ fertilizedIndex' = fertilizedIndex
        BY <2>3 DEF AddFertilizer, paidVars
    <3>2. Bpf(s) \in Nat \ {0}
        BY <3>1, BpfType
    <3>3. id \in Ids /\ id > bpf /\ id - bpf = Bpf(s) /\ id \in Debt!DebtIds
        BY <2>1, <3>1, <3>2 DEF Ids, Debt!DebtIds
    <3> HIDE DEF id
    <3>4. fertilizer \in [Ids -> Nat] /\ fertilizer[id] \in Nat
        BY <2>1, <3>3 DEF QueueTypes
    <3>5. fertilizer'[id] - fertilizer[id] = n
        BY <3>1, <3>3, <3>4
    <3>6. Debt!AddDebt(id, fertilizer'[id] - fertilizer[id])
        BY <3>1, <3>3, <3>5 DEF Debt!AddDebt
    <3> QED
        BY <3>3, <3>6 DEF Debt!DebtNext
  <2>4. CASE Mint
    <3>1. PICK c \in Accounts, asked \in Amounts, received \in Amounts, newLP \in NewLPs :
              MintFertilizer(c, asked, received, newLP)
        BY <2>4 DEF Mint
    <3>2. AddFertilizer(season, received, newLP) /\ received \in Nat
        BY <3>1 DEF MintFertilizer
    <3> QED
        BY <2>1, <2>3, <3>2
  <2>5. CASE AddByOwner
    <3>1. PICK s \in OwnerSeasons, amount \in Amounts, newLP \in NewLPs :
              AddFertilizerOwner(s, amount, newLP)
        BY <2>5 DEF AddByOwner
    <3>2. AddFertilizer(s, amount, newLP) /\ amount \in Nat /\ s \in Nat
        BY <3>1 DEF AddFertilizerOwner
    <3> QED
        BY <2>3, <3>2
  <2>6. CASE Claim
      BY <2>2, <2>6 DEF Claim, ClaimFertilized
  <2>7. CASE Transfer
      BY <2>2, <2>7 DEF Transfer, SafeTransferFrom
  <2>8. CASE ChopSome
      BY <2>2, <2>8 DEF ChopSome, Chop
  <2>9. CASE Season
    <3>1. PICK mint \in Mints : Sunrise(mint)
        BY <2>9 DEF Season
    <3>2. CASE mint > 0 /\ fertilizing
      <4> DEFINE max == mint \div FertilizerDenominator
                 b == BpfAfter(max)
      <4>1. max \in Nat
          BY DivNat
      <4>2. RewardToFertilizer(max) /\ unfertilizedIndex' = unfertilizedIndex
          BY <3>1, <3>2 DEF Sunrise
      <4>3. b \in Ids
          BY <4>1, RewardPays
      <4>4. /\ bpf' = b /\ fertilizedIndex' = fertilizedIndex + PaidAfter(max)
            /\ fertilizer' = fertilizer
          BY <4>1, <4>2, RewardIsPayment
      <4>5. Debt!Reaches(b, max) /\ Debt!Cost(b) = PaidAfter(max)
          BY <4>1, PaymentReaches
      <4>6. b \in Debt!DebtIds
          BY <4>3 DEF Debt!DebtIds, Ids
      <4> HIDE DEF b
      <4>7. Debt!PayDebt(max)
          BY <4>2, <4>4, <4>5, <4>6, Zenon DEF Debt!PayDebt
      <4> QED
          BY <4>7, Zenon DEF Debt!DebtNext
    <3>3. CASE ~(mint > 0 /\ fertilizing)
      <4>1. UNCHANGED <<paidVars, queueVars, unfertilizedIndex>>
          BY <3>1, <3>3 DEF Sunrise
      <4> QED
          BY <2>2, <4>1
    <3> QED
        BY <3>2, <3>3
  <2>10. CASE UNCHANGED vars
      BY <2>2, <2>10 DEF vars
  <2> QED
      BY <2>4, <2>5, <2>6, <2>7, <2>8, <2>9, <2>10 DEF Next
<1> QED
    BY <1>1, <1>2, QueueInvariant, PTL DEF Spec, RefinesDebt, Debt!DebtSpec

(***************************************************************************)
(* The claims of the holders, for any balances B and any bpf b             *)
(***************************************************************************)
FertilizedIn(B, b, a, id) == (Lesser(b, id) - B[id][a].lastBpf) * B[id][a].amount
ClaimableIn(B, b, a)      == Sum([id \in Ids |-> FertilizedIn(B, b, a, id)])
TotalIn(B, b)             == Sum([a \in Accounts |-> ClaimableIn(B, b, a)])

\* No account is marked as paid further than it is.
Marks(B, b) ==
    /\ B \in [Ids -> [Accounts -> Balances]]
    /\ \A id \in Ids, a \in Accounts : B[id][a].lastBpf <= Lesser(b, id)

\* Then a claim is a natural number, and so are their sums.
LEMMA ClaimTypes ==
    ASSUME NEW B, NEW b \in Nat, Marks(B, b)
    PROVE  /\ \A a \in Accounts, id \in Ids : FertilizedIn(B, b, a, id) \in Nat
           /\ \A a \in Accounts : ClaimableIn(B, b, a) \in Nat
           /\ TotalIn(B, b) \in Nat
<1>1. IsFiniteSet(Accounts) /\ IsFiniteSet(Ids)
    BY FertilizerAssumption, IdsAreNat
<1>2. ASSUME NEW a \in Accounts, NEW id \in Ids
      PROVE  FertilizedIn(B, b, a, id) \in Nat
  <2> DEFINE m == Lesser(b, id) - B[id][a].lastBpf
             n == B[id][a].amount
  <2>1. B[id][a] \in Balances /\ B[id][a].lastBpf <= Lesser(b, id) /\ id \in Nat
      BY IdsAreNat DEF Marks
  <2>2. m \in Nat /\ n \in Nat
      BY <2>1 DEF Balances, Lesser
  <2> HIDE DEF m, n
  <2>3. m * n \in Nat
      BY <2>2
  <2> QED
      BY <2>3 DEF FertilizedIn, m, n
<1>3. ASSUME NEW a \in Accounts
      PROVE  ClaimableIn(B, b, a) \in Nat
  <2> DEFINE row == [id \in Ids |-> FertilizedIn(B, b, a, id)]
  <2>1. IsFiniteSet(DOMAIN row) /\ \A x \in DOMAIN row : row[x] \in Nat
      BY <1>1, <1>2
  <2> HIDE DEF row
  <2>2. Sum(row) \in Nat
      BY <2>1, SumType
  <2> QED
      BY <2>2 DEF ClaimableIn, row
<1>4. TotalIn(B, b) \in Nat
  <2> DEFINE all == [a \in Accounts |-> ClaimableIn(B, b, a)]
  <2>1. IsFiniteSet(DOMAIN all) /\ \A x \in DOMAIN all : all[x] \in Nat
      BY <1>1, <1>3
  <2> HIDE DEF all
  <2>2. Sum(all) \in Nat
      BY <2>1, SumType
  <2> QED
      BY <2>2 DEF TotalIn, all
<1> QED
    BY <1>2, <1>3, <1>4

\* What c claims of some ids.
Due(B, b, c, ids) == Sum([id \in ids |-> FertilizedIn(B, b, c, id)])

\* c is paid for ids, and no other claim changes.
PaidFor(B, b, c, ids, B2) ==
    \A a \in Accounts, id \in Ids :
        FertilizedIn(B2, b, a, id) = IF a = c /\ id \in ids THEN 0 ELSE FertilizedIn(B, b, a, id)

DueIsPaid(B, b, c, ids, B2) ==
    /\ Due(B, b, c, ids) \in Nat
    /\ ClaimableIn(B2, b, c) + Due(B, b, c, ids) = ClaimableIn(B, b, c)
    /\ \A a \in Accounts : a # c => ClaimableIn(B2, b, a) = ClaimableIn(B, b, a)
    /\ TotalIn(B2, b) + Due(B, b, c, ids) = TotalIn(B, b)

\* The claims of c, and all claims, fall by what c is paid.
LEMMA SettleClaims ==
    ASSUME NEW B, NEW b \in Nat, Marks(B, b), NEW c \in Accounts, NEW ids \in SUBSET Ids,
           NEW B2, Marks(B2, b), PaidFor(B, b, c, ids, B2)
    PROVE  DueIsPaid(B, b, c, ids, B2)
<1> DEFINE row == [id \in Ids |-> FertilizedIn(B, b, c, id)]
           rest == [id \in Ids |-> FertilizedIn(B2, b, c, id)]
           part == [id \in Ids |-> IF id \in ids THEN FertilizedIn(B, b, c, id) ELSE 0]
           p == Due(B, b, c, ids)
<1>1. IsFiniteSet(Accounts) /\ IsFiniteSet(Ids)
    BY FertilizerAssumption, IdsAreNat
<1>2. /\ \A a \in Accounts, id \in Ids : FertilizedIn(B, b, a, id) \in Nat
      /\ \A a \in Accounts : ClaimableIn(B, b, a) \in Nat
      /\ TotalIn(B, b) \in Nat
    BY ClaimTypes
<1>3. /\ \A a \in Accounts, id \in Ids : FertilizedIn(B2, b, a, id) \in Nat
      /\ \A a \in Accounts : ClaimableIn(B2, b, a) \in Nat
      /\ TotalIn(B2, b) \in Nat
    BY ClaimTypes
<1>4. row \in [Ids -> Nat] /\ rest \in [Ids -> Nat] /\ part \in [Ids -> Nat]
    BY <1>2, <1>3
<1>5. \A id \in Ids : row[id] = rest[id] + part[id]
    BY <1>2, <1>3 DEF PaidFor
<1>6. Sum(row) = Sum(rest) + Sum(part)
  <2>1. row = [id \in Ids |-> rest[id] + part[id]]
    <3> HIDE DEF rest, part
    <3> QED
        BY <1>5
  <2>2. Sum([id \in Ids |-> rest[id] + part[id]]) = Sum(rest) + Sum(part)
    <3> HIDE DEF rest, part
    <3> QED
        BY <1>1, <1>4, SumPlus, Zenon
  <2> QED
      BY <2>1, <2>2
<1>7. Sum(part) = p
  <2>1. IsFiniteSet(Ids) /\ ids \in SUBSET Ids /\ part \in [Ids -> Nat]
        /\ \A x \in Ids \ ids : part[x] = 0
      BY <1>1, <1>4
  <2>2. [x \in ids |-> part[x]] = [id \in ids |-> FertilizedIn(B, b, c, id)]
      OBVIOUS
  <2> HIDE DEF part
  <2>3. Sum(part) = Sum([x \in ids |-> part[x]])
      BY <2>1, SumSupport
  <2> QED
      BY <2>2, <2>3 DEF Due
<1>8. p \in Nat
  <2>1. IsFiniteSet(DOMAIN part) /\ \A x \in DOMAIN part : part[x] \in Nat
      BY <1>1, <1>2
  <2> HIDE DEF part
  <2>2. Sum(part) \in Nat
      BY <2>1, SumType
  <2> QED
      BY <1>7, <2>2
<1>9. ClaimableIn(B2, b, c) + p = ClaimableIn(B, b, c)
  <2>1. ClaimableIn(B, b, c) = Sum(row) /\ ClaimableIn(B2, b, c) = Sum(rest)
      BY DEF ClaimableIn
  <2> HIDE DEF row, rest, part, p
  <2> QED
      BY <1>6, <1>7, <2>1
<1>10. ASSUME NEW a \in Accounts, a # c
       PROVE  ClaimableIn(B2, b, a) = ClaimableIn(B, b, a)
  <2>1. [id \in Ids |-> FertilizedIn(B2, b, a, id)] = [id \in Ids |-> FertilizedIn(B, b, a, id)]
      BY <1>10 DEF PaidFor
  <2> QED
      BY <2>1 DEF ClaimableIn
<1>11. TotalIn(B2, b) + p = TotalIn(B, b)
  <2> DEFINE old == [a \in Accounts |-> ClaimableIn(B, b, a)]
             new == [a \in Accounts |-> ClaimableIn(B2, b, a)]
             v == ClaimableIn(B2, b, c)
  <2>1. old \in [Accounts -> Nat] /\ v \in Nat
      BY <1>2, <1>3
  <2>2. new = [old EXCEPT ![c] = v]
      BY <1>10
  <2>3. old[c] = v + p
      BY <1>2, <1>8, <1>9
  <2>4. TotalIn(B, b) = Sum(old) /\ TotalIn(B2, b) = Sum(new)
      BY DEF TotalIn
  <2> HIDE DEF old, new, v, p
  <2>5. Sum(new) = Sum(old) - old[c] + v
      BY <1>1, <2>1, <2>2, SumUpdate
  <2> QED
      BY <1>2, <1>3, <1>8, <2>1, <2>3, <2>4, <2>5
<1> QED
    BY <1>8, <1>9, <1>10, <1>11 DEF DueIsPaid

\* Of one id.
LEMMA DueOfOne ==
    ASSUME NEW B, NEW b \in Nat, Marks(B, b), NEW c \in Accounts, NEW id \in Ids
    PROVE  Due(B, b, c, {id}) = FertilizedIn(B, b, c, id)
<1> DEFINE g == [k \in {} |-> FertilizedIn(B, b, c, k)]
           f == [k \in Ids |-> FertilizedIn(B, b, c, k)]
<1>1. f[id] = FertilizedIn(B, b, c, id) /\ f[id] \in Nat
    BY ClaimTypes
<1>2. IsFiniteSet({}) /\ id \notin {} /\ \A y \in {} \union {id} : f[y] \in Nat
    BY <1>1, FS_EmptySet
<1>3. Sum([y \in {} \union {id} |-> f[y]]) = Sum([y \in {} |-> f[y]]) + f[id]
  <2> HIDE DEF f
  <2> QED
      BY <1>2, SumExtend
<1>4. [y \in {} \union {id} |-> f[y]] = [k \in {id} |-> FertilizedIn(B, b, c, k)]
    OBVIOUS
<1>5. Sum([y \in {} |-> f[y]]) = 0
  <2>1. [y \in {} |-> f[y]] = [y \in {} |-> 0]
      OBVIOUS
  <2> QED
      BY <2>1, SumZero
<1> HIDE DEF f
<1> QED
    BY <1>1, <1>3, <1>4, <1>5 DEF Due

\* The claims to an id that account a may hold are no more than there are.
Supplied(B, F) == \A id \in Ids : Sum([a \in Accounts |-> B[id][a].amount]) <= F[id]

\* When bpf rises, the claims of the holders grow by no more than it costs.
LEMMA ClaimsGrow ==
    ASSUME QueueTypes, NEW B, Marks(B, bpf), Supplied(B, fertilizer), NEW b \in Nat, bpf <= b
    PROVE  Marks(B, b) /\ TotalIn(B, b) <= TotalIn(B, bpf) + Debt!Cost(b)
<1> DEFINE d(id) == Lesser(b, id) - Lesser(bpf, id)
           n(a, id) == B[id][a].amount
           grow == [a \in Accounts |-> [id \in Ids |-> d(id) * n(a, id)]]
<1>1. IsFiniteSet(Accounts) /\ IsFiniteSet(Ids) /\ bpf \in Nat
    BY FertilizerAssumption, IdsAreNat DEF QueueTypes
<1>2. \A x, y \in Nat : x * y \in Nat
    OBVIOUS
<1>3. \A id \in Ids : /\ id \in Nat /\ d(id) \in Nat /\ fertilizer[id] \in Nat
                      /\ Lesser(b, id) \in Nat /\ Lesser(bpf, id) \in Nat
                      /\ Lesser(bpf, id) <= Lesser(b, id)
  <2> SUFFICES ASSUME NEW id \in Ids
               PROVE  /\ id \in Nat /\ d(id) \in Nat /\ fertilizer[id] \in Nat
                      /\ Lesser(b, id) \in Nat /\ Lesser(bpf, id) \in Nat
                      /\ Lesser(bpf, id) <= Lesser(b, id)
      BY Zenon
  <2>1. id \in Nat /\ fertilizer[id] \in Nat
      BY IdsAreNat DEF QueueTypes
  <2> QED
      BY <1>1, <2>1 DEF Lesser
<1>4. \A a \in Accounts, id \in Ids : B[id][a].lastBpf \in Nat /\ n(a, id) \in Nat
                                      /\ B[id][a].lastBpf <= Lesser(bpf, id)
    BY DEF Marks, Balances
<1>5. Marks(B, b)
  <2> SUFFICES ASSUME NEW id \in Ids, NEW a \in Accounts
               PROVE  B[id][a].lastBpf <= Lesser(b, id)
      BY DEF Marks
  <2>1. B[id][a].lastBpf \in Nat /\ B[id][a].lastBpf <= Lesser(bpf, id)
        /\ Lesser(b, id) \in Nat /\ Lesser(bpf, id) \in Nat /\ Lesser(bpf, id) <= Lesser(b, id)
      BY <1>3, <1>4
  <2> QED
      BY <2>1
<1>6. grow \in [Accounts -> [Ids -> Nat]]
  <2>1. \A a \in Accounts, id \in Ids : d(id) * n(a, id) \in Nat
      BY <1>2, <1>3, <1>4
  <2> HIDE DEF d, n
  <2> QED
      BY <2>1
<1>7. /\ \A a \in Accounts, id \in Ids : FertilizedIn(B, bpf, a, id) \in Nat
      /\ \A a \in Accounts : ClaimableIn(B, bpf, a) \in Nat /\ ClaimableIn(B, b, a) \in Nat
      /\ TotalIn(B, bpf) \in Nat /\ TotalIn(B, b) \in Nat
    BY <1>1, <1>5, ClaimTypes
<1>8. \A a \in Accounts, id \in Ids :
         FertilizedIn(B, b, a, id) = FertilizedIn(B, bpf, a, id) + grow[a][id]
  <2> SUFFICES ASSUME NEW a \in Accounts, NEW id \in Ids
               PROVE  FertilizedIn(B, b, a, id) = FertilizedIn(B, bpf, a, id) + grow[a][id]
      BY Zenon
  <2> DEFINE x == Lesser(bpf, id) - B[id][a].lastBpf
             y == d(id)
             z == n(a, id)
  <2>1. x \in Nat /\ y \in Nat /\ z \in Nat /\ Lesser(b, id) - B[id][a].lastBpf = x + y
      BY <1>3, <1>4
  <2>2. \A i, j, k \in Nat : (i + j) * k = i * k + j * k
      OBVIOUS
  <2>3. FertilizedIn(B, b, a, id) = (x + y) * z /\ FertilizedIn(B, bpf, a, id) = x * z
        /\ grow[a][id] = y * z
      BY <2>1 DEF FertilizedIn
  <2> HIDE DEF x, y, z
  <2> QED
      BY <2>1, <2>2, <2>3
<1> DEFINE rows == [a \in Accounts |-> Sum(grow[a])]
<1>9. \A a \in Accounts : rows[a] \in Nat
  <2> SUFFICES ASSUME NEW a \in Accounts
               PROVE  Sum(grow[a]) \in Nat
      OBVIOUS
  <2>1. grow[a] \in [Ids -> Nat]
      BY <1>6, Zenon
  <2> HIDE DEF grow
  <2>2. IsFiniteSet(DOMAIN grow[a]) /\ \A x \in DOMAIN grow[a] : grow[a][x] \in Nat
      BY <1>1, <2>1
  <2> QED
      BY <2>2, SumType
<1>10. \A a \in Accounts : ClaimableIn(B, b, a) = ClaimableIn(B, bpf, a) + rows[a]
  <2> SUFFICES ASSUME NEW a \in Accounts
               PROVE  ClaimableIn(B, b, a) = ClaimableIn(B, bpf, a) + Sum(grow[a])
      BY Zenon
  <2> DEFINE f == [id \in Ids |-> FertilizedIn(B, bpf, a, id)]
             g == grow[a]
  <2>1. f \in [Ids -> Nat]
      BY <1>7
  <2>2. g \in [Ids -> Nat]
      BY <1>6, Zenon
  <2>3. [id \in Ids |-> FertilizedIn(B, b, a, id)] = [id \in Ids |-> f[id] + g[id]]
    <3>1. \A id \in Ids : FertilizedIn(B, b, a, id) = f[id] + g[id]
        BY <1>8
    <3> HIDE DEF f, g
    <3> QED
        BY <3>1
  <2>4. ClaimableIn(B, bpf, a) = Sum(f)
      BY DEF ClaimableIn
  <2> HIDE DEF f, g
  <2>5. Sum([id \in Ids |-> f[id] + g[id]]) = Sum(f) + Sum(g)
      BY <1>1, <2>1, <2>2, SumPlus, Zenon
  <2> QED
      BY <2>3, <2>4, <2>5 DEF ClaimableIn, g
<1>11. TotalIn(B, b) = TotalIn(B, bpf) + Sum(rows)
  <2> DEFINE f == [a \in Accounts |-> ClaimableIn(B, bpf, a)]
  <2>1. f \in [Accounts -> Nat]
      BY <1>7
  <2>2. rows \in [Accounts -> Nat]
    <3> HIDE DEF grow
    <3> QED
        BY <1>9
  <2>3. [a \in Accounts |-> ClaimableIn(B, b, a)] = [a \in Accounts |-> f[a] + rows[a]]
    <3>1. \A a \in Accounts : ClaimableIn(B, b, a) = f[a] + rows[a]
        BY <1>10
    <3> HIDE DEF f, rows
    <3> QED
        BY <3>1
  <2>4. TotalIn(B, bpf) = Sum(f)
      BY DEF TotalIn
  <2> HIDE DEF f, rows
  <2>5. Sum([a \in Accounts |-> f[a] + rows[a]]) = Sum(f) + Sum(rows)
      BY <1>1, <2>1, <2>2, SumPlus, Zenon
  <2> QED
      BY <2>3, <2>4, <2>5 DEF TotalIn
<1> DEFINE columns == [id \in Ids |-> Sum([a \in Accounts |-> grow[a][id]])]
           cost == [id \in Ids |-> d(id) * fertilizer[id]]
<1>12. Sum(rows) = Sum(columns)
  <2> HIDE DEF grow
  <2> QED
      BY <1>1, <1>6, SumSwap
<1>13. \A id \in Ids : columns[id] \in Nat /\ cost[id] \in Nat /\ columns[id] <= cost[id]
  <2> SUFFICES ASSUME NEW id \in Ids
               PROVE  /\ Sum([a \in Accounts |-> grow[a][id]]) \in Nat
                      /\ d(id) * fertilizer[id] \in Nat
                      /\ Sum([a \in Accounts |-> grow[a][id]]) <= d(id) * fertilizer[id]
      BY Zenon
  <2> DEFINE amounts == [a \in Accounts |-> B[id][a].amount]
             y == d(id)
             s == Sum(amounts)
  <2>1. amounts \in [Accounts -> Nat] /\ y \in Nat /\ fertilizer[id] \in Nat
      BY <1>3, <1>4
  <2>2. [a \in Accounts |-> grow[a][id]] = [a \in Accounts |-> y * amounts[a]]
      OBVIOUS
  <2>3. s <= fertilizer[id]
      BY DEF Supplied
  <2>4. Sum([a \in Accounts |-> y * amounts[a]]) = y * s
    <3> HIDE DEF amounts, y
    <3> QED
        BY <1>1, <2>1, SumScale
  <2>5. s \in Nat
    <3> HIDE DEF amounts
    <3>1. IsFiniteSet(DOMAIN amounts) /\ \A x \in DOMAIN amounts : amounts[x] \in Nat
        BY <1>1, <2>1
    <3> QED
        BY <3>1, SumType
  <2> HIDE DEF s, y
  <2>6. s * y \in Nat /\ y * s <= y * fertilizer[id]
      BY <2>1, <2>3, <2>5, ProductMonotone
  <2>7. y * s \in Nat /\ y * fertilizer[id] \in Nat
      BY <1>2, <2>1, <2>5
  <2> QED
      BY <2>2, <2>4, <2>6, <2>7 DEF y
<1>14. Sum(columns) <= Sum(cost)
  <2>1. columns \in [Ids -> Nat] /\ cost \in [Ids -> Nat]
    <3> HIDE DEF grow, d
    <3> QED
        BY <1>13
  <2> HIDE DEF columns, cost
  <2> QED
      BY <1>1, <1>13, <2>1, SumMonotone
<1>15. Sum(cost) = Debt!Cost(b)
  <2> DEFINE T == {i \in Ids : i > bpf}
  <2>1. cost \in [Ids -> Nat]
      BY <1>13
  <2>2. \A k \in Ids \ T : cost[k] = 0
    <3> SUFFICES ASSUME NEW k \in Ids \ T
                 PROVE  d(k) * fertilizer[k] = 0
        OBVIOUS
    <3>1. k \in Nat /\ k <= bpf /\ fertilizer[k] \in Nat
        BY <1>1, <1>3
    <3>2. d(k) = 0
        BY <1>1, <3>1 DEF Lesser
    <3> HIDE DEF d
    <3> QED
        BY <3>1, <3>2
  <2>3. IsFiniteSet(Ids) /\ T \in SUBSET Ids
      BY <1>1
  <2>4. Sum(cost) = Sum([k \in T |-> cost[k]])
    <3> HIDE DEF cost, T
    <3> QED
        BY <2>1, <2>2, <2>3, SumSupport
  <2>5. [k \in T |-> cost[k]] = [k \in T |-> fertilizer[k] * (Lesser(k, b) - bpf)]
    <3> SUFFICES ASSUME NEW k \in T
                 PROVE  d(k) * fertilizer[k] = fertilizer[k] * (Lesser(k, b) - bpf)
        OBVIOUS
    <3>1. k \in Nat /\ k > bpf /\ fertilizer[k] \in Nat
        BY <1>3
    <3>2. d(k) = Lesser(k, b) - bpf /\ d(k) \in Nat
        BY <1>1, <3>1 DEF Lesser
    <3>3. \A x, y \in Nat : x * y = y * x
        OBVIOUS
    <3> HIDE DEF d
    <3> QED
        BY <3>1, <3>2, <3>3
  <2> QED
      BY <2>4, <2>5, CostSum
<1>16. Sum(rows) \in Nat /\ Sum(cost) \in Nat
  <2>1. IsFiniteSet(DOMAIN rows) /\ \A x \in DOMAIN rows : rows[x] \in Nat
    <3> HIDE DEF grow
    <3> QED
        BY <1>1, <1>9
  <2>2. IsFiniteSet(DOMAIN cost) /\ \A x \in DOMAIN cost : cost[x] \in Nat
      BY <1>1, <1>13
  <2> HIDE DEF rows, cost
  <2> QED
      BY <2>1, <2>2, SumType
<1> HIDE DEF rows, cost, columns
<1> QED
    BY <1>5, <1>7, <1>11, <1>12, <1>14, <1>15, <1>16

(***************************************************************************)
(* The money                                                               *)
(***************************************************************************)
WealthOf(k, a) == k.wallet[a] + k.internal[a]

\* The diamond holds what it owes, and no holder is marked as paid too far.
Money ==
    /\ recapitalized \in Nat /\ minted \in Nat
    /\ unripe \in [supply : [Unripe -> Nat], underlying : [Unripe -> Nat]]
    /\ bank \in Banks
    /\ Marks(balances, bpf)
    /\ Supplied(balances, fertilizer)
    /\ Surplus(bank) >= TotalIn(balances, bpf) + unripe.underlying["Moon"]
                        + (minted - fertilizedIndex)

\* What an account has and can claim together are the same.
SameWorth(B, b, k, B2, k2) ==
    \A a \in Accounts : WealthOf(k2, a) + ClaimableIn(B2, b, a)
                           = WealthOf(k, a) + ClaimableIn(B, b, a)

\* Claims are paid out of what the diamond holds for them.
PaysDue(B, b, k, B2, k2) ==
    /\ k2 \in Banks /\ SameWorth(B, b, k, B2, k2)
    /\ Surplus(k2) \in Int /\ Surplus(k) \in Int
    /\ TotalIn(B2, b) \in Nat /\ TotalIn(B, b) \in Nat
    /\ Surplus(k2) - TotalIn(B2, b) = Surplus(k) - TotalIn(B, b)

\* What the diamond holds for others is an integer.
LEMMA SurplusType ==
    ASSUME NEW k \in Banks
    PROVE  Surplus(k) \in Int
<1>1. k.internal \in [Accounts -> Nat] /\ k.held \in Nat
    BY DEF Banks
<1>2. IsFiniteSet(DOMAIN k.internal) /\ \A x \in DOMAIN k.internal : k.internal[x] \in Nat
    BY <1>1, FertilizerAssumption
<1>3. Sum(k.internal) \in Nat
    BY <1>2, SumType
<1> QED
    BY <1>1, <1>3 DEF Surplus

\* A payment makes its recipient richer by the amount, and nobody else.
LEMMA SendWealth ==
    ASSUME NEW k \in Banks, NEW amount \in Nat, NEW c \in Accounts, NEW mode \in ToModes
    PROVE  \A a \in Accounts : /\ WealthOf(k, a) \in Nat
                               /\ WealthOf(SendToken(k, amount, c, mode), a)
                                    = WealthOf(k, a) + (IF a = c THEN amount ELSE 0)
<1> SUFFICES ASSUME NEW a \in Accounts
             PROVE  /\ WealthOf(k, a) \in Nat
                    /\ WealthOf(SendToken(k, amount, c, mode), a)
                          = WealthOf(k, a) + (IF a = c THEN amount ELSE 0)
    OBVIOUS
<1>1. /\ k.wallet \in [Accounts -> Nat] /\ k.internal \in [Accounts -> Nat]
      /\ k = [wallet |-> k.wallet, internal |-> k.internal, held |-> k.held]
    BY DEF Banks
<1>2. CASE mode = "INTERNAL"
  <2>1. /\ SendToken(k, amount, c, mode).wallet = k.wallet
        /\ SendToken(k, amount, c, mode).internal = [k.internal EXCEPT ![c] = k.internal[c] + amount]
      BY <1>1, <1>2 DEF SendToken
  <2> QED
      BY <1>1, <2>1 DEF WealthOf
<1>3. CASE mode # "INTERNAL"
  <2>1. /\ SendToken(k, amount, c, mode).internal = k.internal
        /\ SendToken(k, amount, c, mode).wallet = [k.wallet EXCEPT ![c] = k.wallet[c] + amount]
      BY <1>1, <1>3 DEF SendToken
  <2> QED
      BY <1>1, <2>1 DEF WealthOf
<1> QED
    BY <1>2, <1>3

\* Paying c what it claims of some ids.
LEMMA PayDue ==
    ASSUME NEW B, NEW b \in Nat, Marks(B, b), NEW c \in Accounts, NEW ids \in SUBSET Ids,
           NEW B2, Marks(B2, b), PaidFor(B, b, c, ids, B2),
           NEW k \in Banks, NEW mode \in ToModes, CanSend(k, Due(B, b, c, ids), mode)
    PROVE  PaysDue(B, b, k, B2, SendToken(k, Due(B, b, c, ids), c, mode))
<1> DEFINE p == Due(B, b, c, ids)
           k2 == SendToken(k, p, c, mode)
<1>1. DueIsPaid(B, b, c, ids, B2)
    BY SettleClaims
<1>2. p \in Nat
    BY <1>1 DEF DueIsPaid
<1>3. k2 \in Banks /\ Surplus(k2) = Surplus(k) - p
    BY <1>2, FertilizerAssumption, SendTokenLemma
<1>4. Surplus(k2) \in Int /\ Surplus(k) \in Int
    BY <1>3, SurplusType
<1>5. TotalIn(B2, b) \in Nat /\ TotalIn(B, b) \in Nat
      /\ \A a \in Accounts : ClaimableIn(B, b, a) \in Nat /\ ClaimableIn(B2, b, a) \in Nat
    BY ClaimTypes
<1>6. \A a \in Accounts : /\ WealthOf(k, a) \in Nat
                          /\ WealthOf(k2, a) = WealthOf(k, a) + (IF a = c THEN p ELSE 0)
    BY <1>2, SendWealth
<1>7. /\ ClaimableIn(B2, b, c) + p = ClaimableIn(B, b, c)
      /\ \A a \in Accounts : a # c => ClaimableIn(B2, b, a) = ClaimableIn(B, b, a)
      /\ TotalIn(B2, b) + p = TotalIn(B, b)
    BY <1>1 DEF DueIsPaid
<1> HIDE DEF p, k2
<1>8. SameWorth(B, b, k, B2, k2)
    BY <1>2, <1>5, <1>6, <1>7 DEF SameWorth
<1>9. Surplus(k2) - TotalIn(B2, b) = Surplus(k) - TotalIn(B, b)
    BY <1>2, <1>3, <1>4, <1>5, <1>7
<1> QED
    BY <1>3, <1>4, <1>5, <1>8, <1>9 DEF PaysDue, k2, p

\* What is minted to back the Unripe Moons is a natural number.
LEMMA BackingType ==
    ASSUME Money, NEW n \in Nat, RemainingRecapitalization > 0
    PROVE  /\ NewDepositedMoons(n) \in Nat
           /\ RemainingRecapitalization \in Nat \ {0}
<1> DEFINE target == (DollarPerUnripeLP * unripe.supply["LP"]) \div DollarUnit
           missing == Greater(unripe.supply["Moon"] - unripe.underlying["Moon"], 0)
           r == RemainingRecapitalization
           part == (n * Precision) \div r
<1>1. /\ DollarPerUnripeLP \in Nat /\ DollarUnit \in Nat \ {0} /\ Precision \in Nat \ {0}
      /\ unripe.supply["LP"] \in Nat /\ unripe.supply["Moon"] \in Nat
      /\ unripe.underlying["Moon"] \in Nat /\ recapitalized \in Nat
    BY FertilizerAssumption DEF Money, Unripe
<1>2. \A x, y \in Nat : x * y \in Nat
    OBVIOUS
<1>3. target \in Nat
  <2>1. DollarPerUnripeLP * unripe.supply["LP"] \in Nat
      BY <1>1, <1>2
  <2> QED
      BY <1>1, <2>1, DivNat
<1>4. missing \in Nat
    BY <1>1 DEF Greater
<1>5. r \in Nat \ {0}
  <2>1. r = Greater(target - recapitalized, 0)
      BY DEF RemainingRecapitalization
  <2> HIDE DEF target
  <2>2. r \in Int
      BY <1>1, <1>3, <2>1 DEF Greater
  <2> QED
      BY <2>2
<1> HIDE DEF missing, r
<1>6. part \in Nat
  <2>1. n * Precision \in Nat
      BY <1>1, <1>2
  <2> QED
      BY <1>5, <2>1, DivNat
<1> HIDE DEF part
<1>7. (missing * part) \div Precision \in Nat
  <2>1. missing * part \in Nat
      BY <1>2, <1>4, <1>6
  <2> QED
      BY <1>1, <2>1, DivNat
<1>8. NewDepositedMoons(n) = (missing * part) \div Precision
    BY DEF NewDepositedMoons, missing, part, r
<1> QED
    BY <1>5, <1>7, <1>8 DEF r

(***************************************************************************)
(* The records of the holders                                              *)
(***************************************************************************)
Held(B, id) == [a \in Accounts |-> B[id][a].amount]

\* What a new record of c for one id does: a holder that is marked as paid so
\* far claims nothing of the id, and all that changes is what c holds of it.
Rewritten(B, b, c, id, n, B2) ==
    /\ Marks(B2, b)
    /\ PaidFor(B, b, c, {id}, B2)
    /\ FertilizedIn(B2, b, c, id) = 0
    /\ B2[id][c].amount = n
    /\ Sum(Held(B2, id)) = (Sum(Held(B, id)) - B[id][c].amount) + n
    /\ \A k \in Ids : k # id => Sum(Held(B2, k)) = Sum(Held(B, k))
    /\ \A k \in Ids : Sum(Held(B, k)) \in Nat /\ Sum(Held(B2, k)) \in Nat

\* A new record of c for one id, marked as paid as far as the id is.
LEMMA NewRecord ==
    ASSUME NEW B, NEW b \in Nat, Marks(B, b), NEW c \in Accounts, NEW id \in Ids,
           NEW n \in Nat, NEW B2,
           B2 = [B EXCEPT ![id][c] = [amount |-> n, lastBpf |-> Lesser(b, id)]]
    PROVE  Rewritten(B, b, c, id, n, B2)
<1> DEFINE new == [amount |-> n, lastBpf |-> Lesser(b, id)]
<1>1. IsFiniteSet(Accounts) /\ id \in Nat /\ B \in [Ids -> [Accounts -> Balances]]
    BY IdsAreNat, FertilizerAssumption DEF Marks
<1>2. new \in Balances /\ new.amount = n /\ new.lastBpf = Lesser(b, id)
    BY <1>1 DEF Balances, Lesser
<1> HIDE DEF new
<1>3. /\ B2 \in [Ids -> [Accounts -> Balances]]
      /\ \A k \in Ids, a \in Accounts : B2[k][a] = IF k = id /\ a = c THEN new ELSE B[k][a]
    BY <1>1, <1>2 DEF new
<1>4. Marks(B2, b)
  <2>1. \A k \in Ids, a \in Accounts : B2[k][a].lastBpf <= Lesser(b, k)
    <3> SUFFICES ASSUME NEW k \in Ids, NEW a \in Accounts
                 PROVE  B2[k][a].lastBpf <= Lesser(b, k)
        OBVIOUS
    <3>1. B[k][a].lastBpf <= Lesser(b, k) /\ Lesser(b, id) <= Lesser(b, id)
        BY <1>1 DEF Marks, Lesser
    <3> QED
        BY <1>2, <1>3, <3>1
  <2> QED
      BY <1>3, <2>1 DEF Marks
<1>5. FertilizedIn(B2, b, c, id) = 0
  <2>1. FertilizedIn(B2, b, c, id) = (Lesser(b, id) - Lesser(b, id)) * n
      BY <1>2, <1>3, Zenon DEF FertilizedIn
  <2> QED
      BY <1>1, <2>1 DEF Lesser
<1>6. PaidFor(B, b, c, {id}, B2)
  <2> SUFFICES ASSUME NEW a \in Accounts, NEW k \in Ids
               PROVE  FertilizedIn(B2, b, a, k) = IF a = c /\ k \in {id} THEN 0
                                                  ELSE FertilizedIn(B, b, a, k)
      BY DEF PaidFor
  <2>1. CASE a = c /\ k = id
      BY <1>5, <2>1
  <2>2. CASE ~(a = c /\ k = id)
      BY <1>3, <2>2 DEF FertilizedIn
  <2> QED
      BY <2>1, <2>2
<1>7. \A k \in Ids : /\ Held(B, k) \in [Accounts -> Nat] /\ Held(B2, k) \in [Accounts -> Nat]
                     /\ Sum(Held(B, k)) \in Nat /\ Sum(Held(B2, k)) \in Nat
  <2> SUFFICES ASSUME NEW k \in Ids
               PROVE  /\ Held(B, k) \in [Accounts -> Nat] /\ Held(B2, k) \in [Accounts -> Nat]
                      /\ Sum(Held(B, k)) \in Nat /\ Sum(Held(B2, k)) \in Nat
      OBVIOUS
  <2>1. \A a \in Accounts : B[k][a].amount \in Nat /\ B2[k][a].amount \in Nat
      BY <1>1, <1>3 DEF Balances
  <2>2. Held(B, k) \in [Accounts -> Nat] /\ Held(B2, k) \in [Accounts -> Nat]
      BY <2>1 DEF Held
  <2>3. IsFiniteSet(DOMAIN Held(B, k)) /\ IsFiniteSet(DOMAIN Held(B2, k))
        /\ (\A x \in DOMAIN Held(B, k) : Held(B, k)[x] \in Nat)
        /\ (\A x \in DOMAIN Held(B2, k) : Held(B2, k)[x] \in Nat)
      BY <1>1, <2>2
  <2> QED
      BY <2>2, <2>3, SumType
<1>8. ASSUME NEW k \in Ids, k # id
      PROVE  Sum(Held(B2, k)) = Sum(Held(B, k))
  <2>1. Held(B2, k) = Held(B, k)
      BY <1>3, <1>8 DEF Held
  <2> QED
      BY <2>1
<1>9. Sum(Held(B2, id)) = (Sum(Held(B, id)) - B[id][c].amount) + n
  <2> DEFINE f == Held(B, id)
  <2>1. f \in [Accounts -> Nat] /\ f[c] = B[id][c].amount
      BY <1>7 DEF Held
  <2>2. Held(B2, id) = [f EXCEPT ![c] = n]
      BY <1>2, <1>3 DEF Held
  <2> HIDE DEF f
  <2>3. Sum([f EXCEPT ![c] = n]) = Sum(f) - f[c] + n
      BY <1>1, <2>1, SumUpdate
  <2>4. Sum(f) \in Nat /\ f[c] \in Nat
      BY <1>7, <2>1 DEF f
  <2> QED
      BY <2>1, <2>2, <2>3, <2>4 DEF f
<1>10. B2[id][c].amount = n
    BY <1>2, <1>3
<1> QED
    BY <1>4, <1>5, <1>6, <1>7, <1>8, <1>9, <1>10 DEF Rewritten

\* Marking c as paid of several ids.
Marked(B, b, c, ids) ==
    [id \in Ids |-> IF id \in ids THEN [B[id] EXCEPT ![c].lastBpf = Lesser(b, id)] ELSE B[id]]

\* A claim marks c as paid of several ids.
LEMMA MarkPaid ==
    ASSUME NEW B, NEW b \in Nat, Marks(B, b), NEW c \in Accounts, NEW ids \in SUBSET Ids,
           NEW B2, B2 = Marked(B, b, c, ids)
    PROVE  /\ Marks(B2, b) /\ PaidFor(B, b, c, ids, B2)
           /\ \A id \in Ids : Held(B2, id) = Held(B, id)
<1> USE DEF Marked
<1>1. /\ B \in [Ids -> [Accounts -> Balances]]
      /\ \A id \in Ids : id \in Nat /\ Lesser(b, id) \in Nat /\ Lesser(b, id) <= Lesser(b, id)
      /\ \A id \in Ids, a \in Accounts : B[id][a].lastBpf <= Lesser(b, id)
    BY IdsAreNat DEF Marks, Lesser
<1>2. ASSUME NEW id \in Ids, NEW a \in Accounts
      PROVE  /\ B2[id] \in [Accounts -> Balances]
             /\ B2[id][a].amount = B[id][a].amount
             /\ B2[id][a].lastBpf = IF a = c /\ id \in ids THEN Lesser(b, id)
                                    ELSE B[id][a].lastBpf
  <2>1. B[id] \in [Accounts -> Balances] /\ B[id][a] \in Balances /\ Lesser(b, id) \in Nat
      BY <1>1
  <2>2. B[id][c] \in Balances
      BY <1>1
  <2> QED
      BY <2>1, <2>2 DEF Balances
<1>3. B2 \in [Ids -> [Accounts -> Balances]]
  <2>1. \A id \in Ids : B2[id] \in [Accounts -> Balances]
      BY <1>2
  <2>2. B2 = [id \in Ids |-> B2[id]]
      OBVIOUS
  <2> HIDE DEF Ids
  <2> QED
      BY <2>1, <2>2
<1>4. Marks(B2, b)
  <2>1. \A id \in Ids, a \in Accounts : B2[id][a].lastBpf <= Lesser(b, id)
      BY <1>1, <1>2
  <2> QED
      BY <1>3, <2>1 DEF Marks
<1>5. PaidFor(B, b, c, ids, B2)
  <2> SUFFICES ASSUME NEW a \in Accounts, NEW id \in Ids
               PROVE  FertilizedIn(B2, b, a, id) = IF a = c /\ id \in ids THEN 0
                                                   ELSE FertilizedIn(B, b, a, id)
      BY DEF PaidFor
  <2>1. CASE a = c /\ id \in ids
    <3> DEFINE n == B[id][a].amount
               y == Lesser(b, id)
    <3>1. n \in Nat /\ y \in Nat /\ FertilizedIn(B2, b, a, id) = (y - y) * n
        BY <1>1, <1>2, <2>1 DEF FertilizedIn, Balances
    <3> HIDE DEF n, y
    <3>2. (y - y) * n = 0
        BY <3>1
    <3> QED
        BY <2>1, <3>1, <3>2
  <2>2. CASE ~(a = c /\ id \in ids)
      BY <1>2, <2>2 DEF FertilizedIn
  <2> QED
      BY <2>1, <2>2
<1>6. \A id \in Ids : Held(B2, id) = Held(B, id)
    BY <1>2 DEF Held
<1> HIDE DEF Marked
<1> QED
    BY <1>4, <1>5, <1>6

(***************************************************************************)
(* The money at every step                                                 *)
(***************************************************************************)

\* What new Fertilizer of some id backs.
Backed(n, id) ==
    /\ NewDepositedMoons(n) \in Nat
    /\ BackingMinted(n) \in Banks
    /\ Surplus(BackingMinted(n)) = Surplus(bank) + NewDepositedMoons(n)
    /\ \A a \in Accounts : WealthOf(BackingMinted(n), a) = WealthOf(bank, a)
    /\ recapitalized' \in Nat
    /\ unripe' \in [supply : [Unripe -> Nat], underlying : [Unripe -> Nat]]
    /\ unripe'.underlying["Moon"] = unripe.underlying["Moon"] + NewDepositedMoons(n)
    /\ unripe'.supply = unripe.supply
    /\ \A token \in Unripe : unripe'.underlying[token] >= unripe.underlying[token]
    /\ id \in Ids /\ id > bpf
    /\ fertilizer' = [fertilizer EXCEPT ![id] = fertilizer[id] + n]
    /\ bpf' = bpf /\ fertilizedIndex' = fertilizedIndex /\ minted' = minted

\* Adding Fertilizer does so, for some id that has not ended.
LEMMA AddBacks ==
    ASSUME QInv, Money, NEW s \in Nat, NEW n \in Nat, NEW newLP \in Nat,
           AddFertilizer(s, n, newLP)
    PROVE  Backed(n, bpf + Bpf(s))
<1> DEFINE m == NewDepositedMoons(n)
           k == BackingMinted(n)
           id == bpf + Bpf(s)
<1>1. /\ HasHumidity(s) /\ id <= MaxId
      /\ fertilizer' = [fertilizer EXCEPT ![id] = fertilizer[id] + n]
      /\ AddUnderlying(n, newLP)
      /\ bpf' = bpf /\ fertilizedIndex' = fertilizedIndex /\ minted' = minted
    BY DEF AddFertilizer, paidVars
<1>2. bpf \in Nat /\ Bpf(s) \in Nat \ {0} /\ MaxId \in Nat
    BY <1>1, BpfType, IdsAreNat, FertilizerAssumption DEF QInv, QueueTypes
<1>3. id \in Ids /\ id > bpf
    BY <1>1, <1>2 DEF Ids
<1>4. m \in Nat
    BY <1>1, BackingType DEF AddUnderlying
<1> HIDE DEF m
<1>5. /\ recapitalized \in Nat /\ bank \in Banks
      /\ unripe \in [supply : [Unripe -> Nat], underlying : [Unripe -> Nat]]
    BY DEF Money
<1>6. /\ unripe' = [unripe EXCEPT !.underlying["Moon"] = unripe.underlying["Moon"] + m,
                                  !.underlying["LP"]   = unripe.underlying["LP"] + newLP]
      /\ recapitalized' = recapitalized + n
    BY <1>1, <1>5 DEF AddUnderlying, Unripe, m
<1>7. /\ unripe' \in [supply : [Unripe -> Nat], underlying : [Unripe -> Nat]]
      /\ unripe'.underlying["Moon"] = unripe.underlying["Moon"] + m
      /\ unripe'.supply = unripe.supply
      /\ \A token \in Unripe : unripe'.underlying[token] >= unripe.underlying[token]
  <2> DEFINE u == unripe.underlying
             v == [u EXCEPT !["Moon"] = u["Moon"] + m]
             w == [v EXCEPT !["LP"] = u["LP"] + newLP]
  <2>1. u \in [Unripe -> Nat] /\ unripe.supply \in [Unripe -> Nat] /\ "Moon" \in Unripe
        /\ "LP" \in Unripe
      BY <1>5 DEF Unripe
  <2>2. v \in [Unripe -> Nat] /\ v["Moon"] = u["Moon"] + m /\ u["LP"] + newLP \in Nat
      BY <1>4, <2>1
  <2> HIDE DEF v
  <2>3. /\ w \in [Unripe -> Nat] /\ w["Moon"] = u["Moon"] + m
        /\ w["LP"] = u["LP"] + newLP /\ u["LP"] \in Nat /\ u["Moon"] \in Nat
      BY <2>1, <2>2
  <2>4. unripe' = [supply |-> unripe.supply, underlying |-> w]
      BY <1>5, <1>6, <2>1 DEF v
  <2> HIDE DEF w
  <2>5. \A token \in Unripe : w[token] >= u[token]
      BY <1>4, <2>3 DEF Unripe
  <2> QED
      BY <2>1, <2>3, <2>4, <2>5
<1>8. /\ bank.internal \in [Accounts -> Nat] /\ bank.wallet \in [Accounts -> Nat]
      /\ bank.held \in Nat
      /\ k = [wallet |-> bank.wallet, internal |-> bank.internal, held |-> bank.held + m]
    BY <1>5 DEF Banks, BackingMinted, m
<1> HIDE DEF k
<1>9. k \in Banks /\ \A a \in Accounts : WealthOf(k, a) = WealthOf(bank, a)
    BY <1>4, <1>8 DEF Banks, WealthOf
<1>10. Surplus(k) = Surplus(bank) + m
  <2>1. Sum(bank.internal) \in Nat
    <3>1. IsFiniteSet(DOMAIN bank.internal)
          /\ \A x \in DOMAIN bank.internal : bank.internal[x] \in Nat
        BY <1>8, FertilizerAssumption
    <3> QED
        BY <3>1, SumType
  <2> QED
      BY <1>4, <1>8, <2>1 DEF Surplus
<1>11. recapitalized' \in Nat
    BY <1>5, <1>6
<1> QED
    BY <1>1, <1>3, <1>4, <1>7, <1>9, <1>10, <1>11 DEF Backed, m, k

\* More Fertilizer of an id leaves what there is supplied.
LEMMA MoreSupplied ==
    ASSUME QueueTypes, NEW id \in Ids, NEW n \in Nat, NEW G,
           G = [fertilizer EXCEPT ![id] = fertilizer[id] + n],
           NEW B, NEW B2, Supplied(B, fertilizer),
           \A k \in Ids : Sum(Held(B, k)) \in Nat /\ Sum(Held(B2, k)) \in Nat,
           \A k \in Ids : k # id => Sum(Held(B2, k)) = Sum(Held(B, k)),
           Sum(Held(B2, id)) <= Sum(Held(B, id)) + n
    PROVE  Supplied(B2, G)
<1> SUFFICES ASSUME NEW k \in Ids
             PROVE  Sum(Held(B2, k)) <= G[k]
    BY DEF Supplied, Held
<1>1. fertilizer \in [Ids -> Nat] /\ fertilizer[k] \in Nat
    BY DEF QueueTypes
<1>2. Sum(Held(B, k)) <= fertilizer[k]
    BY Zenon DEF Supplied, Held
<1>3. G[k] = IF k = id THEN fertilizer[k] + n ELSE fertilizer[k]
    BY <1>1
<1> DEFINE x == Sum(Held(B, k))
           y == Sum(Held(B2, k))
<1>4. x \in Nat /\ y \in Nat /\ x <= fertilizer[k] /\ (k # id => y = x)
      /\ (k = id => y <= x + n)
    BY <1>2
<1> HIDE DEF x, y
<1>5. y <= G[k]
    BY <1>1, <1>3, <1>4
<1> QED
    BY <1>5 DEF y

\* What some accounts hold of an id are natural numbers.
LEMMA HeldType ==
    ASSUME NEW B, NEW b, Marks(B, b), NEW id \in Ids
    PROVE  Held(B, id) \in [Accounts -> Nat] /\ Sum(Held(B, id)) \in Nat
<1>1. IsFiniteSet(Accounts) /\ \A a \in Accounts : B[id][a].amount \in Nat
    BY FertilizerAssumption DEF Marks, Balances
<1>2. Held(B, id) \in [Accounts -> Nat]
    BY <1>1 DEF Held
<1>3. IsFiniteSet(DOMAIN Held(B, id)) /\ \A x \in DOMAIN Held(B, id) : Held(B, id)[x] \in Nat
    BY <1>1, <1>2
<1> QED
    BY <1>2, <1>3, SumType

\* The owner adds Fertilizer that no account holds.
LEMMA OwnerMoney ==
    ASSUME QInv, Money, NEW s \in Nat, NEW n \in Nat, NEW newLP \in Nat,
           AddFertilizerOwner(s, n, newLP)
    PROVE  /\ Money' /\ bpf' = bpf
           /\ SameWorth(balances, bpf, bank, balances', bank')
<1> DEFINE m == NewDepositedMoons(n)
           id == bpf + Bpf(s)
<1>1. AddFertilizer(s, n, newLP) /\ bank' = BackingMinted(n) /\ balances' = balances
    BY DEF AddFertilizerOwner
<1>2. Backed(n, id)
    BY <1>1, AddBacks
<1> HIDE DEF id
<1>3. QueueTypes /\ fertilizedIndex \in Nat /\ bpf \in Nat
    BY IdsAreNat DEF QInv, QueueTypes
<1>4. /\ minted \in Nat /\ bank \in Banks
      /\ unripe \in [supply : [Unripe -> Nat], underlying : [Unripe -> Nat]]
      /\ Marks(balances, bpf) /\ Supplied(balances, fertilizer)
      /\ Surplus(bank) >= TotalIn(balances, bpf) + unripe.underlying["Moon"]
                          + (minted - fertilizedIndex)
    BY DEF Money
<1>5. /\ TotalIn(balances, bpf) \in Nat /\ Surplus(bank) \in Int
      /\ unripe.underlying["Moon"] \in Nat
    BY <1>3, <1>4, ClaimTypes, SurplusType DEF Unripe
<1>6. Supplied(balances, fertilizer')
  <2>1. \A k \in Ids : Sum(Held(balances, k)) \in Nat
      BY <1>4, HeldType
  <2>2. /\ id \in Ids
        /\ fertilizer' = [fertilizer EXCEPT ![id] = fertilizer[id] + n]
      BY <1>2 DEF Backed
  <2>3. Sum(Held(balances, id)) <= Sum(Held(balances, id)) + n
      BY <2>1, <2>2
  <2> QED
      BY <1>3, <1>4, <2>1, <2>2, <2>3, MoreSupplied
<1>7. /\ m \in Nat /\ Surplus(bank') = Surplus(bank) + m
      /\ unripe'.underlying["Moon"] = unripe.underlying["Moon"] + m
      /\ bpf' = bpf /\ minted' = minted /\ fertilizedIndex' = fertilizedIndex
      /\ bank' \in Banks /\ recapitalized' \in Nat
      /\ unripe' \in [supply : [Unripe -> Nat], underlying : [Unripe -> Nat]]
      /\ \A a \in Accounts : WealthOf(bank', a) = WealthOf(bank, a)
    BY <1>1, <1>2, Zenon DEF Backed
<1> HIDE DEF m
<1>8. Surplus(bank') >= TotalIn(balances', bpf') + unripe'.underlying["Moon"]
                          + (minted' - fertilizedIndex')
  <2> DEFINE t == TotalIn(balances, bpf)
  <2>1. TotalIn(balances', bpf') = t
      BY <1>1, <1>7
  <2> HIDE DEF t
  <2> QED
      BY <1>3, <1>4, <1>5, <1>7, <2>1 DEF t
<1>9. Marks(balances', bpf') /\ Supplied(balances', fertilizer')
    BY <1>1, <1>4, <1>6, <1>7
<1>10. SameWorth(balances, bpf, bank, balances', bank')
    BY <1>1, <1>7 DEF SameWorth
<1> QED
    BY <1>4, <1>7, <1>8, <1>9, <1>10, Zenon DEF Money

\* Claims are what the code computes from the balances.
LEMMA FertilizedNow ==
    ASSUME NEW a, NEW id
    PROVE  Fertilized(a, id) = FertilizedIn(balances, bpf, a, id)
BY DEF Fertilized, FertilizedIn, StopBpf

\* A step that pays claims, or backs Unripe Moons with what it mints, keeps
\* what the diamond holds for the rest.
LEMMA PaidMoney ==
    ASSUME Money, fertilizedIndex \in Nat, bpf \in Nat,
           NEW m \in Nat, NEW k \in Banks, Surplus(k) = Surplus(bank) + m,
           \A a \in Accounts : WealthOf(k, a) = WealthOf(bank, a),
           PaysDue(balances, bpf, k, balances', bank'),
           Marks(balances', bpf), Supplied(balances', fertilizer'),
           bpf' = bpf, fertilizedIndex' = fertilizedIndex, minted' = minted,
           recapitalized' \in Nat,
           unripe' \in [supply : [Unripe -> Nat], underlying : [Unripe -> Nat]],
           unripe'.underlying["Moon"] = unripe.underlying["Moon"] + m
    PROVE  /\ Money' /\ bpf' = bpf
           /\ SameWorth(balances, bpf, bank, balances', bank')
<1>1. /\ minted \in Nat /\ unripe.underlying["Moon"] \in Nat
      /\ Surplus(bank) >= TotalIn(balances, bpf) + unripe.underlying["Moon"]
                          + (minted - fertilizedIndex)
      /\ bank \in Banks
    BY DEF Money, Unripe
<1>2. /\ bank' \in Banks
      /\ SameWorth(balances, bpf, k, balances', bank')
      /\ Surplus(bank') \in Int /\ Surplus(k) \in Int
      /\ TotalIn(balances', bpf) \in Nat /\ TotalIn(balances, bpf) \in Nat
      /\ Surplus(bank') - TotalIn(balances', bpf) = Surplus(k) - TotalIn(balances, bpf)
    BY DEF PaysDue
<1>3. Surplus(bank) \in Int
    BY <1>1, SurplusType
<1>4. SameWorth(balances, bpf, bank, balances', bank')
    BY <1>2 DEF SameWorth
<1>5. Surplus(bank') >= TotalIn(balances', bpf') + unripe'.underlying["Moon"]
                          + (minted' - fertilizedIndex')
  <2> DEFINE t == TotalIn(balances, bpf)
             t2 == TotalIn(balances', bpf)
             s == Surplus(bank)
             s2 == Surplus(bank')
             u == unripe.underlying["Moon"]
  <2>1. s2 >= t2 + (u + m) + (minted - fertilizedIndex)
    <3>1. /\ s \in Int /\ s2 \in Int /\ t \in Nat /\ t2 \in Nat /\ u \in Nat /\ m \in Nat
          /\ minted \in Nat /\ fertilizedIndex \in Nat
          /\ s >= t + u + (minted - fertilizedIndex)
          /\ s2 - t2 = (s + m) - t
        BY <1>1, <1>2, <1>3
    <3> HIDE DEF t, t2, s, s2, u
    <3> QED
        BY <3>1
  <2> QED
      BY <2>1
<1>6. Marks(balances', bpf')
    BY Zenon
<1>7. minted' \in Nat
    BY <1>1
<1> QED
    BY <1>2, <1>4, <1>5, <1>6, <1>7, Zenon DEF Money

\* The buyer of Fertilizer is paid what it can claim of the same id first.
LEMMA MintMoney ==
    ASSUME QInv, Money, NEW c \in Accounts, NEW asked \in Nat, NEW n \in Nat, NEW newLP \in Nat,
           MintFertilizer(c, asked, n, newLP)
    PROVE  /\ Money' /\ bpf' = bpf
           /\ SameWorth(balances, bpf, bank, balances', bank')
<1> DEFINE id == bpf + Bpf(season)
           m == NewDepositedMoons(n)
           k == BackingMinted(n)
           p == Due(balances, bpf, c, {id})
           old == balances[id][c].amount
<1>1. /\ AddFertilizer(season, n, newLP)
      /\ bank' = SendToken(k, Settled(c, id), c, "INTERNAL")
      /\ balances' = [balances EXCEPT ![id][c] = [amount |-> old + n, lastBpf |-> bpf]]
    BY DEF MintFertilizer, Purchase
<1>2. /\ QueueTypes /\ fertilizedIndex \in Nat /\ bpf \in Nat /\ season \in Nat
      /\ Marks(balances, bpf) /\ Supplied(balances, fertilizer)
    BY IdsAreNat DEF QInv, QueueTypes, Money
<1>3. Backed(n, id)
    BY <1>1, <1>2, AddBacks
<1> HIDE DEF id
<1>4. /\ id \in Ids /\ id > bpf /\ m \in Nat /\ k \in Banks
      /\ Surplus(k) = Surplus(bank) + m
      /\ \A a \in Accounts : WealthOf(k, a) = WealthOf(bank, a)
      /\ fertilizer' = [fertilizer EXCEPT ![id] = fertilizer[id] + n]
      /\ bpf' = bpf /\ minted' = minted /\ fertilizedIndex' = fertilizedIndex
      /\ recapitalized' \in Nat
      /\ unripe' \in [supply : [Unripe -> Nat], underlying : [Unripe -> Nat]]
      /\ unripe'.underlying["Moon"] = unripe.underlying["Moon"] + m
    BY <1>3, Zenon DEF Backed
<1> HIDE DEF m, k
<1>5. old \in Nat /\ balances[id][c].lastBpf \in Nat
    BY <1>2, <1>4 DEF Marks, Balances
<1>6. Lesser(bpf, id) = bpf
    BY <1>2, <1>4, IdsAreNat DEF Lesser
<1>7. /\ Marks(balances', bpf)
      /\ PaidFor(balances, bpf, c, {id}, balances')
      /\ Sum(Held(balances', id)) = (Sum(Held(balances, id)) - old) + (old + n)
      /\ \A x \in Ids : x # id => Sum(Held(balances', x)) = Sum(Held(balances, x))
      /\ \A x \in Ids : Sum(Held(balances, x)) \in Nat /\ Sum(Held(balances', x)) \in Nat
  <2>1. balances' = [balances EXCEPT ![id][c] = [amount |-> old + n, lastBpf |-> Lesser(bpf, id)]]
      BY <1>1, <1>6
  <2>2. old + n \in Nat
      BY <1>5
  <2>3. Rewritten(balances, bpf, c, id, old + n, balances')
      BY <1>2, <1>4, <2>1, <2>2, NewRecord
  <2> QED
      BY <2>3, Zenon DEF Rewritten
<1>8. Settled(c, id) = p
  <2>1. p = FertilizedIn(balances, bpf, c, id) /\ Fertilized(c, id) = FertilizedIn(balances, bpf, c, id)
      BY <1>2, <1>4, DueOfOne, FertilizedNow
  <2>2. CASE old > 0
      BY <2>1, <2>2 DEF Settled
  <2>3. CASE ~(old > 0)
    <3>1. old = 0
        BY <1>5, <2>3
    <3>2. FertilizedIn(balances, bpf, c, id) = (bpf - balances[id][c].lastBpf) * 0
        BY <1>6, <3>1 DEF FertilizedIn
    <3>3. FertilizedIn(balances, bpf, c, id) = 0
        BY <1>2, <1>5, <3>2
    <3> QED
        BY <2>1, <2>3, <3>3 DEF Settled
  <2> QED
      BY <2>2, <2>3
<1> HIDE DEF old
<1>9. PaysDue(balances, bpf, k, balances', bank')
  <2>1. {id} \in SUBSET Ids /\ "INTERNAL" \in ToModes /\ CanSend(k, p, "INTERNAL")
      BY <1>4 DEF ToModes, CanSend
  <2>2. bank' = SendToken(k, p, c, "INTERNAL")
      BY <1>1, <1>8
  <2>3. PaysDue(balances, bpf, k, balances', SendToken(k, p, c, "INTERNAL"))
      BY <1>2, <1>4, <1>7, <2>1, PayDue
  <2> QED
      BY <2>2, <2>3
<1>10. Supplied(balances', fertilizer')
  <2>1. Sum(Held(balances', id)) <= Sum(Held(balances, id)) + n
    <3> DEFINE x == Sum(Held(balances, id))
    <3>1. x \in Nat /\ Sum(Held(balances', id)) = (x - old) + (old + n) /\ old \in Nat
        BY <1>4, <1>5, <1>7 DEF old
    <3> HIDE DEF x
    <3>2. Sum(Held(balances', id)) <= x + n
        BY <3>1
    <3> QED
        BY <3>2 DEF x
  <2> QED
      BY <1>2, <1>4, <1>7, <2>1, MoreSupplied
<1> QED
    BY <1>2, <1>4, <1>7, <1>9, <1>10, PaidMoney

\* A claim.
LEMMA ClaimMoney ==
    ASSUME QInv, Money, NEW c \in Accounts, NEW ids \in SUBSET Ids, NEW mode \in ToModes,
           ClaimFertilized(c, ids, mode)
    PROVE  /\ Money' /\ bpf' = bpf
           /\ SameWorth(balances, bpf, bank, balances', bank')
<1> DEFINE p == Due(balances, bpf, c, ids)
           amount == Sum([id \in ids |-> Fertilized(c, id)])
<1>1. /\ CanSend(bank, amount, mode) /\ bank' = SendToken(bank, amount, c, mode)
      /\ balances' = [id \in Ids |-> IF id \in ids
                                     THEN [balances[id] EXCEPT ![c].lastBpf = Lesser(bpf, id)]
                                     ELSE balances[id]]
      /\ bpf' = bpf /\ fertilizedIndex' = fertilizedIndex /\ minted' = minted
      /\ recapitalized' = recapitalized /\ unripe' = unripe /\ fertilizer' = fertilizer
  <2>1. /\ CanSend(bank, amount, mode) /\ bank' = SendToken(bank, amount, c, mode)
        /\ bpf' = bpf /\ fertilizedIndex' = fertilizedIndex /\ minted' = minted
        /\ recapitalized' = recapitalized /\ unripe' = unripe /\ fertilizer' = fertilizer
        /\ balances' = [id \in Ids |-> IF id \in ids THEN Update(balances, c, id)[id]
                                       ELSE balances[id]]
      BY DEF ClaimFertilized, paidVars, queueVars
  <2>2. ASSUME NEW id \in Ids
        PROVE  Update(balances, c, id)[id] = [balances[id] EXCEPT ![c].lastBpf = Lesser(bpf, id)]
      BY DEF Money, Marks, Update, StopBpf
  <2> QED
      BY <2>1, <2>2
<1>2. /\ QueueTypes /\ fertilizedIndex \in Nat /\ bpf \in Nat
      /\ Marks(balances, bpf) /\ Supplied(balances, fertilizer) /\ bank \in Banks
      /\ recapitalized \in Nat
      /\ unripe \in [supply : [Unripe -> Nat], underlying : [Unripe -> Nat]]
    BY IdsAreNat DEF QInv, QueueTypes, Money
<1>3. amount = p
  <2>1. [id \in ids |-> Fertilized(c, id)] = [id \in ids |-> FertilizedIn(balances, bpf, c, id)]
      BY FertilizedNow
  <2> QED
      BY <2>1 DEF Due
<1> HIDE DEF amount, p
<1>4. /\ Marks(balances', bpf) /\ PaidFor(balances, bpf, c, ids, balances')
      /\ \A id \in Ids : Held(balances', id) = Held(balances, id)
  <2>1. balances' = Marked(balances, bpf, c, ids)
      BY <1>1 DEF Marked
  <2>2. bpf \in Nat /\ Marks(balances, bpf)
      BY <1>2
  <2> QED
      BY <2>1, <2>2, MarkPaid
<1>5. PaysDue(balances, bpf, bank, balances', bank')
  <2>1. CanSend(bank, p, mode) /\ bank' = SendToken(bank, p, c, mode)
      BY <1>1, <1>3
  <2>2. PaysDue(balances, bpf, bank, balances', SendToken(bank, p, c, mode))
      BY <1>2, <1>4, <2>1, PayDue DEF p
  <2> QED
      BY <2>1, <2>2
<1>6. Supplied(balances', fertilizer')
  <2> SUFFICES ASSUME NEW id \in Ids
               PROVE  Sum(Held(balances', id)) <= fertilizer'[id]
      BY DEF Supplied, Held
  <2>1. Sum(Held(balances, id)) <= fertilizer[id]
      BY <1>2, Zenon DEF Supplied, Held
  <2> QED
      BY <1>1, <1>4, <2>1
<1>7. Surplus(bank) = Surplus(bank) + 0
    BY <1>2, SurplusType
<1>8. unripe'.underlying["Moon"] = unripe.underlying["Moon"] + 0
    BY <1>1, <1>2 DEF Unripe
<1> QED
    BY <1>1, <1>2, <1>4, <1>5, <1>6, <1>7, <1>8, PaidMoney

\* A payment of nothing to an internal balance changes nothing.
LEMMA SendNothing ==
    ASSUME NEW k \in Banks, NEW a \in Accounts
    PROVE  SendToken(k, 0, a, "INTERNAL") = k
<1>1. /\ k.internal \in [Accounts -> Nat]
      /\ k = [wallet |-> k.wallet, internal |-> k.internal, held |-> k.held]
    BY DEF Banks
<1>2. SendToken(k, 0, a, "INTERNAL")
        = [wallet |-> k.wallet, internal |-> [k.internal EXCEPT ![a] = k.internal[a] + 0],
           held |-> k.held]
    BY <1>1 DEF SendToken
<1>3. [k.internal EXCEPT ![a] = k.internal[a] + 0] = k.internal
    BY <1>1
<1> QED
    BY <1>1, <1>2, <1>3

\* Records while they are updated.
Records == [amount : Int, lastBpf : Nat]

\* One record changes.
OnlyRecord(B, id, c, v, B2) ==
    /\ B2 \in [Ids -> [Accounts -> Records]]
    /\ B2[id][c] = v
    /\ \A k \in Ids, a \in Accounts : ~(k = id /\ a = c) => B2[k][a] = B[k][a]

\* All of it, or one of its fields.
LEMMA SetRecord ==
    ASSUME NEW B \in [Ids -> [Accounts -> Records]], NEW id \in Ids, NEW c \in Accounts,
           NEW v \in Records, NEW B2, B2 = [B EXCEPT ![id][c] = v]
    PROVE  OnlyRecord(B, id, c, v, B2)
BY DEF OnlyRecord

\* How far it is marked as paid.
LEMMA SetLastBpf ==
    ASSUME NEW B \in [Ids -> [Accounts -> Records]], NEW id \in Ids, NEW c \in Accounts,
           NEW v \in Nat, NEW B2, B2 = [B EXCEPT ![id][c].lastBpf = v]
    PROVE  OnlyRecord(B, id, c, [amount |-> B[id][c].amount, lastBpf |-> v], B2)
<1>1. B[id][c] \in Records
    OBVIOUS
<1>2. [B[id][c] EXCEPT !.lastBpf = v] = [amount |-> B[id][c].amount, lastBpf |-> v]
      /\ [amount |-> B[id][c].amount, lastBpf |-> v] \in Records
    BY <1>1 DEF Records
<1>3. B2 = [B EXCEPT ![id][c] = [amount |-> B[id][c].amount, lastBpf |-> v]]
    BY <1>2
<1> QED
    BY <1>2, <1>3, SetRecord

\* How much there is.
LEMMA SetAmount ==
    ASSUME NEW B \in [Ids -> [Accounts -> Records]], NEW id \in Ids, NEW c \in Accounts,
           NEW v \in Int, NEW B2, B2 = [B EXCEPT ![id][c].amount = v]
    PROVE  OnlyRecord(B, id, c, [amount |-> v, lastBpf |-> B[id][c].lastBpf], B2)
<1>1. B[id][c] \in Records
    OBVIOUS
<1>2. [B[id][c] EXCEPT !.amount = v] = [amount |-> v, lastBpf |-> B[id][c].lastBpf]
      /\ [amount |-> v, lastBpf |-> B[id][c].lastBpf] \in Records
    BY <1>1 DEF Records
<1>3. B2 = [B EXCEPT ![id][c] = [amount |-> v, lastBpf |-> B[id][c].lastBpf]]
    BY <1>2
<1> QED
    BY <1>2, <1>3, SetRecord

\* A transfer pays the sender, then the recipient, and then moves the tokens.
LEMMA TransferMoney ==
    ASSUME QInv, Money, NEW from \in Accounts, NEW to \in Accounts, NEW id \in Ids,
           NEW amount \in Nat, SafeTransferFrom(from, to, id, amount)
    PROVE  /\ Money' /\ bpf' = bpf
           /\ SameWorth(balances, bpf, bank, balances', bank')
<1> DEFINE stop == Lesser(bpf, id)
           m == balances[id][from].amount
           B1 == [balances EXCEPT ![id][from] = [amount |-> m - amount, lastBpf |-> stop]]
           n == B1[id][to].amount
           B2 == [B1 EXCEPT ![id][to] = [amount |-> n + amount, lastBpf |-> stop]]
           p == Due(balances, bpf, from, {id})
           q == Due(B1, bpf, to, {id})
           paid == SendToken(bank, p, from, "INTERNAL")
<1>1. /\ m >= amount
      /\ bpf' = bpf /\ fertilizedIndex' = fertilizedIndex /\ minted' = minted
      /\ recapitalized' = recapitalized /\ unripe' = unripe /\ fertilizer' = fertilizer
    BY DEF SafeTransferFrom, paidVars, queueVars
<1>2. /\ QueueTypes /\ fertilizedIndex \in Nat /\ bpf \in Nat
      /\ Marks(balances, bpf) /\ Supplied(balances, fertilizer) /\ bank \in Banks
      /\ recapitalized \in Nat
      /\ unripe \in [supply : [Unripe -> Nat], underlying : [Unripe -> Nat]]
      /\ amount \in Nat
    BY IdsAreNat DEF QInv, QueueTypes, Money
<1>3. balances \in [Ids -> [Accounts -> Balances]] /\ m \in Nat /\ stop \in Nat
      /\ m - amount \in Nat
    BY <1>1, <1>2, IdsAreNat DEF Marks, Balances, Lesser
<1>4. Rewritten(balances, bpf, from, id, m - amount, B1)
    BY <1>2, <1>3, NewRecord
<1>5. /\ Marks(B1, bpf) /\ PaidFor(balances, bpf, from, {id}, B1)
      /\ FertilizedIn(B1, bpf, from, id) = 0
      /\ Sum(Held(B1, id)) = (Sum(Held(balances, id)) - m) + (m - amount)
      /\ \A x \in Ids : x # id => Sum(Held(B1, x)) = Sum(Held(balances, x))
      /\ \A x \in Ids : Sum(Held(balances, x)) \in Nat /\ Sum(Held(B1, x)) \in Nat
    BY <1>4, Zenon DEF Rewritten
<1>6. n \in Nat /\ n + amount \in Nat
  <2>1. B1 \in [Ids -> [Accounts -> Balances]]
      BY <1>5 DEF Marks
  <2> HIDE DEF B1
  <2>2. B1[id][to] \in Balances
      BY <2>1
  <2> QED
      BY <2>2, <1>2 DEF Balances
<1>7. balances' = B2
  <2> DEFINE V == Update(balances, from, id)
             U == UpdateBoth(balances, from, to, id)
             T == [U EXCEPT ![id][from].amount = U[id][from].amount - amount]
             R == [T EXCEPT ![id][to].amount = T[id][to].amount + amount]
  <2>1. balances' = R
      BY DEF SafeTransferFrom
  <2>2. stop \in Nat /\ amount \in Int /\ balances \in [Ids -> [Accounts -> Records]]
      BY <1>2, <1>3 DEF Balances, Records
  <2>3. V = [balances EXCEPT ![id][from].lastBpf = stop]
        /\ U = [V EXCEPT ![id][to].lastBpf = stop]
      BY DEF UpdateBoth, Update, StopBpf
  <2>4. /\ B1 = [balances EXCEPT ![id][from] = [amount |-> m - amount, lastBpf |-> stop]]
        /\ B2 = [B1 EXCEPT ![id][to] = [amount |-> B1[id][to].amount + amount, lastBpf |-> stop]]
      OBVIOUS
  <2>5. m = balances[id][from].amount
      OBVIOUS
  <2> HIDE DEF V, U, stop, B1, B2, m, n
  <2>6. /\ T = [U EXCEPT ![id][from].amount = U[id][from].amount - amount]
        /\ R = [T EXCEPT ![id][to].amount = T[id][to].amount + amount]
      OBVIOUS
  <2> HIDE DEF T, R
  <2>7. OnlyRecord(balances, id, from, [amount |-> m, lastBpf |-> stop], V)
      BY <2>2, <2>3, <2>5, SetLastBpf
  <2>8. OnlyRecord(V, id, to, [amount |-> V[id][to].amount, lastBpf |-> stop], U)
    <3>1. V \in [Ids -> [Accounts -> Records]]
        BY <2>7 DEF OnlyRecord
    <3>2. U = [V EXCEPT ![id][to].lastBpf = stop] /\ stop \in Nat
        BY <2>2, <2>3
    <3> QED
        BY <3>1, <3>2, SetLastBpf
  <2>9. OnlyRecord(U, id, from, [amount |-> U[id][from].amount - amount,
                                 lastBpf |-> U[id][from].lastBpf], T)
    <3>1. U \in [Ids -> [Accounts -> Records]]
        BY <2>8 DEF OnlyRecord
    <3>2. U[id][from].amount - amount \in Int
        BY <2>2, <3>1 DEF Records
    <3> QED
        BY <2>6, <3>1, <3>2, SetAmount
  <2>10. OnlyRecord(T, id, to, [amount |-> T[id][to].amount + amount,
                                lastBpf |-> T[id][to].lastBpf], R)
    <3>1. T \in [Ids -> [Accounts -> Records]]
        BY <2>9 DEF OnlyRecord
    <3>2. T[id][to].amount + amount \in Int
        BY <2>2, <3>1 DEF Records
    <3> DEFINE v == T[id][to].amount + amount
    <3>3. R = [T EXCEPT ![id][to].amount = v] /\ v \in Int
        BY <2>6, <3>2
    <3> HIDE DEF v
    <3>4. OnlyRecord(T, id, to, [amount |-> v, lastBpf |-> T[id][to].lastBpf], R)
        BY <3>1, <3>3, SetAmount
    <3> QED
        BY <3>4 DEF v
  <2>11. OnlyRecord(balances, id, from, [amount |-> m - amount, lastBpf |-> stop], B1)
    <3>1. [amount |-> m - amount, lastBpf |-> stop] \in Records
        BY <1>3, <2>2 DEF Records
    <3> QED
        BY <2>2, <2>4, <3>1, SetRecord
  <2>12. OnlyRecord(B1, id, to, [amount |-> B1[id][to].amount + amount, lastBpf |-> stop], B2)
    <3>1. B1 \in [Ids -> [Accounts -> Records]]
        BY <2>11 DEF OnlyRecord
    <3>2. [amount |-> B1[id][to].amount + amount, lastBpf |-> stop] \in Records
        BY <2>2, <3>1 DEF Records
    <3> QED
        BY <2>4, <3>1, <3>2, SetRecord
  <2>13. T[id][to].amount = B1[id][to].amount /\ T[id][to].lastBpf = stop
    <3>1. CASE from = to
      <4>1. /\ V[id][from] = [amount |-> m, lastBpf |-> stop]
            /\ U[id][from] = [amount |-> V[id][from].amount, lastBpf |-> stop]
            /\ T[id][from] = [amount |-> U[id][from].amount - amount,
                              lastBpf |-> U[id][from].lastBpf]
            /\ B1[id][from] = [amount |-> m - amount, lastBpf |-> stop]
          BY <2>7, <2>8, <2>9, <2>11, <3>1 DEF OnlyRecord
      <4> QED
          BY <3>1, <4>1
    <3>2. CASE from # to
      <4>1. /\ V[id][to] = balances[id][to]
            /\ U[id][to] = [amount |-> V[id][to].amount, lastBpf |-> stop]
            /\ T[id][to] = U[id][to]
            /\ B1[id][to] = balances[id][to]
          BY <2>7, <2>8, <2>9, <2>11, <3>2 DEF OnlyRecord
      <4> QED
          BY <4>1
    <3> QED
        BY <3>1, <3>2
  <2>14. ASSUME NEW k \in Ids, NEW a \in Accounts
         PROVE  R[k][a] = B2[k][a]
    <3>1. CASE k = id /\ a = to
        BY <2>10, <2>12, <2>13, <3>1 DEF OnlyRecord
    <3>2. CASE k = id /\ a = from /\ a # to
      <4>1. /\ V[id][from] = [amount |-> m, lastBpf |-> stop]
            /\ U[id][from] = V[id][from]
            /\ T[id][from] = [amount |-> U[id][from].amount - amount,
                              lastBpf |-> U[id][from].lastBpf]
            /\ R[id][from] = T[id][from]
            /\ B1[id][from] = [amount |-> m - amount, lastBpf |-> stop]
            /\ B2[id][from] = B1[id][from]
          BY <2>7, <2>8, <2>9, <2>10, <2>11, <2>12, <3>2 DEF OnlyRecord
      <4> QED
          BY <3>2, <4>1
    <3>3. CASE ~(k = id /\ (a = from \/ a = to))
        BY <2>7, <2>8, <2>9, <2>10, <2>11, <2>12, <3>3 DEF OnlyRecord
    <3> QED
        BY <3>1, <3>2, <3>3
  <2>15. R \in [Ids -> [Accounts -> Records]] /\ B2 \in [Ids -> [Accounts -> Records]]
      BY <2>10, <2>12 DEF OnlyRecord
  <2>16. ASSUME NEW k \in Ids
         PROVE  R[k] = B2[k]
    <3>1. R[k] \in [Accounts -> Records] /\ B2[k] \in [Accounts -> Records]
        BY <2>15
    <3>2. \A a \in Accounts : R[k][a] = B2[k][a]
        BY <2>14
    <3> QED
        BY <3>1, <3>2
  <2>17. R = B2
      BY <2>15, <2>16
  <2> QED
      BY <2>1, <2>17
<1> HIDE DEF B1
<1>8. Rewritten(B1, bpf, to, id, n + amount, B2)
    BY <1>2, <1>5, <1>6, NewRecord
<1> HIDE DEF B2
<1>9. /\ Marks(B2, bpf) /\ PaidFor(B1, bpf, to, {id}, B2)
      /\ Sum(Held(B2, id)) = (Sum(Held(B1, id)) - n) + (n + amount)
      /\ \A x \in Ids : x # id => Sum(Held(B2, x)) = Sum(Held(B1, x))
      /\ \A x \in Ids : Sum(Held(B2, x)) \in Nat
    BY <1>8, Zenon DEF Rewritten
<1>10. Fertilized(from, id) = p /\ p \in Nat
  <2>1. FertilizedIn(balances, bpf, from, id) \in Nat
      BY <1>2, ClaimTypes
  <2> QED
      BY <1>2, <2>1, DueOfOne, FertilizedNow
<1>11. q = IF from = to THEN 0 ELSE Fertilized(to, id)
  <2>1. q = FertilizedIn(B1, bpf, to, id)
      BY <1>2, <1>5, DueOfOne
  <2>2. from # to => FertilizedIn(B1, bpf, to, id) = FertilizedIn(balances, bpf, to, id)
      BY <1>5 DEF PaidFor
  <2> QED
      BY <1>5, <2>1, <2>2, FertilizedNow
<1> HIDE DEF p, q
<1>12. PaysDue(balances, bpf, bank, B1, paid)
  <2>1. {id} \in SUBSET Ids /\ "INTERNAL" \in ToModes /\ CanSend(bank, p, "INTERNAL")
      BY DEF ToModes, CanSend
  <2> QED
      BY <1>2, <1>5, <2>1, PayDue DEF p
<1>13. paid \in Banks
    BY <1>12 DEF PaysDue
<1>14. bank' = SendToken(paid, q, to, "INTERNAL")
  <2>1. bank' = IF from = to THEN paid ELSE SendToken(paid, Fertilized(to, id), to, "INTERNAL")
      BY <1>10 DEF SafeTransferFrom
  <2>2. SendToken(paid, 0, to, "INTERNAL") = paid
      BY <1>13, SendNothing
  <2> QED
      BY <1>11, <2>1, <2>2
<1> HIDE DEF paid
<1>15. PaysDue(B1, bpf, paid, B2, bank')
  <2>1. {id} \in SUBSET Ids /\ "INTERNAL" \in ToModes /\ CanSend(paid, q, "INTERNAL")
      BY DEF ToModes, CanSend
  <2>2. PaysDue(B1, bpf, paid, B2, SendToken(paid, q, to, "INTERNAL"))
      BY <1>2, <1>5, <1>9, <1>13, <2>1, PayDue DEF q
  <2> QED
      BY <1>14, <2>2
<1>16. PaysDue(balances, bpf, bank, B2, bank')
  <2>1. SameWorth(balances, bpf, bank, B2, bank')
      BY <1>12, <1>15 DEF PaysDue, SameWorth
  <2>2. /\ bank' \in Banks
        /\ Surplus(bank') \in Int /\ Surplus(paid) \in Int /\ Surplus(bank) \in Int
        /\ TotalIn(B2, bpf) \in Nat /\ TotalIn(B1, bpf) \in Nat /\ TotalIn(balances, bpf) \in Nat
        /\ Surplus(bank') - TotalIn(B2, bpf) = Surplus(paid) - TotalIn(B1, bpf)
        /\ Surplus(paid) - TotalIn(B1, bpf) = Surplus(bank) - TotalIn(balances, bpf)
      BY <1>12, <1>15 DEF PaysDue
  <2> QED
      BY <2>1, <2>2 DEF PaysDue
<1>17. Supplied(balances', fertilizer')
  <2> SUFFICES ASSUME NEW k \in Ids
               PROVE  Sum(Held(B2, k)) <= fertilizer[k]
      BY <1>1, <1>7, Zenon DEF Supplied, Held
  <2>1. Sum(Held(balances, k)) <= fertilizer[k]
      BY <1>2, Zenon DEF Supplied, Held
  <2>2. Sum(Held(balances, k)) \in Nat /\ Sum(Held(balances, id)) \in Nat
      BY <1>5
  <2>3. CASE k # id
      BY <1>5, <1>9, <2>1, <2>3
  <2>4. CASE k = id
    <3> HIDE DEF m, n
    <3>1. Sum(Held(B1, id)) = Sum(Held(balances, id)) - amount
        BY <1>2, <1>3, <1>5, <2>2
    <3>2. Sum(Held(B2, id)) = Sum(Held(balances, id))
        BY <1>2, <1>6, <1>9, <2>2, <3>1
    <3> QED
        BY <2>1, <2>4, <3>2
  <2> QED
      BY <2>3, <2>4
<1>18. Surplus(bank) = Surplus(bank) + 0
    BY <1>2, SurplusType
<1>19. unripe'.underlying["Moon"] = unripe.underlying["Moon"] + 0
    BY <1>1, <1>2 DEF Unripe
<1>20. PaysDue(balances, bpf, bank, balances', bank') /\ Marks(balances', bpf)
    BY <1>7, <1>9, <1>16
<1> HIDE DEF stop, m, n
<1> QED
    BY <1>1, <1>2, <1>17, <1>18, <1>19, <1>20, PaidMoney

\* What a chop redeems, and what is left.
Redeemed(token, amount, r) ==
    /\ r = PenalizedUnderlying(token, amount)
    /\ r \in Nat /\ r <= unripe.underlying[token]
    /\ amount = 0 => r = 0
    /\ unripe.supply[token] * r <= unripe.underlying[token] * amount
    /\ amount <= unripe.supply[token]
    /\ unripe'.supply = [unripe.supply EXCEPT ![token] = unripe.supply[token] - amount]
    /\ unripe'.underlying = [unripe.underlying EXCEPT ![token] = unripe.underlying[token] - r]
    /\ unripe' \in [supply : [Unripe -> Nat], underlying : [Unripe -> Nat]]

\* A chop redeems no more than its share.
LEMMA ChopRedeems ==
    ASSUME QInv, Money, NEW c, NEW token \in Unripe, NEW amount \in Nat, NEW mode,
           Chop(c, token, amount, mode)
    PROVE  Redeemed(token, amount, PenalizedUnderlying(token, amount))
<1> DEFINE r == PenalizedUnderlying(token, amount)
           s == unripe.supply
           u == unripe.underlying
           part == (fertilizedIndex * amount) \div unfertilizedIndex
<1>1. /\ s[token] > 0 /\ unfertilizedIndex > 0 /\ amount <= s[token] /\ r <= u[token]
      /\ unripe' = [unripe EXCEPT !.supply[token] = s[token] - amount,
                                  !.underlying[token] = u[token] - r]
    BY DEF Chop
<1>2. /\ unripe \in [supply : [Unripe -> Nat], underlying : [Unripe -> Nat]]
      /\ s \in [Unripe -> Nat] /\ u \in [Unripe -> Nat] /\ s[token] \in Nat /\ u[token] \in Nat
      /\ fertilizedIndex \in Nat /\ unfertilizedIndex \in Nat
      /\ fertilizedIndex <= unfertilizedIndex
  <2>1. QueueTypes /\ bpf \in Nat /\ unfertilizedIndex = fertilizedIndex + OwedAt(bpf)
      BY IdsAreNat DEF QInv, QueueTypes, Owing
  <2>2. OwedAt(bpf) \in Nat
      BY <2>1, OwedTypes
  <2> QED
      BY <2>1, <2>2 DEF Money, QueueTypes
<1>3. r = (u[token] * part) \div s[token]
    BY DEF PenalizedUnderlying
<1> HIDE DEF r
<1>4. \A x, y \in Nat : x * y \in Nat /\ x * 0 = 0
    OBVIOUS
<1>5. part \in Nat /\ (amount = 0 => part = 0) /\ part <= amount
  <2>1. fertilizedIndex * amount \in Nat
      BY <1>2, <1>4
  <2>2. unfertilizedIndex \in Nat \ {0} /\ 0 \div unfertilizedIndex = 0
      BY <1>1, <1>2
  <2>3. fertilizedIndex * amount <= unfertilizedIndex * amount
      BY <1>2, ProductMonotone
  <2>4. part \in Nat /\ part <= amount
      BY <2>1, <2>2, <2>3, QuotientBound
  <2> QED
      BY <1>2, <1>4, <2>2, <2>4
<1> HIDE DEF part
<1>6. r \in Nat /\ (amount = 0 => r = 0) /\ s[token] * r <= u[token] * amount
  <2> DEFINE x == u[token]
             y == s[token]
             z == x * part
  <2>1. x \in Nat /\ y \in Nat \ {0} /\ r = z \div y /\ z \in Nat
      BY <1>1, <1>2, <1>3, <1>4, <1>5
  <2>2. amount = 0 => z = 0
      BY <1>4, <1>5, <2>1
  <2>3. z <= x * amount /\ x * amount \in Nat
      BY <1>5, <2>1, ProductMonotone
  <2>4. u[token] = x /\ s[token] = y
      OBVIOUS
  <2> HIDE DEF x, y, z
  <2>5. r \in Nat /\ y * r <= z
      BY <2>1, DivBounds
  <2>6. y * r \in Nat
      BY <1>4, <2>1, <2>5
  <2>7. amount = 0 => r = 0
      BY <2>1, <2>2
  <2> QED
      BY <2>1, <2>3, <2>4, <2>5, <2>6, <2>7
<1>7. /\ unripe'.supply = [s EXCEPT ![token] = s[token] - amount]
      /\ unripe'.underlying = [u EXCEPT ![token] = u[token] - r]
      /\ unripe' = [supply |-> [s EXCEPT ![token] = s[token] - amount],
                    underlying |-> [u EXCEPT ![token] = u[token] - r]]
    BY <1>1, <1>2
<1>8. unripe' \in [supply : [Unripe -> Nat], underlying : [Unripe -> Nat]]
  <2>1. s[token] - amount \in Nat /\ u[token] - r \in Nat
      BY <1>1, <1>2, <1>6
  <2> QED
      BY <1>2, <1>7, <2>1
<1> QED
    BY <1>1, <1>6, <1>7, <1>8 DEF Redeemed, r

\* A chop pays out Moons that are no longer behind Unripe Moons.
LEMMA ChopMoney ==
    ASSUME QInv, Money, NEW c \in Accounts, NEW token \in Unripe, NEW amount \in Nat,
           NEW mode \in ToModes, Chop(c, token, amount, mode)
    PROVE  /\ Money' /\ bpf' = bpf
           /\ unripe'.supply = unripe.supply
                 => SameWorth(balances, bpf, bank, balances', bank')
<1> DEFINE r == PenalizedUnderlying(token, amount)
           s == unripe.supply
           u == unripe.underlying
<1>1. Redeemed(token, amount, r)
    BY ChopRedeems
<1>2. /\ IF token = "Moon"
         THEN CanSend(bank, r, mode) /\ bank' = SendToken(bank, r, c, mode)
         ELSE bank' = bank
      /\ bpf' = bpf /\ fertilizedIndex' = fertilizedIndex /\ minted' = minted
      /\ recapitalized' = recapitalized /\ balances' = balances /\ fertilizer' = fertilizer
    BY DEF Chop, paidVars, queueVars
<1> HIDE DEF r
<1>3. /\ r \in Nat /\ (amount = 0 => r = 0)
      /\ unripe'.supply = [s EXCEPT ![token] = s[token] - amount]
      /\ unripe'.underlying = [u EXCEPT ![token] = u[token] - r]
      /\ unripe' \in [supply : [Unripe -> Nat], underlying : [Unripe -> Nat]]
    BY <1>1 DEF Redeemed
<1>4. /\ s \in [Unripe -> Nat] /\ u \in [Unripe -> Nat] /\ u["Moon"] \in Nat
      /\ fertilizedIndex \in Nat /\ bpf \in Nat
      /\ recapitalized \in Nat /\ minted \in Nat /\ bank \in Banks
      /\ Marks(balances, bpf) /\ Supplied(balances, fertilizer)
      /\ Surplus(bank) >= TotalIn(balances, bpf) + u["Moon"] + (minted - fertilizedIndex)
    BY IdsAreNat DEF Money, QInv, QueueTypes, Unripe
<1>5. TotalIn(balances, bpf) \in Nat /\ Surplus(bank) \in Int
    BY <1>4, ClaimTypes, SurplusType
<1>6. /\ bank' \in Banks
      /\ Surplus(bank') - unripe'.underlying["Moon"] = Surplus(bank) - u["Moon"]
      /\ Surplus(bank') \in Int /\ unripe'.underlying["Moon"] \in Nat
  <2>1. CASE token = "Moon"
    <3>1. bank' \in Banks /\ Surplus(bank') = Surplus(bank) - r
        BY <1>2, <1>3, <1>4, <2>1, FertilizerAssumption, SendTokenLemma
    <3>2. unripe'.underlying["Moon"] = u["Moon"] - r /\ unripe'.underlying["Moon"] \in Nat
        BY <1>3, <1>4, <2>1 DEF Unripe
    <3> QED
        BY <1>3, <1>4, <1>5, <3>1, <3>2
  <2>2. CASE token # "Moon"
    <3>1. bank' = bank
        BY <1>2, <2>2
    <3>2. unripe'.underlying["Moon"] = u["Moon"]
        BY <1>3, <1>4, <2>2 DEF Unripe
    <3> QED
        BY <1>4, <1>5, <3>1, <3>2
  <2> QED
      BY <2>1, <2>2
<1>7. Surplus(bank') >= TotalIn(balances', bpf') + unripe'.underlying["Moon"]
                          + (minted' - fertilizedIndex')
  <2> DEFINE t == TotalIn(balances, bpf)
             v == unripe'.underlying["Moon"]
             w == u["Moon"]
  <2>1. TotalIn(balances', bpf') = t /\ minted' = minted /\ fertilizedIndex' = fertilizedIndex
      BY <1>2
  <2>2. /\ t \in Nat /\ v \in Nat /\ w \in Nat /\ Surplus(bank) >= t + w + (minted - fertilizedIndex)
        /\ Surplus(bank') - v = Surplus(bank) - w
      BY <1>4, <1>5, <1>6
  <2> HIDE DEF t, v, w
  <2>3. Surplus(bank') >= t + v + (minted - fertilizedIndex)
      BY <1>4, <1>5, <1>6, <2>2
  <2> QED
      BY <2>1, <2>3 DEF v
<1>8. Marks(balances', bpf') /\ Supplied(balances', fertilizer')
      /\ recapitalized' \in Nat /\ minted' \in Nat
    BY <1>2, <1>4
<1>9. ASSUME unripe'.supply = s
      PROVE  SameWorth(balances, bpf, bank, balances', bank')
  <2>1. r = 0
    <3>1. s[token] - amount = s[token] /\ s[token] \in Nat
      <4>1. unripe'.supply[token] = s[token] - amount
          BY <1>3, <1>4
      <4> QED
          BY <1>4, <1>9, <4>1
    <3> QED
        BY <1>3, <3>1
  <2>2. \A a \in Accounts : WealthOf(bank', a) = WealthOf(bank, a)
    <3>1. CASE token = "Moon"
        BY <1>2, <1>4, <2>1, <3>1, SendWealth
    <3>2. CASE token # "Moon"
        BY <1>2, <3>2
    <3> QED
        BY <3>1, <3>2
  <2> QED
      BY <1>2, <2>2 DEF SameWorth
<1> QED
    BY <1>2, <1>3, <1>6, <1>7, <1>8, <1>9, Zenon DEF Money

\* A sunrise mints at least what it pays.
LEMMA SunriseMoney ==
    ASSUME QInv, Money, NEW mint \in Nat, Sunrise(mint)
    PROVE  /\ Money'
           /\ bpf' = bpf => SameWorth(balances, bpf, bank, balances', bank')
<1> DEFINE max == mint \div FertilizerDenominator
           t == TotalIn(balances, bpf)
           u == unripe.underlying["Moon"]
<1>1. /\ minted' = minted + mint
      /\ bank' = [bank EXCEPT !.held = bank.held + mint]
      /\ recapitalized' = recapitalized /\ unripe' = unripe /\ balances' = balances
      /\ IF mint > 0 /\ fertilizing THEN RewardToFertilizer(max)
                                    ELSE UNCHANGED <<paidVars, queueVars>>
    BY DEF Sunrise
<1>2. /\ fertilizedIndex \in Nat /\ bpf \in Nat /\ u \in Nat /\ QueueTypes
      /\ recapitalized \in Nat /\ minted \in Nat /\ bank \in Banks
      /\ unripe \in [supply : [Unripe -> Nat], underlying : [Unripe -> Nat]]
      /\ Marks(balances, bpf) /\ Supplied(balances, fertilizer)
      /\ Surplus(bank) >= t + u + (minted - fertilizedIndex)
    BY IdsAreNat DEF Money, QInv, QueueTypes, Unripe
<1>3. t \in Nat /\ Surplus(bank) \in Int
    BY <1>2, ClaimTypes, SurplusType
<1>4. /\ bank' \in Banks /\ Surplus(bank') = Surplus(bank) + mint
      /\ \A a \in Accounts : WealthOf(bank', a) = WealthOf(bank, a)
  <2>1. /\ bank.internal \in [Accounts -> Nat] /\ bank.held \in Nat
        /\ bank.wallet \in [Accounts -> Nat]
        /\ bank' = [wallet |-> bank.wallet, internal |-> bank.internal,
                    held |-> bank.held + mint]
      BY <1>1, <1>2 DEF Banks
  <2>2. Sum(bank.internal) \in Nat
    <3>1. IsFiniteSet(DOMAIN bank.internal)
          /\ \A x \in DOMAIN bank.internal : bank.internal[x] \in Nat
        BY <2>1, FertilizerAssumption
    <3> QED
        BY <3>1, SumType
  <2>3. bank' \in Banks
      BY <2>1 DEF Banks
  <2>4. Surplus(bank') = Surplus(bank) + mint
    <3>1. bank'.held = bank.held + mint /\ bank'.internal = bank.internal
        BY <2>1
    <3> DEFINE x == Sum(bank.internal)
    <3>2. Surplus(bank') = (bank.held + mint) - x /\ Surplus(bank) = bank.held - x /\ x \in Nat
        BY <2>2, <3>1 DEF Surplus
    <3> HIDE DEF x
    <3> QED
        BY <2>1, <3>2
  <2>5. \A a \in Accounts : WealthOf(bank', a) = WealthOf(bank, a)
      BY <2>1 DEF WealthOf
  <2> QED
      BY <2>3, <2>4, <2>5
<1>5. \E x \in Nat : /\ fertilizedIndex' = fertilizedIndex + x
                     /\ Marks(balances', bpf') /\ Supplied(balances', fertilizer')
                     /\ TotalIn(balances', bpf') \in Nat
                     /\ TotalIn(balances', bpf') <= t + x
  <2>1. CASE mint > 0 /\ fertilizing
    <3> DEFINE b == BpfAfter(max)
               x == PaidAfter(max)
    <3>1. max \in Nat
        BY DivNat, FertilizerAssumption
    <3>2. RewardToFertilizer(max)
        BY <1>1, <2>1
    <3> HIDE DEF max
    <3>3. bpf' = b /\ fertilizedIndex' = fertilizedIndex + x /\ fertilizer' = fertilizer
        BY <3>1, <3>2, RewardIsPayment
    <3>4. b \in Nat /\ bpf <= b /\ x \in Nat /\ Debt!Cost(b) = x
        BY <3>1, RewardPays, PaymentReaches
    <3> HIDE DEF b, x
    <3>5. Marks(balances, b) /\ TotalIn(balances, b) <= t + Debt!Cost(b)
        BY <1>2, <3>4, ClaimsGrow
    <3>6. TotalIn(balances, b) \in Nat
        BY <3>4, <3>5, ClaimTypes
    <3>7. /\ TotalIn(balances', bpf') = TotalIn(balances, b)
          /\ Marks(balances', bpf') /\ Supplied(balances', fertilizer')
        BY <1>1, <1>2, <3>3, <3>5
    <3> QED
        BY <3>3, <3>4, <3>5, <3>6, <3>7
  <2>2. CASE ~(mint > 0 /\ fertilizing)
    <3>1. bpf' = bpf /\ fertilizedIndex' = fertilizedIndex + 0 /\ fertilizer' = fertilizer
        BY <1>1, <1>2, <2>2 DEF paidVars, queueVars
    <3>2. /\ TotalIn(balances', bpf') = t
          /\ Marks(balances', bpf') /\ Supplied(balances', fertilizer')
        BY <1>1, <1>2, <3>1
    <3> QED
        BY <1>3, <3>1, <3>2
  <2> QED
      BY <2>1, <2>2
<1>6. PICK x \in Nat : /\ fertilizedIndex' = fertilizedIndex + x
                       /\ Marks(balances', bpf') /\ Supplied(balances', fertilizer')
                       /\ TotalIn(balances', bpf') \in Nat
                       /\ TotalIn(balances', bpf') <= t + x
    BY <1>5
<1>7. Surplus(bank') >= TotalIn(balances', bpf') + unripe'.underlying["Moon"]
                          + (minted' - fertilizedIndex')
  <2> DEFINE t2 == TotalIn(balances', bpf')
             s == Surplus(bank)
  <2>1. /\ t2 \in Nat /\ t2 <= t + x /\ s \in Int /\ t \in Nat /\ u \in Nat
        /\ s >= t + u + (minted - fertilizedIndex) /\ Surplus(bank') = s + mint
        /\ fertilizedIndex' = fertilizedIndex + x /\ minted' = minted + mint
        /\ unripe'.underlying["Moon"] = u
      BY <1>1, <1>2, <1>3, <1>4, <1>6
  <2> HIDE DEF t, t2, u, s
  <2> QED
      BY <1>2, <2>1 DEF t2
<1>8. minted' \in Nat
    BY <1>1, <1>2
<1>9. bpf' = bpf => SameWorth(balances, bpf, bank, balances', bank')
    BY <1>1, <1>4 DEF SameWorth
<1> QED
    BY <1>1, <1>2, <1>4, <1>6, <1>7, <1>8, <1>9, Zenon DEF Money

\* Initially there is nothing.
LEMMA MoneyInit == Init => Money
<1> SUFFICES ASSUME Init
             PROVE  Money
    OBVIOUS
<1>1. /\ bpf = 0 /\ fertilizedIndex = 0 /\ minted = 0 /\ recapitalized = 0
      /\ fertilizer = [id \in Ids |-> 0]
      /\ unripe = [supply |-> UnripeSupply, underlying |-> [token \in Unripe |-> 0]]
      /\ balances = [id \in Ids |-> [a \in Accounts |-> [amount |-> 0, lastBpf |-> 0]]]
      /\ bank = [wallet   |-> [a \in Accounts |-> 0],
                 internal |-> [a \in Accounts |-> 0], held |-> 0]
    BY DEF Init
<1>2. /\ unripe \in [supply : [Unripe -> Nat], underlying : [Unripe -> Nat]]
      /\ unripe.underlying["Moon"] = 0
    BY <1>1, FertilizerAssumption DEF Unripe
<1>3. bank \in Banks
    BY <1>1 DEF Banks
<1>4. Marks(balances, bpf)
  <2>1. balances \in [Ids -> [Accounts -> Balances]]
      BY <1>1 DEF Balances
  <2>2. \A id \in Ids, a \in Accounts : balances[id][a].lastBpf = 0 /\ Lesser(0, id) = 0
      BY <1>1, IdsAreNat DEF Lesser
  <2> QED
      BY <1>1, <2>1, <2>2 DEF Marks
<1>5. Supplied(balances, fertilizer)
  <2> SUFFICES ASSUME NEW id \in Ids
               PROVE  Sum(Held(balances, id)) <= fertilizer[id]
      BY DEF Supplied, Held
  <2>1. Held(balances, id) = [a \in Accounts |-> 0]
      BY <1>1 DEF Held
  <2>2. Sum(Held(balances, id)) = 0
      BY <2>1, SumZero
  <2> QED
      BY <1>1, <2>2
<1>6. TotalIn(balances, bpf) = 0
  <2>1. \A a \in Accounts : ClaimableIn(balances, bpf, a) = 0
    <3> SUFFICES ASSUME NEW a \in Accounts
                 PROVE  ClaimableIn(balances, bpf, a) = 0
        OBVIOUS
    <3> DEFINE f == [id \in Ids |-> FertilizedIn(balances, bpf, a, id)]
    <3>1. \A id \in Ids : FertilizedIn(balances, bpf, a, id) = 0
      <4> SUFFICES ASSUME NEW id \in Ids
                   PROVE  FertilizedIn(balances, bpf, a, id) = 0
          OBVIOUS
      <4>1. /\ balances[id][a].amount = 0 /\ balances[id][a].lastBpf = 0
            /\ Lesser(bpf, id) \in Nat
          BY <1>1, IdsAreNat DEF Lesser
      <4> QED
          BY <4>1 DEF FertilizedIn
    <3>2. f = [id \in Ids |-> 0]
        BY <3>1
    <3>3. Sum(f) = 0
        BY <3>2, SumZero
    <3> QED
        BY <3>3 DEF ClaimableIn
  <2> DEFINE g == [a \in Accounts |-> ClaimableIn(balances, bpf, a)]
  <2>2. g = [a \in Accounts |-> 0]
      BY <2>1
  <2>3. Sum(g) = 0
      BY <2>2, SumZero
  <2> QED
      BY <2>3 DEF TotalIn
<1>7. Surplus(bank) = 0
  <2>1. bank.internal = [a \in Accounts |-> 0] /\ bank.held = 0
      BY <1>1
  <2>2. Sum(bank.internal) = 0
      BY <2>1, SumZero
  <2> QED
      BY <2>1, <2>2 DEF Surplus
<1> QED
    BY <1>1, <1>2, <1>3, <1>4, <1>5, <1>6, <1>7 DEF Money

\* Every step keeps the invariant, and what each account has and can claim.
LEMMA MoneyStep ==
    QInv /\ Money /\ [Next]_vars =>
        /\ Money'
        /\ (bpf' = bpf /\ unripe'.supply = unripe.supply)
              => SameWorth(balances, bpf, bank, balances', bank')
<1> SUFFICES ASSUME QInv, Money, [Next]_vars
             PROVE  /\ Money'
                    /\ (bpf' = bpf /\ unripe'.supply = unripe.supply)
                          => SameWorth(balances, bpf, bank, balances', bank')
    OBVIOUS
<1>1. CASE Mint
  <2>1. PICK c \in Accounts, asked \in Amounts, received \in Amounts, newLP \in NewLPs :
            MintFertilizer(c, asked, received, newLP)
      BY <1>1 DEF Mint
  <2>2. asked \in Nat /\ received \in Nat /\ newLP \in Nat
      BY FertilizerAssumption
  <2> QED
      BY <2>1, <2>2, MintMoney
<1>2. CASE AddByOwner
  <2>1. PICK s \in OwnerSeasons, amount \in Amounts, newLP \in NewLPs :
            AddFertilizerOwner(s, amount, newLP)
      BY <1>2 DEF AddByOwner
  <2>2. s \in Nat /\ amount \in Nat /\ newLP \in Nat
      BY FertilizerAssumption
  <2> QED
      BY <2>1, <2>2, OwnerMoney
<1>3. CASE Claim
  <2>1. PICK c \in Accounts, ids \in SUBSET {id \in Ids : fertilizer[id] > 0}, mode \in ToModes :
            ClaimFertilized(c, ids, mode)
      BY <1>3 DEF Claim
  <2>2. ids \in SUBSET Ids
      OBVIOUS
  <2> QED
      BY <2>1, <2>2, ClaimMoney
<1>4. CASE Transfer
  <2>1. PICK from \in Accounts, to \in Accounts, id \in Ids, amount \in Amounts :
            SafeTransferFrom(from, to, id, amount)
      BY <1>4 DEF Transfer
  <2>2. amount \in Nat
      BY FertilizerAssumption
  <2> QED
      BY <2>1, <2>2, TransferMoney
<1>5. CASE ChopSome
  <2>1. PICK c \in Accounts, token \in Unripe, amount \in ChopAmounts, mode \in ToModes :
            Chop(c, token, amount, mode)
      BY <1>5 DEF ChopSome
  <2>2. amount \in Nat
      BY FertilizerAssumption
  <2> QED
      BY <2>1, <2>2, ChopMoney
<1>6. CASE Season
  <2>1. PICK mint \in Mints : Sunrise(mint)
      BY <1>6 DEF Season
  <2>2. mint \in Nat
      BY FertilizerAssumption
  <2> QED
      BY <2>1, <2>2, SunriseMoney
<1>7. CASE UNCHANGED vars
  <2>1. /\ bpf' = bpf /\ fertilizedIndex' = fertilizedIndex /\ fertilizer' = fertilizer
        /\ recapitalized' = recapitalized /\ unripe' = unripe /\ balances' = balances
        /\ bank' = bank /\ minted' = minted
      BY <1>7 DEF vars, paidVars, queueVars
  <2>2. Money'
      BY <2>1 DEF Money
  <2> QED
      BY <2>1, <2>2 DEF SameWorth
<1> QED
    BY <1>1, <1>2, <1>3, <1>4, <1>5, <1>6, <1>7 DEF Next

\* Both invariants hold in every reachable state.
LEMMA MoneyInvariant == Spec => [](QInv /\ Money)
BY QueueInit, QueueStep, MoneyInit, MoneyStep, PTL DEF Spec

\* The type of every variable of the Fertilizer, whatever the constants are.
THEOREM FertilizerTypes == Spec => []TypeOK
<1>1. QInv /\ Money => TypeOK
    BY IdsAreNat, Zenon DEF QInv, QueueTypes, Money, Marks, TypeOK
<1> QED
    BY <1>1, MoneyInvariant, PTL

\* In every reachable state, whatever is minted, sold, claimed, transferred
\* and chopped, the diamond holds what it owes in Moons: the internal balances,
\* what the holders of Fertilizer can claim, the Moons behind the Unripe Moons
\* and the Moons minted for others.
THEOREM ClaimsAreCovered == Spec => []ClaimsCovered
<1>1. QInv /\ Money => ClaimsCovered
  <2> SUFFICES ASSUME QInv, Money
               PROVE  ClaimsCovered
      OBVIOUS
  <2>1. /\ bpf \in Nat /\ bank \in Banks /\ Marks(balances, bpf)
        /\ Supplied(balances, fertilizer)
        /\ Surplus(bank) >= TotalIn(balances, bpf) + unripe.underlying["Moon"]
                            + (minted - fertilizedIndex)
        /\ unripe.underlying["Moon"] \in Nat /\ minted \in Nat /\ fertilizedIndex \in Nat
      BY IdsAreNat DEF Money, QInv, QueueTypes, Unripe
  <2>2. TotalClaimable = TotalIn(balances, bpf)
    <3>1. \A a \in Accounts : Claimable(a) = ClaimableIn(balances, bpf, a)
        BY FertilizedNow, Zenon DEF Claimable, ClaimableIn, Fertilized, FertilizedIn, StopBpf
    <3>2. [a \in Accounts |-> Claimable(a)] = [a \in Accounts |-> ClaimableIn(balances, bpf, a)]
        BY <3>1
    <3> QED
        BY <3>2 DEF TotalClaimable, TotalIn
  <2>3. \A id \in Ids, a \in Accounts : balances[id][a].lastBpf <= StopBpf(id)
      BY <2>1 DEF Marks, StopBpf
  <2>4. bank.held >= Sum(bank.internal) + TotalClaimable + unripe.underlying["Moon"]
                     + (minted - fertilizedIndex)
    <3> DEFINE s == Sum(bank.internal)
               t == TotalIn(balances, bpf)
               u == unripe.underlying["Moon"]
    <3>1. s \in Nat /\ bank.held \in Nat
      <4>1. bank.internal \in [Accounts -> Nat] /\ bank.held \in Nat
          BY <2>1 DEF Banks
      <4>2. IsFiniteSet(DOMAIN bank.internal)
            /\ \A x \in DOMAIN bank.internal : bank.internal[x] \in Nat
          BY <4>1, FertilizerAssumption
      <4> QED
          BY <4>1, <4>2, SumType
    <3>2. t \in Nat /\ u \in Nat
        BY <2>1, ClaimTypes
    <3>3. bank.held - s >= t + u + (minted - fertilizedIndex)
        BY <2>1 DEF Surplus
    <3> HIDE DEF s, t, u
    <3>4. bank.held >= s + t + u + (minted - fertilizedIndex)
        BY <2>1, <3>1, <3>2, <3>3
    <3> QED
        BY <2>2, <3>4 DEF s, t, u
  <2> QED
      BY <2>1, <2>3, <2>4, Zenon DEF ClaimsCovered, Supplied
<1> QED
    BY <1>1, MoneyInvariant, PTL

\* Minting, claiming and transferring Fertilizer neither makes nor loses a
\* Moon for any account, in any state that can be reached.
THEOREM ClaimsKept == Spec => ClaimsAreKept
<1>1. QInv /\ Money /\ [Next]_vars =>
        [(bpf' = bpf /\ unripe'.supply = unripe.supply) =>
            \A a \in Accounts : Wealth(a)' + Claimable(a)' = Wealth(a) + Claimable(a)]_vars
  <2> SUFFICES ASSUME QInv, Money, [Next]_vars, bpf' = bpf, unripe'.supply = unripe.supply,
                      NEW a \in Accounts
               PROVE  Wealth(a)' + Claimable(a)' = Wealth(a) + Claimable(a)
      OBVIOUS
  <2>1. SameWorth(balances, bpf, bank, balances', bank')
      BY MoneyStep
  <2>2. WealthOf(bank', a) + ClaimableIn(balances', bpf, a)
           = WealthOf(bank, a) + ClaimableIn(balances, bpf, a)
      BY <2>1 DEF SameWorth
  <2>3. Wealth(a) = WealthOf(bank, a) /\ Wealth(a)' = WealthOf(bank', a)
      BY DEF Wealth, WealthOf
  <2>4. Claimable(a) = ClaimableIn(balances, bpf, a)
      BY Zenon DEF Claimable, ClaimableIn, Fertilized, FertilizedIn, StopBpf
  <2>5. Claimable(a)' = ClaimableIn(balances', bpf', a)
      BY Zenon DEF Claimable, ClaimableIn, Fertilized, FertilizedIn, StopBpf, Sum, Units, Lesser
  <2> QED
      BY <2>2, <2>3, <2>4, <2>5
<1> QED
    BY <1>1, MoneyInvariant, PTL DEF Spec, ClaimsAreKept

(***************************************************************************)
(* What backs the Unripe tokens                                            *)
(***************************************************************************)

\* A step backs Unripe tokens with more, chops some, or leaves them alone.
LEMMA UnripeSteps ==
    ASSUME QInv, Money, [Next]_vars
    PROVE  \/ \E n \in Nat, id \in Ids : /\ Backed(n, id)
                                         /\ recapitalized' = recapitalized + n
                                         /\ RemainingRecapitalization \in Nat \ {0}
           \/ /\ recapitalized' = recapitalized
              /\ \E token \in Unripe, amount \in Nat :
                    Redeemed(token, amount, PenalizedUnderlying(token, amount))
           \/ unripe' = unripe /\ recapitalized' = recapitalized
<1>1. ASSUME NEW s \in Nat, NEW n \in Nat, NEW newLP \in Nat, AddFertilizer(s, n, newLP)
      PROVE  \E m \in Nat, id \in Ids : /\ Backed(m, id)
                                        /\ recapitalized' = recapitalized + m
                                        /\ RemainingRecapitalization \in Nat \ {0}
  <2>1. Backed(n, bpf + Bpf(s))
      BY <1>1, AddBacks
  <2>2. bpf + Bpf(s) \in Ids
      BY <2>1 DEF Backed
  <2>3. recapitalized' = recapitalized + n /\ RemainingRecapitalization > 0
      BY <1>1 DEF AddFertilizer, AddUnderlying
  <2>4. RemainingRecapitalization \in Nat \ {0}
      BY <2>3, BackingType
  <2> QED
      BY <2>1, <2>2, <2>3, <2>4
<1>2. season \in Nat
    BY DEF QInv, QueueTypes
<1>3. CASE Mint
  <2>1. PICK c \in Accounts, asked \in Amounts, received \in Amounts, newLP \in NewLPs :
            MintFertilizer(c, asked, received, newLP)
      BY <1>3 DEF Mint
  <2>2. AddFertilizer(season, received, newLP) /\ received \in Nat /\ newLP \in Nat
      BY <2>1, FertilizerAssumption DEF MintFertilizer
  <2> QED
      BY <1>1, <1>2, <2>2
<1>4. CASE AddByOwner
  <2>1. PICK s \in OwnerSeasons, amount \in Amounts, newLP \in NewLPs :
            AddFertilizerOwner(s, amount, newLP)
      BY <1>4 DEF AddByOwner
  <2>2. AddFertilizer(s, amount, newLP) /\ amount \in Nat /\ newLP \in Nat /\ s \in Nat
      BY <2>1, FertilizerAssumption DEF AddFertilizerOwner
  <2> QED
      BY <1>1, <2>2
<1>5. CASE Claim
    BY <1>5 DEF Claim, ClaimFertilized
<1>6. CASE Transfer
    BY <1>6 DEF Transfer, SafeTransferFrom
<1>7. CASE ChopSome
  <2>1. PICK c \in Accounts, token \in Unripe, amount \in ChopAmounts, mode \in ToModes :
            Chop(c, token, amount, mode)
      BY <1>7 DEF ChopSome
  <2>2. amount \in Nat
      BY FertilizerAssumption
  <2>3. Redeemed(token, amount, PenalizedUnderlying(token, amount))
      BY <2>1, <2>2, ChopRedeems
  <2>4. recapitalized' = recapitalized
      BY <2>1 DEF Chop
  <2> QED
      BY <2>2, <2>3, <2>4
<1>8. CASE Season
    BY <1>8 DEF Season, Sunrise
<1>9. CASE UNCHANGED vars
    BY <1>9 DEF vars
<1> QED
    BY <1>3, <1>4, <1>5, <1>6, <1>7, <1>8, <1>9 DEF Next

\* No chop and no recapitalisation ever takes anything from behind the Unripe
\* tokens of the others: the share of the underlying that a chop redeems, twice
\* rounded and penalised, is at most the share of the supply that it burns.
THEOREM BackingIsNotDiluted == Spec => BackingNeverDiluted
<1>1. QInv /\ Money /\ [Next]_vars =>
        [\A token \in Unripe :
            unripe'.underlying[token] * unripe.supply[token]
               >= unripe.underlying[token] * unripe'.supply[token]]_vars
  <2> SUFFICES ASSUME QInv, Money, [Next]_vars, NEW t \in Unripe
               PROVE  unripe'.underlying[t] * unripe.supply[t]
                         >= unripe.underlying[t] * unripe'.supply[t]
      OBVIOUS
  <2> DEFINE s == unripe.supply[t]
             u == unripe.underlying[t]
             s2 == unripe'.supply[t]
             u2 == unripe'.underlying[t]
  <2>1. /\ unripe.supply \in [Unripe -> Nat] /\ unripe.underlying \in [Unripe -> Nat]
        /\ s \in Nat /\ u \in Nat
      BY DEF Money
  <2>2. CASE \E n \in Nat, id \in Ids : Backed(n, id)
    <3>1. s2 = s /\ u2 >= u /\ u2 \in Nat
        BY <2>2 DEF Backed
    <3> HIDE DEF s, u, s2, u2
    <3>2. u2 * s >= u * s2
        BY <2>1, <3>1, ProductMonotone
    <3> QED
        BY <3>2 DEF s, u, s2, u2
  <2>3. CASE \E token \in Unripe, amount \in Nat :
                Redeemed(token, amount, PenalizedUnderlying(token, amount))
    <3>1. PICK token \in Unripe, a \in Nat :
              Redeemed(token, a, PenalizedUnderlying(token, a))
        BY <2>3
    <3> DEFINE r == PenalizedUnderlying(token, a)
    <3>2. /\ r \in Nat /\ r <= unripe.underlying[token] /\ a <= unripe.supply[token]
          /\ unripe.supply[token] * r <= unripe.underlying[token] * a
          /\ unripe'.supply = [unripe.supply EXCEPT ![token] = unripe.supply[token] - a]
          /\ unripe'.underlying = [unripe.underlying EXCEPT ![token]
                                      = unripe.underlying[token] - r]
        BY <3>1 DEF Redeemed
    <3> HIDE DEF r
    <3>3. CASE token = t
      <4>1. s2 = s - a /\ u2 = u - r /\ s * r <= u * a
          BY <2>1, <3>2, <3>3
      <4> HIDE DEF s, u, s2, u2
      <4>2. (u - r) * s = u * s - s * r /\ u * (s - a) = u * s - u * a
          BY <2>1, <3>2
      <4>3. u * s \in Nat /\ s * r \in Nat /\ u * a \in Nat
          BY <2>1, <3>2
      <4>4. u2 * s >= u * s2
          BY <4>1, <4>2, <4>3
      <4> QED
          BY <4>4 DEF s, u, s2, u2
    <3>4. CASE token # t
      <4>1. s2 = s /\ u2 = u
          BY <2>1, <3>2, <3>4
      <4> HIDE DEF s, u, s2, u2
      <4>2. u * s \in Nat /\ u * s >= u * s
          BY <2>1
      <4>3. u2 * s >= u * s2
          BY <4>1, <4>2
      <4> QED
          BY <4>3 DEF s, u, s2, u2
    <3> QED
        BY <3>3, <3>4
  <2>4. CASE unripe' = unripe
    <3>1. s2 = s /\ u2 = u
        BY <2>4
    <3> HIDE DEF s, u, s2, u2
    <3>2. u * s \in Nat /\ u * s >= u * s
        BY <2>1
    <3>3. u2 * s >= u * s2
        BY <3>1, <3>2
    <3> QED
        BY <3>3 DEF s, u, s2, u2
  <2> QED
      BY <2>2, <2>3, <2>4, UnripeSteps
<1> QED
    BY <1>1, MoneyInvariant, PTL DEF Spec, BackingNeverDiluted

\* The supplies of the Unripe tokens only fall.
SupplyFalls == \A token \in Unripe : unripe.supply[token] <= UnripeSupply[token]

\* The share of what is missing that some dollars fill is no more than it.
LEMMA ShareBound ==
    ASSUME NEW missing \in Nat, NEW n \in Nat, NEW r \in Nat \ {0}, n <= r
    PROVE  /\ (missing * ((n * Precision) \div r)) \div Precision \in Nat
           /\ (missing * ((n * Precision) \div r)) \div Precision <= missing
<1> DEFINE part == (n * Precision) \div r
<1>1. Precision \in Nat \ {0}
    BY FertilizerAssumption
<1>2. part \in Nat /\ part <= Precision
  <2>1. n * Precision \in Nat /\ n * Precision <= r * Precision
      BY <1>1, ProductMonotone
  <2> QED
      BY <1>1, <2>1, QuotientBound
<1> HIDE DEF part
<1>3. missing * part \in Nat /\ missing * part <= Precision * missing
  <2>1. part * missing \in Nat /\ missing * part <= missing * Precision
      BY <1>1, <1>2, ProductMonotone
  <2>2. part * missing = missing * part /\ missing * Precision = Precision * missing
      BY <1>1, <1>2
  <2> QED
      BY <2>1, <2>2
<1>4. (missing * part) \div Precision \in Nat /\ (missing * part) \div Precision <= missing
  <2> DEFINE z == missing * part
  <2>1. z \in Nat /\ z <= Precision * missing
      BY <1>3
  <2> HIDE DEF z
  <2>2. z \div Precision \in Nat /\ z \div Precision <= missing
      BY <1>1, <2>1, QuotientBound
  <2> QED
      BY <2>2 DEF z
<1> QED
    BY <1>4 DEF part

\* However the recapitalisation is divided into purchases, each rounded, the
\* Moons that it mints never exceed the Unripe Moons that they back, unless the
\* owner adds more dollars than the target.
THEOREM NoMoonsTooMany == Spec => []NoOverRecapitalization
<1> DEFINE Target0 == (DollarPerUnripeLP * UnripeSupply["LP"]) \div DollarUnit
           Inv == SupplyFalls /\ NoOverRecapitalization
<1>1. Target0 \in Nat
  <2>1. DollarPerUnripeLP \in Nat /\ UnripeSupply["LP"] \in Nat /\ DollarUnit \in Nat \ {0}
      BY FertilizerAssumption DEF Unripe
  <2>2. DollarPerUnripeLP * UnripeSupply["LP"] \in Nat
      BY <2>1
  <2> QED
      BY <2>1, <2>2, DivNat
<1>2. Init => Inv
  <2> SUFFICES ASSUME Init
               PROVE  Inv
      OBVIOUS
  <2>1. unripe = [supply |-> UnripeSupply, underlying |-> [token \in Unripe |-> 0]]
      BY DEF Init
  <2>2. UnripeSupply \in [Unripe -> Nat] /\ "Moon" \in Unripe
      BY FertilizerAssumption DEF Unripe
  <2>3. unripe.supply = UnripeSupply /\ unripe.underlying["Moon"] = 0
      BY <2>1, <2>2
  <2>4. SupplyFalls
      BY <2>2, <2>3 DEF SupplyFalls
  <2>5. UnripeSupply["Moon"] \in Nat
      BY <2>2
  <2> QED
      BY <2>3, <2>4, <2>5 DEF NoOverRecapitalization
<1>3. QInv /\ Money /\ Inv /\ [Next]_vars => Inv'
  <2> SUFFICES ASSUME QInv, Money, Inv, [Next]_vars
               PROVE  Inv'
      OBVIOUS
  <2> DEFINE u == unripe.underlying["Moon"]
             U == UnripeSupply["Moon"]
  <2>1. /\ unripe.supply \in [Unripe -> Nat] /\ unripe.underlying \in [Unripe -> Nat]
        /\ UnripeSupply \in [Unripe -> Nat] /\ u \in Nat /\ U \in Nat /\ recapitalized \in Nat
        /\ "Moon" \in Unripe /\ "LP" \in Unripe
      BY FertilizerAssumption DEF Money, Unripe
  <2>2. CASE \E n \in Nat, id \in Ids : /\ Backed(n, id)
                                        /\ recapitalized' = recapitalized + n
                                        /\ RemainingRecapitalization \in Nat \ {0}
    <3>1. PICK n \in Nat, id \in Ids : /\ Backed(n, id)
                                       /\ recapitalized' = recapitalized + n
                                       /\ RemainingRecapitalization \in Nat \ {0}
        BY <2>2
    <3>2. /\ unripe'.supply = unripe.supply
          /\ unripe'.underlying["Moon"] = u + NewDepositedMoons(n)
        BY <3>1 DEF Backed
    <3>3. SupplyFalls'
        BY <3>2 DEF SupplyFalls
    <3>4. ASSUME unripe'.supply = UnripeSupply, recapitalized' <= Target0
          PROVE  unripe'.underlying["Moon"] <= U
      <4>1. unripe.supply = UnripeSupply /\ recapitalized + n <= Target0
          BY <3>1, <3>2, <3>4
      <4>2. recapitalized <= Target0
          BY <1>1, <2>1, <4>1
      <4>3. u <= U
          BY <4>1, <4>2 DEF NoOverRecapitalization
      <4> DEFINE r == RemainingRecapitalization
                 missing == Greater(U - u, 0)
      <4>4. r = Greater(Target0 - recapitalized, 0) /\ r \in Nat \ {0}
          BY <3>1, <4>1 DEF RemainingRecapitalization
      <4>5. missing = U - u /\ missing \in Nat
          BY <2>1, <4>3 DEF Greater
      <4>6. NewDepositedMoons(n) = (missing * ((n * Precision) \div r)) \div Precision
          BY <4>1 DEF NewDepositedMoons
      <4> HIDE DEF r, missing, Target0, u, U
      <4>7. n <= r
          BY <1>1, <2>1, <4>1, <4>2, <4>4 DEF Greater
      <4>8. NewDepositedMoons(n) \in Nat /\ NewDepositedMoons(n) <= missing
          BY <4>4, <4>5, <4>6, <4>7, ShareBound
      <4> QED
          BY <2>1, <3>2, <4>3, <4>5, <4>8
    <3> QED
        BY <3>3, <3>4 DEF NoOverRecapitalization
  <2>3. CASE /\ recapitalized' = recapitalized
             /\ \E token \in Unripe, amount \in Nat :
                   Redeemed(token, amount, PenalizedUnderlying(token, amount))
    <3>1. PICK token \in Unripe, a \in Nat :
              Redeemed(token, a, PenalizedUnderlying(token, a))
        BY <2>3
    <3> DEFINE r == PenalizedUnderlying(token, a)
    <3>2. /\ r \in Nat /\ r <= unripe.underlying[token] /\ a <= unripe.supply[token]
          /\ unripe'.supply = [unripe.supply EXCEPT ![token] = unripe.supply[token] - a]
          /\ unripe'.underlying = [unripe.underlying EXCEPT ![token]
                                      = unripe.underlying[token] - r]
        BY <3>1 DEF Redeemed
    <3> HIDE DEF r
    <3>3. /\ \A k \in Unripe : unripe'.supply[k] \in Nat /\ unripe'.supply[k] <= unripe.supply[k]
          /\ unripe'.underlying["Moon"] <= u /\ unripe'.underlying["Moon"] \in Nat
      <4>1. unripe.supply[token] - a \in Nat /\ unripe.underlying[token] - r \in Nat
          BY <2>1, <3>2
      <4> QED
          BY <2>1, <3>2, <4>1
    <3>4. SupplyFalls'
        BY <2>1, <3>3 DEF SupplyFalls
    <3>5. ASSUME unripe'.supply = UnripeSupply, recapitalized' <= Target0
          PROVE  unripe'.underlying["Moon"] <= U
      <4>1. \A k \in Unripe : unripe.supply[k] = UnripeSupply[k]
        <5> SUFFICES ASSUME NEW k \in Unripe
                     PROVE  unripe.supply[k] = UnripeSupply[k]
            OBVIOUS
        <5>1. unripe'.supply[k] = UnripeSupply[k] /\ unripe'.supply[k] <= unripe.supply[k]
            BY <3>3, <3>5
        <5>2. unripe.supply[k] <= UnripeSupply[k]
            BY DEF SupplyFalls
        <5>3. unripe.supply[k] \in Nat /\ UnripeSupply[k] \in Nat
            BY <2>1
        <5> QED
            BY <5>1, <5>2, <5>3
      <4>2. unripe.supply = UnripeSupply
          BY <2>1, <4>1
      <4>3. u <= U
          BY <2>3, <3>5, <4>2 DEF NoOverRecapitalization
      <4> QED
          BY <2>1, <3>3, <4>3
    <3> QED
        BY <3>4, <3>5 DEF NoOverRecapitalization
  <2>4. CASE unripe' = unripe /\ recapitalized' = recapitalized
      BY <2>4 DEF SupplyFalls, NoOverRecapitalization
  <2> QED
      BY <2>2, <2>3, <2>4, UnripeSteps
<1> QED
    BY <1>2, <1>3, MoneyInvariant, PTL DEF Spec

===============================================================================
