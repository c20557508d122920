----------------------------- MODULE EventCacheProofs -----------------------------
(***************************************************************************)
(* The caches of events are complete, for every number of accounts, of     *)
(* fetches under way at a time, and of blocks.                             *)
(***************************************************************************)
EXTENDS MCEventCache, SumsProofs, SequenceTheorems

(***************************************************************************)
(* Sequences of events                                                     *)
(***************************************************************************)
\* A sequence without elements holds no event.
LEMMA EventsOfEmpty == EventsIn(<<>>) = {}
    BY DEF EventsIn

\* Appending a block adds its event.
LEMMA EventsOfAppend ==
    ASSUME NEW s \in Seq(Nat), NEW b \in Nat
    PROVE  Append(s, b) \in Seq(Nat) /\ EventsIn(Append(s, b)) = EventsIn(s) \union {b}
<1> DEFINE t == Append(s, b)
<1>1. /\ t \in Seq(Nat) /\ Len(t) = Len(s) + 1 /\ Len(s) \in Nat
      /\ DOMAIN t = 1 .. Len(s) + 1 /\ DOMAIN s = 1 .. Len(s)
      /\ \A i \in 1 .. Len(s) : t[i] = s[i]
      /\ t[Len(s) + 1] = b
    OBVIOUS
<1> HIDE DEF t
<1>2. EventsIn(t) \subseteq EventsIn(s) \union {b}
  <2> SUFFICES ASSUME NEW i \in 1 .. Len(s) + 1
               PROVE  t[i] \in EventsIn(s) \union {b}
      BY <1>1 DEF EventsIn
  <2>1. CASE i = Len(s) + 1
      BY <1>1, <2>1
  <2>2. CASE i \in 1 .. Len(s)
      BY <1>1, <2>2 DEF EventsIn
  <2> QED
      BY <1>1, <2>1, <2>2
<1>3. EventsIn(s) \union {b} \subseteq EventsIn(t)
  <2>1. Len(s) + 1 \in DOMAIN t /\ \A i \in DOMAIN s : i \in DOMAIN t /\ t[i] = s[i]
      BY <1>1
  <2> QED
      BY <1>1, <2>1 DEF EventsIn
<1> QED
    BY <1>1, <1>2, <1>3 DEF t

\* A concatenation holds the events of both sequences.
LEMMA EventsOfConcat ==
    ASSUME NEW s \in Seq(Nat), NEW r \in Seq(Nat)
    PROVE  s \o r \in Seq(Nat) /\ EventsIn(s \o r) = EventsIn(s) \union EventsIn(r)
<1> DEFINE t == s \o r
<1>1. /\ t \in Seq(Nat) /\ Len(t) = Len(s) + Len(r) /\ Len(s) \in Nat /\ Len(r) \in Nat
      /\ DOMAIN t = 1 .. Len(s) + Len(r)
      /\ DOMAIN s = 1 .. Len(s) /\ DOMAIN r = 1 .. Len(r)
      /\ \A i \in 1 .. Len(s) + Len(r) :
            t[i] = IF i <= Len(s) THEN s[i] ELSE r[i - Len(s)]
    OBVIOUS
<1> HIDE DEF t
<1>2. EventsIn(t) \subseteq EventsIn(s) \union EventsIn(r)
  <2> SUFFICES ASSUME NEW i \in 1 .. Len(s) + Len(r)
               PROVE  t[i] \in EventsIn(s) \union EventsIn(r)
      BY <1>1 DEF EventsIn
  <2>1. CASE i <= Len(s)
    <3>1. i \in DOMAIN s /\ t[i] = s[i]
        BY <1>1, <2>1
    <3> QED
        BY <3>1 DEF EventsIn
  <2>2. CASE i > Len(s)
    <3>1. i - Len(s) \in DOMAIN r /\ t[i] = r[i - Len(s)]
        BY <1>1, <2>2
    <3> QED
        BY <3>1 DEF EventsIn
  <2> QED
      BY <1>1, <2>1, <2>2
<1>3. EventsIn(s) \subseteq EventsIn(t)
  <2>1. \A i \in DOMAIN s : i \in DOMAIN t /\ t[i] = s[i]
      BY <1>1
  <2> QED
      BY <2>1 DEF EventsIn
<1>4. EventsIn(r) \subseteq EventsIn(t)
  <2>1. \A i \in DOMAIN r : /\ Len(s) + i \in DOMAIN t
                            /\ t[Len(s) + i] = r[i]
    <3> SUFFICES ASSUME NEW i \in 1 .. Len(r)
                 PROVE  Len(s) + i \in 1 .. Len(s) + Len(r) /\ t[Len(s) + i] = r[i]
        BY <1>1
    <3>1. /\ Len(s) + i \in 1 .. Len(s) + Len(r) /\ ~(Len(s) + i <= Len(s))
          /\ (Len(s) + i) - Len(s) = i
        BY <1>1
    <3>2. t[Len(s) + i] = r[(Len(s) + i) - Len(s)]
        BY <1>1, <3>1, Zenon
    <3> QED
        BY <3>1, <3>2
  <2> QED
      BY <2>1 DEF EventsIn
<1> QED
    BY <1>1, <1>2, <1>3, <1>4 DEF t

\* Found over a chain l.
FoundIn(l, a, from, to) ==
    LET found[b \in 0..to] ==
            IF b = 0 THEN <<>>
            ELSE IF b >= from /\ a \in l[b] THEN Append(found[b - 1], b)
            ELSE found[b - 1]
    IN  found[to]

\* The sequence found[n] is what a query has found up to block n.
FindsByBlock(found, l, a, from, to) ==
    \A b \in 0 .. to :
        found[b] = IF b = 0 THEN <<>>
                   ELSE IF b >= from /\ a \in l[b] THEN Append(found[b - 1], b)
                   ELSE found[b - 1]

\* What a query finds, block by block.
LEMMA FoundByBlock ==
    ASSUME NEW l, NEW a, NEW from \in Nat, NEW to \in Nat
    PROVE  \E found \in [0 .. to -> Seq(Nat)] :
              /\ FoundIn(l, a, from, to) = found[to]
              /\ FindsByBlock(found, l, a, from, to)
<1> DEFINE Value(f, b) == IF b = 0 THEN <<>>
                          ELSE IF b >= from /\ a \in l[b] THEN Append(f[b - 1], b)
                          ELSE f[b - 1]
           step == [p \in (1 .. to) \X Seq(Nat) |->
                       IF p[1] >= from /\ a \in l[p[1]] THEN Append(p[2], p[1]) ELSE p[2]]
           found == CHOOSE f : f = [b \in 0 .. to |-> Value(f, b)]
<1>1. step \in [(1 .. to) \X Seq(Nat) -> Seq(Nat)]
  <2> SUFFICES ASSUME NEW p \in (1 .. to) \X Seq(Nat)
               PROVE  (IF p[1] >= from /\ a \in l[p[1]] THEN Append(p[2], p[1]) ELSE p[2])
                         \in Seq(Nat)
      OBVIOUS
  <2>1. p[1] \in Nat /\ p[2] \in Seq(Nat)
      OBVIOUS
  <2>2. Append(p[2], p[1]) \in Seq(Nat)
      BY <2>1, EventsOfAppend
  <2> QED
      BY <2>1, <2>2
<1>2. PICK f \in [0 .. to -> Seq(Nat)] :
         \A b \in 0 .. to : f[b] = IF b = 0 THEN <<>> ELSE step[<<b, f[b - 1]>>]
  <2> DEFINE V == Seq(Nat)
             base == <<>>
  <2>1. /\ to \in Nat /\ base \in V
        /\ step \in [(1 .. to) \X V -> V]
      BY <1>1
  <2> HIDE DEF V, base, step
  <2>2. \E f \in [0 .. to -> V] : IsRecursive(f, to, base, step)
      BY <2>1, PrimitiveRecursion, Zenon
  <2> QED
      BY <2>2 DEF V, base, IsRecursive
<1>3. \A b \in 0 .. to : f[b] = Value(f, b)
  <2> SUFFICES ASSUME NEW b \in 0 .. to
               PROVE  f[b] = Value(f, b)
      BY Zenon
  <2>1. CASE b = 0
      BY <1>2, <2>1
  <2>2. CASE b # 0
    <3>1. b \in 1 .. to /\ b - 1 \in 0 .. to
        BY <2>2
    <3>2. f[b - 1] \in Seq(Nat)
        BY <3>1
    <3>3. step[<<b, f[b - 1]>>] =
             IF b >= from /\ a \in l[b] THEN Append(f[b - 1], b) ELSE f[b - 1]
        BY <3>1, <3>2
    <3> HIDE DEF step
    <3> QED
        BY <1>2, <2>2, <3>3
  <2> QED
      BY <2>1, <2>2
<1>4. f = [b \in 0 .. to |-> Value(f, b)]
  <2> HIDE DEF Value
  <2> QED
      BY <1>3
<1>5. found = [b \in 0 .. to |-> Value(found, b)]
    BY <1>4, Zenon
<1>6. FoundIn(l, a, from, to) = found[to]
    BY Zenon DEF FoundIn
<1> HIDE DEF found
<1>7. \A b \in 0 .. to : found[b] = Value(found, b)
  <2> HIDE DEF Value
  <2> QED
      BY <1>5, Zenon
<1>8. \A b \in 0 .. to : found[b] \in Seq(Nat)
  <2> DEFINE D == {b \in 0 .. to : found[b] \in Seq(Nat)}
  <2>1. 0 \in D
    <3>1. 0 \in 0 .. to /\ <<>> \in Seq(Nat)
        OBVIOUS
    <3>2. found[0] = <<>>
        BY <1>7, <3>1
    <3> QED
        BY <3>1, <3>2
  <2>2. ASSUME NEW b \in 0 .. to - 1, b \in D
        PROVE  b + 1 \in D
    <3>1. b + 1 \in 0 .. to /\ b + 1 # 0 /\ (b + 1) - 1 = b /\ b + 1 \in Nat
        OBVIOUS
    <3>2. found[b] \in Seq(Nat)
        BY <2>2
    <3>3. Append(found[b], b + 1) \in Seq(Nat)
        BY <3>1, <3>2, EventsOfAppend
    <3>4. found[b + 1] = Append(found[b], b + 1) \/ found[b + 1] = found[b]
        BY <1>7, <3>1
    <3> QED
        BY <3>1, <3>2, <3>3, <3>4
  <2>3. \A b \in 0 .. to : b \in D
    <3> HIDE DEF D
    <3> QED
        BY <2>1, <2>2, BoundedInduction
  <2> QED
      BY <2>3
<1>9. found \in [0 .. to -> Seq(Nat)]
  <2>1. found = [b \in 0 .. to |-> found[b]]
    <3> HIDE DEF Value
    <3> QED
        BY <1>5, <1>7
  <2> QED
      BY <1>8, <2>1
<1>10. FindsByBlock(found, l, a, from, to)
    BY <1>7 DEF FindsByBlock
<1> QED
    BY <1>6, <1>9, <1>10

\* The blocks from from to to with an event of a.
Between(l, a, from, to) == {b \in 1 .. to : b >= from /\ a \in l[b]}

\* A query finds the events of the account in the blocks it searches, and
\* nothing else.
LEMMA FoundInEvents ==
    ASSUME NEW l, NEW a, NEW from \in Nat, NEW to \in Nat
    PROVE  /\ FoundIn(l, a, from, to) \in Seq(Nat)
           /\ EventsIn(FoundIn(l, a, from, to)) = Between(l, a, from, to)
<1>0. PICK found \in [0 .. to -> Seq(Nat)] :
         FoundIn(l, a, from, to) = found[to] /\ FindsByBlock(found, l, a, from, to)
    BY FoundByBlock, Zenon
<1>1. /\ FoundIn(l, a, from, to) = found[to]
      /\ \A b \in 0 .. to :
            found[b] = IF b = 0 THEN <<>>
                       ELSE IF b >= from /\ a \in l[b] THEN Append(found[b - 1], b)
                       ELSE found[b - 1]
    BY <1>0 DEF FindsByBlock
<1> DEFINE Until(n) == {b \in 1 .. n : b >= from /\ a \in l[b]}
           D == {n \in 0 .. to : EventsIn(found[n]) = Until(n)}
<1>2. 0 \in D
  <2>1. 0 \in 0 .. to /\ Until(0) = {}
      OBVIOUS
  <2>2. found[0] = <<>>
      BY <1>1, <2>1
  <2> QED
      BY <2>1, <2>2, EventsOfEmpty
<1>3. ASSUME NEW n \in 0 .. to - 1, n \in D
      PROVE  n + 1 \in D
  <2>1. n + 1 \in 0 .. to /\ n + 1 # 0 /\ (n + 1) - 1 = n /\ n + 1 \in Nat /\ n \in 0 .. to
      OBVIOUS
  <2>2. EventsIn(found[n]) = Until(n) /\ found[n] \in Seq(Nat)
      BY <1>3, <2>1
  <2>3. CASE n + 1 >= from /\ a \in l[n + 1]
    <3>1. found[n + 1] = Append(found[n], n + 1)
        BY <1>1, <2>1, <2>3
    <3>0. 1 .. n + 1 = (1 .. n) \union {n + 1}
        BY <2>1
    <3>2. Until(n + 1) = Until(n) \union {n + 1}
        BY <2>3, <3>0
    <3>3. EventsIn(found[n + 1]) = EventsIn(found[n]) \union {n + 1}
        BY <2>1, <2>2, <3>1, EventsOfAppend
    <3> QED
        BY <2>1, <2>2, <3>2, <3>3
  <2>4. CASE ~(n + 1 >= from /\ a \in l[n + 1])
    <3>1. found[n + 1] = found[n]
        BY <1>1, <2>1, <2>4
    <3>2. Until(n + 1) = Until(n)
        BY <2>1, <2>4
    <3> QED
        BY <2>1, <2>2, <3>1, <3>2
  <2> QED
      BY <2>3, <2>4
<1>4. to \in D
  <2>1. \A n \in 0 .. to : n \in D
    <3> HIDE DEF D
    <3> QED
        BY <1>2, <1>3, BoundedInduction
  <2> QED
      BY <2>1
<1> QED
    BY <1>1, <1>4 DEF Between

\* The same of the chain there is.
LEMMA FoundEvents ==
    ASSUME NEW a, NEW from \in Nat, NEW to \in Nat
    PROVE  /\ Found(a, from, to) \in Seq(Nat)
           /\ EventsIn(Found(a, from, to)) = Between(log, a, from, to)
<1>1. Found(a, from, to) = FoundIn(log, a, from, to)
    BY DEF Found, FoundIn
<1>2. /\ FoundIn(log, a, from, to) \in Seq(Nat)
      /\ EventsIn(FoundIn(log, a, from, to)) = Between(log, a, from, to)
    BY FoundInEvents, Zenon
<1> QED
    BY <1>1, <1>2, Zenon

\* The chains l and k agree up to block n.
Agree(l, k, n) == \A b \in 1 .. n : l[b] = k[b]

\* Two queries of chains that agree find the same up to a block.
LEMMA SameFinds ==
    ASSUME NEW l, NEW k, NEW a, NEW from \in Nat, NEW n \in Nat, NEW f, NEW g,
           FindsByBlock(f, l, a, from, n), FindsByBlock(g, k, a, from, n),
           Agree(l, k, n)
    PROVE  f[n] = g[n]
<1> DEFINE D == {b \in 0 .. n : f[b] = g[b]}
<1>1. 0 \in D
    BY DEF FindsByBlock
<1>2. ASSUME NEW b \in 0 .. n - 1, b \in D
      PROVE  b + 1 \in D
  <2>1. /\ b + 1 \in 0 .. n /\ b + 1 # 0 /\ (b + 1) - 1 = b /\ b + 1 \in 1 .. n
        /\ f[b] = g[b]
      BY <1>2
  <2>2. f[b + 1] = IF b + 1 >= from /\ a \in l[b + 1] THEN Append(f[b], b + 1) ELSE f[b]
      BY <2>1 DEF FindsByBlock
  <2>3. g[b + 1] = IF b + 1 >= from /\ a \in k[b + 1] THEN Append(g[b], b + 1) ELSE g[b]
      BY <2>1 DEF FindsByBlock
  <2>4. l[b + 1] = k[b + 1]
      BY <2>1 DEF Agree
  <2>5. f[b + 1] = g[b + 1]
      BY <2>1, <2>2, <2>3, <2>4
  <2> QED
      BY <2>1, <2>5
<1>3. \A b \in 0 .. n : b \in D
  <2> HIDE DEF D
  <2> QED
      BY <1>1, <1>2, BoundedInduction
<1>4. n \in 0 .. n
    OBVIOUS
<1> QED
    BY <1>3, <1>4

\* What is found of a block depends on that block and those before it only.
LEMMA SameFound ==
    ASSUME NEW l, NEW k, NEW a, NEW from \in Nat, NEW n \in Nat,
           Agree(l, k, n)
    PROVE  FoundIn(l, a, from, n) = FoundIn(k, a, from, n)
<1>1. PICK f \in [0 .. n -> Seq(Nat)] :
         FoundIn(l, a, from, n) = f[n] /\ FindsByBlock(f, l, a, from, n)
    BY FoundByBlock, Zenon
<1>2. PICK g \in [0 .. n -> Seq(Nat)] :
         FoundIn(k, a, from, n) = g[n] /\ FindsByBlock(g, k, a, from, n)
    BY FoundByBlock, Zenon
<1>3. f[n] = g[n]
  <2>1. FindsByBlock(f, l, a, from, n) /\ FindsByBlock(g, k, a, from, n) /\ Agree(l, k, n)
      BY <1>1, <1>2
  <2>2. \A x, y : FindsByBlock(x, l, a, from, n) /\ FindsByBlock(y, k, a, from, n)
                     /\ Agree(l, k, n) => x[n] = y[n]
      BY SameFinds, SMT
  <2> QED
      BY <2>1, <2>2, Zenon
<1> QED
    BY <1>1, <1>2, <1>3

\* A query to the next block finds what a query to this block finds, and the
\* event of the next block.
LEMMA FoundNext ==
    ASSUME NEW l, NEW a, NEW from \in Nat, NEW n \in Nat
    PROVE  FoundIn(l, a, from, n + 1) =
              IF n + 1 >= from /\ a \in l[n + 1]
              THEN Append(FoundIn(l, a, from, n), n + 1)
              ELSE FoundIn(l, a, from, n)
<1>0. n + 1 \in Nat /\ n + 1 \in 0 .. n + 1 /\ n + 1 # 0 /\ (n + 1) - 1 = n
    OBVIOUS
<1>1. PICK f \in [0 .. n + 1 -> Seq(Nat)] :
         FoundIn(l, a, from, n + 1) = f[n + 1] /\ FindsByBlock(f, l, a, from, n + 1)
    BY <1>0, FoundByBlock, Zenon
<1>2. PICK g \in [0 .. n -> Seq(Nat)] :
         FoundIn(l, a, from, n) = g[n] /\ FindsByBlock(g, l, a, from, n)
    BY FoundByBlock, Zenon
<1>3. f[n] = g[n]
  <2>1. 0 .. n \subseteq 0 .. n + 1
      OBVIOUS
  <2>2. FindsByBlock(f, l, a, from, n)
      BY <1>1, <2>1 DEF FindsByBlock
  <2>3. Agree(l, l, n)
      BY DEF Agree
  <2> QED
      BY <1>2, <2>2, <2>3, SameFinds
<1>4. f[n + 1] = IF n + 1 >= from /\ a \in l[n + 1] THEN Append(f[n], n + 1) ELSE f[n]
    BY <1>0, <1>1 DEF FindsByBlock
<1> QED
    BY <1>1, <1>2, <1>3, <1>4

\* A sequence that holds no event is empty.
LEMMA NoEvents ==
    ASSUME NEW s \in Seq(Nat), EventsIn(s) = {}
    PROVE  s = <<>>
<1>1. Len(s) = 0
  <2> SUFFICES ASSUME Len(s) # 0
               PROVE  FALSE
      OBVIOUS
  <2>1. 1 \in DOMAIN s
      OBVIOUS
  <2> QED
      BY <2>1 DEF EventsIn
<1> QED
    BY <1>1

\* A query that searches no block finds nothing.
LEMMA FoundNothing ==
    ASSUME NEW l, NEW a, NEW from \in Nat, NEW n \in Nat, n < from \/ n = 0
    PROVE  FoundIn(l, a, from, n) = <<>>
<1>1. Between(l, a, from, n) = {}
    BY DEF Between
<1>2. /\ FoundIn(l, a, from, n) \in Seq(Nat)
      /\ EventsIn(FoundIn(l, a, from, n)) = Between(l, a, from, n)
    BY FoundInEvents, Zenon
<1> QED
    BY <1>1, <1>2, NoEvents

\* Appending to what is behind.
LEMMA AppendBehind ==
    ASSUME NEW s \in Seq(Nat), NEW t \in Seq(Nat), NEW x \in Nat
    PROVE  Append(s \o t, x) = s \o Append(t, x)
<1>1. /\ <<x>> \in Seq(Nat) /\ s \o t \in Seq(Nat)
    OBVIOUS
<1>2. Append(s \o t, x) = (s \o t) \o <<x>>
    BY <1>1, AppendIsConcat, Zenon
<1>3. Append(t, x) = t \o <<x>>
    BY AppendIsConcat, Zenon
<1>4. (s \o t) \o <<x>> = s \o (t \o <<x>>)
    BY <1>1, ConcatAssociative
<1> QED
    BY <1>2, <1>3, <1>4, Zenon

\* A query behind another continues it.
LEMMA FoundBehind ==
    ASSUME NEW l, NEW a, NEW m \in Nat, NEW n \in Nat, m <= n
    PROVE  FoundIn(l, a, 0, n) = FoundIn(l, a, 0, m) \o FoundIn(l, a, m + 1, n)
<1> DEFINE All(k) == FoundIn(l, a, 0, k)
           Rest(k) == FoundIn(l, a, m + 1, k)
           D == {k \in 0 .. n - m : All(m + k) = All(m) \o Rest(m + k)}
<1>1. \A k \in Nat : All(k) \in Seq(Nat) /\ Rest(k) \in Seq(Nat)
  <2> SUFFICES ASSUME NEW k \in Nat
               PROVE  All(k) \in Seq(Nat) /\ Rest(k) \in Seq(Nat)
      OBVIOUS
  <2>1. m + 1 \in Nat /\ 0 \in Nat
      OBVIOUS
  <2>2. /\ FoundIn(l, a, 0, k) \in Seq(Nat)
        /\ EventsIn(FoundIn(l, a, 0, k)) = Between(l, a, 0, k)
      BY <2>1, FoundInEvents, Zenon
  <2>3. /\ FoundIn(l, a, m + 1, k) \in Seq(Nat)
        /\ EventsIn(FoundIn(l, a, m + 1, k)) = Between(l, a, m + 1, k)
      BY <2>1, FoundInEvents, Zenon
  <2> QED
      BY <2>2, <2>3
<1>2. 0 \in D
  <2>1. Rest(m) = <<>>
      BY FoundNothing
  <2>2. All(m) \o <<>> = All(m)
      BY <1>1
  <2>3. m + 0 = m /\ 0 \in 0 .. n - m
      OBVIOUS
  <2> HIDE DEF All, Rest
  <2> QED
      BY <2>1, <2>2, <2>3
<1>3. ASSUME NEW k \in 0 .. (n - m) - 1, k \in D
      PROVE  k + 1 \in D
  <2>1. /\ m + k \in Nat /\ m + (k + 1) = (m + k) + 1 /\ k + 1 \in 0 .. n - m
        /\ (m + k) + 1 >= m + 1 /\ (m + k) + 1 >= 0 /\ m + 1 \in Nat /\ 0 \in Nat
      BY <1>3
  <2>2. All((m + k) + 1) = IF (m + k) + 1 >= 0 /\ a \in l[(m + k) + 1]
                           THEN Append(All(m + k), (m + k) + 1) ELSE All(m + k)
      BY <2>1, FoundNext, ZenonT(60)
  <2>3. Rest((m + k) + 1) = IF (m + k) + 1 >= m + 1 /\ a \in l[(m + k) + 1]
                            THEN Append(Rest(m + k), (m + k) + 1) ELSE Rest(m + k)
      BY <2>1, FoundNext, ZenonT(60)
  <2>4. All(m + k) = All(m) \o Rest(m + k)
      BY <1>3
  <2>5. All(m) \in Seq(Nat) /\ Rest(m + k) \in Seq(Nat) /\ (m + k) + 1 \in Nat
      BY <1>1, <2>1
  <2> HIDE DEF All, Rest
  <2>6. Append(All(m) \o Rest(m + k), (m + k) + 1) = All(m) \o Append(Rest(m + k), (m + k) + 1)
      BY <2>5, AppendBehind
  <2>7. All((m + k) + 1) = All(m) \o Rest((m + k) + 1)
      BY <2>1, <2>2, <2>3, <2>4, <2>6
  <2> QED
      BY <2>1, <2>7
<1>4. \A k \in 0 .. n - m : k \in D
  <2>1. n - m \in Nat
      OBVIOUS
  <2> HIDE DEF D
  <2> QED
      BY <1>2, <1>3, <2>1, BoundedInduction
<1>5. n - m \in 0 .. n - m /\ m + (n - m) = n
    OBVIOUS
<1>6. All(m + (n - m)) = All(m) \o Rest(m + (n - m))
    BY <1>4, <1>5
<1> QED
    BY <1>5, <1>6

(***************************************************************************)
(* The inductive invariant                                                 *)
(***************************************************************************)
Fetches == [stage : {"asking", "signed", "querying"}, account : Accounts,
            existing : Seq(Nat), start : Nat, end : Nat]

Types ==
    /\ log \in Seq(SUBSET Accounts)
    /\ account \in Accounts \union {Nobody}
    /\ caches \in [Accounts -> [events : Seq(Nat), end : Nat]]
    /\ calls \in [Calls -> {Idle} \union Fetches]

\* What a fetch captured may be older than the cache, never ahead of it: the
\* cache holds all events before the blocks that the fetch searches, and these
\* are not beyond the chain.  Without it a late answer could take the cache's
\* endBlockNumber beyond a block whose event the cache lacks.
CapturedIsCached ==
    \A c \in Calls :
        Under(c) =>
            /\ BlocksOf(calls[c].account, calls[c].start - 1)
                  \subseteq EventsIn(caches[calls[c].account].events)
            /\ calls[c].start <= Latest + 1
            /\ calls[c].stage = "querying" =>
                  calls[c].start <= calls[c].end /\ calls[c].end <= Latest

EndsInChain == \A a \in Accounts : caches[a].end <= Latest

IInv == Types /\ CacheComplete /\ CapturedIsCached /\ EndsInChain

\* The invariant holds of a page that has just been loaded and an empty chain.
LEMMA Initially == EventCacheInit => IInv
<1> SUFFICES ASSUME EventCacheInit
             PROVE  IInv
    OBVIOUS
<1> USE DEF EventCacheInit
<1>1. Types
    BY DEF Types, NoCache, Idle
<1>2. Latest = 0 /\ \A a, h : BlocksOf(a, h) = {}
    BY DEF Latest, BlocksOf
<1>3. \A a \in Accounts : caches[a].end = 0 /\ EventsIn(caches[a].events) = {}
    BY EventsOfEmpty DEF NoCache
<1>4. \A c \in Calls : ~Under(c)
    BY DEF Under
<1> QED
    BY <1>1, <1>2, <1>3, <1>4 DEF IInv, CacheComplete, CapturedIsCached, EndsInChain

\* What the type invariant says of a fetch that is under way.
LEMMA FetchTypes ==
    ASSUME Types, NEW c \in Calls, Under(c)
    PROVE  calls[c] \in Fetches
BY DEF Types, Under

\* A new block changes nothing of those before it.
LEMMA BlocksKept ==
    ASSUME Types, NEW S, log' = log \/ log' = Append(log, S)
    PROVE  /\ Latest \in Nat /\ Latest' \in Nat /\ Latest <= Latest'
           /\ \A a, h : h <= Latest /\ h \in Int => BlocksOf(a, h)' = BlocksOf(a, h)
           /\ \A a : BlocksOf(a, Latest) \subseteq BlocksOf(a, Latest)'
<1>1. CASE log' = log
  <2>1. Latest \in Nat
      BY DEF Types, Latest
  <2> QED
      BY <1>1, <2>1 DEF Latest, BlocksOf
<1>2. CASE log' = Append(log, S)
  <2>1. Len(log) \in Nat /\ Len(log') = Len(log) + 1 /\ \A b \in 1 .. Len(log) : log'[b] = log[b]
      BY <1>2 DEF Types
  <2> QED
      BY <2>1 DEF Latest, BlocksOf
<1> QED
    BY <1>1, <1>2

\* The fetch of c after a step: none, the one there was, or a new one.
Follows(c) ==
    \/ calls'[c] = Idle
    \/ /\ Under(c)
       /\ calls'[c].account = calls[c].account
       /\ calls'[c].start = calls[c].start
       /\ calls'[c].stage = "querying" =>
             calls'[c].start <= calls'[c].end /\ calls'[c].end <= Latest
    \/ /\ caches' = caches /\ log' = log
       /\ \E a \in Accounts : calls'[c].account = a /\ calls'[c].start = StartBlock(a)
       /\ calls'[c].stage # "querying"

\* A step keeps what is known of the fetches if no cache loses an event.
LEMMA FetchesKept ==
    ASSUME IInv, Types', NEW S, log' = log \/ log' = Append(log, S),
           \A a \in Accounts :
              EventsIn(caches[a].events) \subseteq EventsIn(caches[a].events)',
           \A c \in Calls : Follows(c)
    PROVE  CapturedIsCached'
<1> SUFFICES ASSUME NEW c \in Calls, Under(c)'
             PROVE  /\ BlocksOf(calls[c].account, calls[c].start - 1)'
                          \subseteq EventsIn(caches[calls[c].account].events)'
                    /\ (calls[c].start <= Latest + 1)'
                    /\ calls'[c].stage = "querying" =>
                          calls'[c].start <= calls'[c].end /\ calls'[c].end <= Latest'
    BY DEF CapturedIsCached
<1>1. Types /\ CapturedIsCached /\ CacheComplete /\ EndsInChain
    BY DEF IInv
<1>2. /\ Latest \in Nat /\ Latest' \in Nat /\ Latest <= Latest'
      /\ \A a, h : h <= Latest /\ h \in Int => BlocksOf(a, h)' = BlocksOf(a, h)
      /\ \A a : BlocksOf(a, Latest) \subseteq BlocksOf(a, Latest)'
    BY <1>1, BlocksKept, Zenon
<1>3. calls'[c] \in Fetches
    BY FetchTypes DEF Types, Under
<1>4. CASE /\ Under(c)
           /\ calls'[c].account = calls[c].account
           /\ calls'[c].start = calls[c].start
           /\ calls'[c].stage = "querying" =>
                 calls'[c].start <= calls'[c].end /\ calls'[c].end <= Latest
  <2> DEFINE a == calls[c].account
             h == calls[c].start - 1
  <2>1. calls[c] \in Fetches
      BY <1>1, <1>4, FetchTypes
  <2>2. a \in Accounts /\ h \in Int /\ h <= Latest
      BY <1>1, <1>2, <1>4, <2>1 DEF CapturedIsCached, Fetches
  <2>3. BlocksOf(a, h) \subseteq EventsIn(caches[a].events)
      BY <1>1, <1>4 DEF CapturedIsCached
  <2>4. calls'[c].account = a /\ calls'[c].start - 1 = h
      BY <1>4
  <2>5. BlocksOf(calls[c].account, calls[c].start - 1)' = BlocksOf(a, h)
    <3>1. BlocksOf(a, h)' = BlocksOf(calls[c].account, calls[c].start - 1)'
        BY <2>4 DEF BlocksOf
    <3>2. {b \in 1 .. Latest' : b <= h /\ a \in log'[b]} = BlocksOf(a, h)
      <4> HIDE DEF a, h
      <4> QED
          BY <1>2, <2>2 DEF BlocksOf
    <3> QED
        BY <3>2, <2>4 DEF BlocksOf
  <2>6. EventsIn(caches[a].events) \subseteq EventsIn(caches'[a].events)
      BY <2>2, <1>1 DEF EventsIn
  <2>7. (calls[c].start <= Latest + 1)'
      BY <1>1, <1>2, <1>4, <2>1 DEF CapturedIsCached, Fetches
  <2>8. calls'[c].stage = "querying" =>
           calls'[c].start <= calls'[c].end /\ calls'[c].end <= Latest'
      BY <1>2, <1>3, <1>4 DEF Fetches
  <2> QED
      BY <2>3, <2>4, <2>5, <2>6, <2>7, <2>8 DEF EventsIn
<1>5. CASE /\ caches' = caches /\ log' = log
           /\ \E a \in Accounts : calls'[c].account = a /\ calls'[c].start = StartBlock(a)
           /\ calls'[c].stage # "querying"
  <2>1. PICK a \in Accounts : calls'[c].account = a /\ calls'[c].start = StartBlock(a)
      BY <1>5
  <2>2. caches[a].end \in Nat /\ caches[a].end <= Latest
      BY <1>1 DEF Types, EndsInChain
  <2>3. BlocksOf(a, StartBlock(a) - 1) \subseteq BlocksOf(a, caches[a].end)
      BY <1>2, <2>2 DEF StartBlock, BlocksOf
  <2>4. BlocksOf(a, StartBlock(a) - 1) \subseteq EventsIn(caches[a].events)
      BY <1>1, <2>3 DEF CacheComplete
  <2>5. StartBlock(a) <= Latest + 1
      BY <1>2, <2>2 DEF StartBlock
  <2> QED
      BY <1>5, <2>1, <2>4, <2>5 DEF BlocksOf, EventsIn, Latest
<1> QED
    BY <1>4, <1>5 DEF Follows, Under

\* A step that neither mines a block nor touches a cache.
LEMMA QuietStep ==
    ASSUME IInv, Types', log' = log, caches' = caches, \A c \in Calls : Follows(c)
    PROVE  IInv'
<1>1. CapturedIsCached'
  <2>1. \A a \in Accounts :
           EventsIn(caches[a].events) \subseteq EventsIn(caches[a].events)'
      BY DEF EventsIn
  <2> QED
      BY <2>1, FetchesKept
<1>2. CacheComplete' /\ EndsInChain'
    BY DEF IInv, CacheComplete, EndsInChain, BlocksOf, EventsIn, Latest
<1> QED
    BY <1>1, <1>2 DEF IInv

\* What a fetch captures.
LEMMA CaptureFollows ==
    ASSUME Types, NEW a \in Accounts, NEW stage \in {"asking", "signed"}, NEW c \in Calls,
           log' = log, caches' = caches,
           calls' = [calls EXCEPT ![c] = Captured(a, stage)]
    PROVE  /\ calls' \in [Calls -> {Idle} \union Fetches]
           /\ \A d \in Calls : calls'[d] = calls[d] \/ Follows(d)
<1>1. caches[a].events \in Seq(Nat) /\ caches[a].end \in Nat
    BY DEF Types
<1>2. Captured(a, stage) \in Fetches
    BY <1>1 DEF Captured, StartBlock, Fetches
<1>3. Follows(c)
    BY DEF Follows, Captured, Types
<1> QED
    BY <1>2, <1>3 DEF Types

\* A fetch that does not change, or is over.
LEMMA SameFollows ==
    ASSUME IInv, NEW c \in Calls, calls'[c] = calls[c] \/ calls'[c] = Idle
    PROVE  Follows(c)
BY DEF IInv, CapturedIsCached, Follows, Under

\* The updater's effect clears what is shown and may begin a fetch.
LEMMA RefreshStep ==
    ASSUME IInv, NEW a \in Accounts \union {Nobody}, NEW ready, Refresh(a, ready),
           log' = log, caches' = caches, account' \in Accounts \union {Nobody}
    PROVE  IInv' /\ \A d \in Calls : Follows(d)
<1>1. Types
    BY DEF IInv
<1>2. calls' \in [Calls -> {Idle} \union Fetches] /\ \A d \in Calls : Follows(d)
  <2>1. CASE calls' = calls
      BY <1>1, <2>1, SameFollows DEF Types
  <2>2. CASE /\ a # Nobody
             /\ \E c \in Calls : calls' = [calls EXCEPT ![c] = Captured(a, "asking")]
    <3>1. PICK c \in Calls : calls' = [calls EXCEPT ![c] = Captured(a, "asking")]
        BY <2>2
    <3>2. a \in Accounts
        BY <2>2
    <3>3. /\ calls' \in [Calls -> {Idle} \union Fetches]
          /\ \A d \in Calls : calls'[d] = calls[d] \/ Follows(d)
        BY <1>1, <3>1, <3>2, CaptureFollows
    <3> QED
        BY <3>3, SameFollows
  <2> QED
      BY <2>1, <2>2 DEF Refresh
<1>3. Types'
    BY <1>1, <1>2 DEF Types
<1> QED
    BY <1>2, <1>3, QuietStep

\* A form captures the cache when it is submitted.
LEMMA SubmitStep ==
    ASSUME IInv, NEW c \in Calls, Submit(c)
    PROVE  IInv' /\ \A d \in Calls : Follows(d)
<1>1. Types /\ account \in Accounts /\ UNCHANGED <<log, account, caches>>
    BY EventCacheAssumption DEF IInv, Submit
<1>2. /\ calls' \in [Calls -> {Idle} \union Fetches]
      /\ \A d \in Calls : calls'[d] = calls[d] \/ Follows(d)
    BY <1>1, CaptureFollows DEF Submit
<1>3. \A d \in Calls : Follows(d)
    BY <1>2, SameFollows
<1>4. Types'
    BY <1>1, <1>2 DEF Types
<1> QED
    BY <1>1, <1>3, <1>4, QuietStep

\* A fetch ends without a change of the caches.
LEMMA EndStep ==
    ASSUME IInv, NEW c \in Calls, calls' = [calls EXCEPT ![c] = Idle],
           UNCHANGED <<log, account, caches>>
    PROVE  IInv' /\ \A d \in Calls : Follows(d)
<1>1. Types
    BY DEF IInv
<1>2. \A d \in Calls : calls'[d] = calls[d] \/ calls'[d] = Idle
    BY <1>1 DEF Types
<1>3. \A d \in Calls : Follows(d)
    BY <1>2, SameFollows
<1>4. Types'
    BY <1>1 DEF Types
<1> QED
    BY <1>3, <1>4, QuietStep

\* The blocks to query are fixed by the latest block there is.
LEMMA QueryStep ==
    ASSUME IInv, NEW c \in Calls, Query(c)
    PROVE  IInv' /\ \A d \in Calls : Follows(d)
<1>1. Types /\ UNCHANGED <<log, account, caches>> /\ Latest \in Nat
    BY DEF IInv, Query, Types, Latest
<1>2. calls[c] \in Fetches /\ Under(c)
    BY <1>1 DEF Types, Query, Idle, Under, Fetches
<1>3. calls'[c] = [calls[c] EXCEPT !.stage = "querying", !.end = Latest]
    BY <1>1 DEF Query, Types
<1>4. calls'[c] \in Fetches
    BY <1>1, <1>2, <1>3 DEF Fetches
<1>5. Follows(c)
  <2>1. calls[c].start <= Latest
      BY DEF Query
  <2> QED
      BY <1>1, <1>2, <1>3, <2>1 DEF Follows, Fetches
<1>6. \A d \in Calls \ {c} : calls'[d] = calls[d]
    BY <1>1 DEF Query, Types
<1>7. \A d \in Calls : Follows(d)
    BY <1>5, <1>6, SameFollows
<1>8. Types'
    BY <1>1, <1>4 DEF Types, Query
<1> QED
    BY <1>1, <1>7, <1>8, QuietStep

\* A new block is beyond what every cache and every query has reached.
LEMMA MineStep ==
    ASSUME IInv, NEW others \in SUBSET Active, NEW sent \in SUBSET Calls, Mine(others, sent)
    PROVE  IInv' /\ \A d \in Calls : Follows(d)
<1>1. Types /\ UNCHANGED <<account, caches>>
    BY DEF IInv, Mine
<1>2. \A c \in sent : calls[c] \in Fetches /\ Under(c)
    BY <1>1 DEF Types, Mine, Idle, Under, Fetches
<1> DEFINE S == others \union {calls[c].account : c \in sent}
<1>3. S \in SUBSET Accounts /\ log' = Append(log, S)
    BY <1>1, <1>2, EventCacheAssumption DEF Mine, Fetches
<1>4. \A c \in Calls : calls'[c] = IF c \in sent THEN [calls[c] EXCEPT !.stage = "asking"]
                                    ELSE calls[c]
    BY DEF Mine
<1>5. \A c \in sent : calls'[c] \in Fetches /\ Follows(c)
    BY <1>2, <1>4 DEF Fetches, Follows
<1>6. \A c \in Calls : Follows(c)
    BY <1>4, <1>5, SameFollows
<1>7. Types'
  <2>1. log' \in Seq(SUBSET Accounts)
      BY <1>1, <1>3 DEF Types
  <2>2. calls' \in [Calls -> {Idle} \union Fetches]
    <3>1. \A c \in Calls : calls'[c] \in {Idle} \union Fetches
        BY <1>1, <1>4, <1>5 DEF Types
    <3>2. calls' = [c \in Calls |-> calls'[c]]
        BY DEF Mine
    <3> QED
        BY <3>1, <3>2
  <2> QED
      BY <1>1, <2>1, <2>2 DEF Types
<1>8. \A a \in Accounts : EventsIn(caches[a].events) \subseteq EventsIn(caches[a].events)'
    BY <1>1 DEF EventsIn
<1> HIDE DEF S
<1>9. CapturedIsCached'
    BY <1>3, <1>6, <1>7, <1>8, FetchesKept
<1>10. CacheComplete' /\ EndsInChain'
  <2>1. /\ Latest \in Nat /\ Latest' \in Nat /\ Latest <= Latest'
        /\ \A a, h : h <= Latest /\ h \in Int => BlocksOf(a, h)' = BlocksOf(a, h)
        /\ \A a : BlocksOf(a, Latest) \subseteq BlocksOf(a, Latest)'
      BY <1>1, <1>3, BlocksKept, Zenon
  <2>2. EndsInChain'
      BY <1>1, <2>1 DEF IInv, EndsInChain, Types
  <2>3. ASSUME NEW a \in Accounts
        PROVE  /\ BlocksOf(a, caches[a].end)' \subseteq EventsIn(caches[a].events)'
               /\ EventsIn(caches[a].events)' \subseteq BlocksOf(a, Latest)'
    <3>1. caches[a].end \in Nat /\ caches[a].end <= Latest
        BY <1>1 DEF IInv, EndsInChain, Types
    <3>2. \A h : h <= Latest /\ h \in Int =>
             {b \in 1 .. Latest' : b <= h /\ a \in log'[b]} = BlocksOf(a, h)
        BY <2>1 DEF BlocksOf
    <3>3. {b \in 1 .. Latest' : b <= caches[a].end /\ a \in log'[b]}
             = BlocksOf(a, caches[a].end)
        BY <3>1, <3>2
    <3>4. BlocksOf(a, caches[a].end)' = BlocksOf(a, caches[a].end)
        BY <1>1, <3>3 DEF BlocksOf
    <3> QED
        BY <1>1, <2>1, <3>4 DEF IInv, CacheComplete, EventsIn
  <2> QED
      BY <2>2, <2>3 DEF CacheComplete
<1> QED
    BY <1>6, <1>7, <1>9, <1>10 DEF IInv

\* What an answer brings follows what its fetch had captured.
LEMMA IngestStep ==
    ASSUME IInv, NEW c \in Calls, Ingest(c)
    PROVE  IInv'
<1>1. Types /\ CacheComplete /\ EndsInChain /\ CapturedIsCached /\ UNCHANGED <<log, account>>
    BY DEF IInv, Ingest
<1>2. calls[c] \in Fetches /\ Under(c) /\ calls[c].stage = "querying"
    BY <1>1 DEF Types, Ingest, Idle, Under, Fetches
<1> DEFINE a == calls[c].account
           from == calls[c].start
           to == calls[c].end
           found == Found(a, from, to)
<1>3. a \in Accounts /\ from \in Nat /\ to \in Nat
    BY <1>2 DEF Fetches
<1>4. to <= Latest /\ Latest \in Nat /\ BlocksOf(a, from - 1) \subseteq EventsIn(caches[a].events)
  <2>1. Latest \in Nat
      BY <1>1 DEF Types, Latest
  <2>2. to <= Latest
      BY <1>1, <1>2 DEF CapturedIsCached
  <2>3. BlocksOf(a, from - 1) \subseteq EventsIn(caches[a].events)
      BY <1>1, <1>2 DEF CapturedIsCached
  <2> QED
      BY <2>1, <2>2, <2>3
<1>5. /\ caches' = [caches EXCEPT ![a] = [events |-> caches[a].events \o found, end |-> to]]
      /\ calls' = [calls EXCEPT ![c] = Idle]
    BY DEF Ingest, Ingested
<1> HIDE DEF a, from, to
<1>6. found \in Seq(Nat) /\ EventsIn(found) = {b \in 1 .. to : b >= from /\ a \in log[b]}
  <2>1. found \in Seq(Nat) /\ EventsIn(found) = Between(log, a, from, to)
      BY <1>3, FoundEvents, Zenon
  <2> QED
      BY <2>1 DEF Between
<1> HIDE DEF found
<1>7. caches[a].events \in Seq(Nat) /\ caches[a].end \in Nat
    BY <1>1, <1>3 DEF Types
<1>8. /\ caches[a].events \o found \in Seq(Nat)
      /\ EventsIn(caches[a].events \o found) = EventsIn(caches[a].events) \union EventsIn(found)
    BY <1>6, <1>7, EventsOfConcat
<1>9. /\ caches'[a] = [events |-> caches[a].events \o found, end |-> to]
      /\ \A x \in Accounts \ {a} : caches'[x] = caches[x]
    BY <1>1, <1>3, <1>5 DEF Types
<1>10. Types'
    BY <1>1, <1>3, <1>5, <1>8 DEF Types
<1>11. \A x \in Accounts : EventsIn(caches[x].events) \subseteq EventsIn(caches'[x].events)
  <2>1. EventsIn(caches[a].events) \subseteq EventsIn(caches'[a].events)
      BY <1>8, <1>9
  <2>2. \A x \in Accounts \ {a} :
           EventsIn(caches[x].events) \subseteq EventsIn(caches'[x].events)
      BY <1>9
  <2> QED
      BY <2>1, <2>2
<1>12. CapturedIsCached'
  <2>1. \A d \in Calls : calls'[d] = calls[d] \/ calls'[d] = Idle
      BY <1>1, <1>5 DEF Types
  <2>2. \A d \in Calls : Follows(d)
      BY <2>1, SameFollows
  <2>3. \A x \in Accounts : EventsIn(caches[x].events) \subseteq EventsIn(caches[x].events)'
      BY <1>11 DEF EventsIn
  <2> QED
      BY <1>1, <1>10, <2>2, <2>3, FetchesKept
<1>13. EndsInChain'
    BY <1>1, <1>4, <1>9 DEF EndsInChain, Latest
<1>14. CacheComplete'
  <2>1. EventsIn(caches[a].events) \subseteq BlocksOf(a, Latest)
      BY <1>1, <1>3 DEF CacheComplete
  <2>2. EventsIn(found) \subseteq BlocksOf(a, Latest)
      BY <1>3, <1>4, <1>6 DEF BlocksOf
  <2>3. BlocksOf(a, to) \subseteq BlocksOf(a, from - 1) \union EventsIn(found)
      BY <1>3, <1>4, <1>6 DEF BlocksOf
  <2>4. /\ BlocksOf(a, caches'[a].end) \subseteq EventsIn(caches'[a].events)
        /\ EventsIn(caches'[a].events) \subseteq BlocksOf(a, Latest)
      BY <1>4, <1>8, <1>9, <2>1, <2>2, <2>3
  <2>5. \A x \in Accounts :
            /\ BlocksOf(x, caches'[x].end) \subseteq EventsIn(caches'[x].events)
            /\ EventsIn(caches'[x].events) \subseteq BlocksOf(x, Latest)
      BY <1>1, <1>9, <2>4 DEF CacheComplete
  <2>6. log' = log
      BY <1>1
  <2> QED
      BY <2>5, <2>6 DEF CacheComplete, BlocksOf, EventsIn, Latest
<1> QED
    BY <1>10, <1>12, <1>13, <1>14 DEF IInv

\* A reload empties the caches and ends the fetches together.
LEMMA ReloadStep ==
    ASSUME IInv, Reload
    PROVE  IInv'
<1>1. Types /\ log' = log /\ Latest \in Nat
    BY DEF IInv, Reload, Types, Latest
<1>2. Types'
    BY <1>1 DEF Types, Reload, NoCache, Idle
<1>3. /\ \A c \in Calls : calls'[c] = Idle
      /\ \A a \in Accounts : caches'[a].end = 0 /\ caches'[a].events = <<>>
    BY DEF Reload, NoCache
<1>4. CapturedIsCached' /\ EndsInChain'
    BY <1>1, <1>3 DEF CapturedIsCached, EndsInChain, Under, Latest
<1>5. CacheComplete'
  <2>1. \A a : {b \in 1 .. Latest : b <= 0 /\ a \in log[b]} = {}
      BY <1>1
  <2> QED
      BY <1>1, <1>3, <2>1, EventsOfEmpty DEF CacheComplete, BlocksOf, EventsIn, Latest
<1> QED
    BY <1>2, <1>4, <1>5 DEF IInv

\* The cache stays, and a block may come.
Quiet == caches' = caches /\ (log' = log \/ \E S : log' = Append(log, S))

\* The invariant is inductive, and but for an answer and for a reload a step
\* leaves the caches alone.
LEMMA Step ==
    IInv /\ [EventCacheNext]_vars =>
        /\ IInv'
        /\ \/ Quiet /\ \A c \in Calls : Follows(c)
           \/ \E c \in Calls : Ingest(c)
           \/ Reload
<1> DEFINE Goal == /\ IInv'
                   /\ \/ Quiet /\ \A c \in Calls : Follows(c)
                      \/ \E c \in Calls : Ingest(c)
                      \/ Reload
<1> SUFFICES ASSUME IInv, [EventCacheNext]_vars
             PROVE  Goal
    OBVIOUS
<1>1. ASSUME NEW a \in Accounts \union {Nobody}, Connect(a)
      PROVE  Goal
    BY <1>1, RefreshStep DEF Connect, Quiet
<1>2. CASE ReadIndex
    BY <1>2, RefreshStep DEF ReadIndex, IInv, Types, Quiet
<1>3. ASSUME NEW c \in Calls, Submit(c)
      PROVE  Goal
    BY <1>3, SubmitStep DEF Submit, Quiet
<1>4. ASSUME NEW c \in Calls, Reject(c) \/ NothingNew(c) \/ Fail(c)
      PROVE  Goal
    BY <1>4, EndStep DEF Reject, NothingNew, Fail, Quiet
<1>5. ASSUME NEW c \in Calls, Query(c)
      PROVE  Goal
    BY <1>5, QueryStep DEF Query, Quiet
<1>6. ASSUME NEW c \in Calls, Ingest(c)
      PROVE  Goal
    BY <1>6, IngestStep
<1>7. ASSUME NEW others \in SUBSET Active, NEW sent \in SUBSET Calls, Mine(others, sent)
      PROVE  Goal
    BY <1>7, MineStep DEF Mine, Quiet
<1>8. CASE Reload
    BY <1>8, ReloadStep
<1>9. CASE UNCHANGED vars
  <2>1. Types' /\ log' = log /\ caches' = caches
      BY <1>9 DEF IInv, Types, vars
  <2>2. \A c \in Calls : Follows(c)
      BY <1>9, SameFollows DEF vars
  <2> QED
      BY <2>1, <2>2, QuietStep DEF Quiet
<1> QED
    BY <1>1, <1>2, <1>3, <1>4, <1>5, <1>6, <1>7, <1>8, <1>9 DEF EventCacheNext, Answer

\* In every run of any number of fetches of any number of accounts, over any
\* number of blocks, the cache of an account holds all its events of the blocks
\* up to its endBlockNumber and no other's: a fetch that answers late, behind
\* another of the same account, only takes endBlockNumber back.
THEOREM CachesAreComplete == EventCacheSpec => []CacheComplete
<1>1. IInv => CacheComplete
    BY DEF IInv
<1>2. IInv /\ [EventCacheNext]_vars => IInv'
    BY Step
<1> QED
    BY Initially, <1>1, <1>2, PTL DEF EventCacheSpec

(***************************************************************************)
(* Fetches that follow one another                                         *)
(***************************************************************************)
\* The last block before those that a fetch searches.
Searched(c) == IF calls[c].start = 0 THEN 0 ELSE calls[c].start - 1

\* The cache of a is what one query of all its blocks would find, and so was
\* what a fetch under way captured.  That it was, and not only that the fetch
\* begins behind the cache, is needed: an answer of an older fetch can empty
\* the cache again under a fetch that begins later.
Turn(a) ==
    /\ caches[a].events = Found(a, 0, caches[a].end)
    /\ \A c \in Calls : Under(c) /\ calls[c].account = a =>
          caches[a].events = Found(a, 0, Searched(c))

InTurn ==
    /\ crossing \subseteq crossed
    /\ \A a \in Accounts \ crossed : Turn(a)

\* Found, of the chain as a parameter.
LEMMA FoundOf == \A a, from, to : Found(a, from, to) = FoundIn(log, a, from, to)
    BY DEF Found, FoundIn

\* The same after a step.
LEMMA FoundOfNext == \A a, from, to : Found(a, from, to)' = FoundIn(log', a, from, to)
    BY DEF Found, FoundIn

\* The bounds of what fetches have searched.
LEMMA SearchedBounds ==
    ASSUME IInv, NEW c \in Calls, Under(c)
    PROVE  /\ Searched(c) \in Nat /\ Searched(c) <= Latest /\ Latest \in Nat
           /\ calls[c].account \in Accounts
           /\ calls[c].start \in Nat /\ calls[c].end \in Nat
<1>1. Types /\ CapturedIsCached
    BY DEF IInv
<1>2. calls[c] \in Fetches
    BY <1>1, FetchTypes
<1>3. Latest \in Nat
    BY <1>1 DEF Types, Latest
<1>4. calls[c].start <= Latest + 1
    BY <1>1 DEF CapturedIsCached
<1> QED
    BY <1>2, <1>3, <1>4 DEF Searched, Fetches

\* An empty cache holds all events of no block, and of those before the blocks
\* that a fetch searches there is none.
EmptyInTurn == \A a \in Accounts : caches[a] = NoCache => Turn(a)

\* The invariant implies that accounts with an empty cache are in turn.
LEMMA EmptyTurn == IInv => EmptyInTurn
<1> SUFFICES ASSUME IInv, NEW a \in Accounts, caches[a] = NoCache
             PROVE  Turn(a)
    BY DEF EmptyInTurn
<1>1. caches[a].events = <<>> /\ caches[a].end = 0
    BY DEF NoCache
<1>2. Found(a, 0, 0) = <<>>
  <2>1. 0 \in Nat
      OBVIOUS
  <2>2. FoundIn(log, a, 0, 0) = <<>>
      BY <2>1, FoundNothing, Zenon
  <2> QED
      BY <2>2, FoundOf
<1>3. ASSUME NEW c \in Calls, Under(c), calls[c].account = a
      PROVE  Found(a, 0, Searched(c)) = <<>>
  <2>1. CASE calls[c].start = 0
      BY <1>2, <2>1 DEF Searched
  <2>2. CASE calls[c].start # 0
    <3>1. /\ Searched(c) \in Nat /\ Searched(c) <= Latest /\ Latest \in Nat
          /\ Searched(c) = calls[c].start - 1
        BY <1>3, <2>2, SearchedBounds DEF Searched
    <3>2. BlocksOf(a, Searched(c)) = {}
        BY <1>1, <1>3, <3>1, EventsOfEmpty DEF IInv, CapturedIsCached
    <3>3. 0 \in Nat
        OBVIOUS
    <3>4. /\ Found(a, 0, Searched(c)) \in Seq(Nat)
          /\ EventsIn(Found(a, 0, Searched(c))) = Between(log, a, 0, Searched(c))
        BY <3>1, <3>3, FoundEvents, Zenon
    <3>5. Between(log, a, 0, Searched(c)) = {}
        BY <3>1, <3>2 DEF BlocksOf, Between
    <3> QED
        BY <3>4, <3>5, NoEvents
  <2> QED
      BY <2>1, <2>2
<1> QED
    BY <1>1, <1>2, <1>3 DEF Turn

\* A block adds nothing to what is found of those before it.
LEMMA FoundKept ==
    ASSUME Types, NEW S, log' = log \/ log' = Append(log, S), NEW a, NEW n \in Nat, n <= Latest
    PROVE  Found(a, 0, n)' = Found(a, 0, n)
<1>1. Agree(log', log, n)
  <2>1. CASE log' = log
      BY <2>1 DEF Agree
  <2>2. CASE log' = Append(log, S)
    <3>1. Len(log) \in Nat /\ \A b \in 1 .. Len(log) : log'[b] = log[b]
        BY <2>2 DEF Types
    <3> QED
        BY <3>1 DEF Agree, Latest
  <2> QED
      BY <2>1, <2>2
<1>2. 0 \in Nat
    OBVIOUS
<1>3. FoundIn(log', a, 0, n) = FoundIn(log, a, 0, n)
  <2>1. \A l, k : Agree(l, k, n) => FoundIn(l, a, 0, n) = FoundIn(k, a, 0, n)
      BY <1>2, SameFound, SMT
  <2> QED
      BY <1>1, <2>1, Zenon
<1>4. Found(a, 0, n) = FoundIn(log, a, 0, n)
    BY FoundOf
<1>5. Found(a, 0, n)' = FoundIn(log', a, 0, n)
    BY DEF Found, FoundIn
<1> QED
    BY <1>3, <1>4, <1>5

\* A step that leaves the caches alone keeps the turn of an account.
LEMMA QuietTurn ==
    ASSUME IInv, IInv', NEW a \in Accounts, Turn(a), Quiet, \A c \in Calls : Follows(c)
    PROVE  Turn(a)'
<1>1. Types /\ EndsInChain
    BY DEF IInv
<1>2. PICK S : log' = log \/ log' = Append(log, S)
    BY DEF Quiet
<1>3. caches' = caches /\ caches[a].end \in Nat /\ caches[a].end <= Latest /\ Latest \in Nat
    BY <1>1 DEF Quiet, Types, EndsInChain, Latest
<1>4. \A n \in Nat : n <= Latest => FoundIn(log', a, 0, n) = Found(a, 0, n)
  <2> SUFFICES ASSUME NEW n \in Nat, n <= Latest
               PROVE  FoundIn(log', a, 0, n) = Found(a, 0, n)
      OBVIOUS
  <2>1. Found(a, 0, n)' = Found(a, 0, n)
      BY <1>1, <1>2, FoundKept
  <2>2. Found(a, 0, n)' = FoundIn(log', a, 0, n)
      BY DEF Found, FoundIn
  <2> QED
      BY <2>1, <2>2
<1>5. caches[a].events = FoundIn(log', a, 0, caches[a].end)
    BY <1>3, <1>4 DEF Turn
<1>6. ASSUME NEW c \in Calls, Under(c)', calls'[c].account = a
      PROVE  caches[a].events = FoundIn(log', a, 0, Searched(c)')
  <2>1. CASE Under(c) /\ calls'[c].account = calls[c].account /\ calls'[c].start = calls[c].start
    <3>1. Searched(c)' = Searched(c)
        BY <2>1 DEF Searched
    <3>2. Searched(c) \in Nat /\ Searched(c) <= Latest
        BY <2>1, SearchedBounds
    <3>3. caches[a].events = Found(a, 0, Searched(c))
        BY <1>6, <2>1 DEF Turn
    <3> QED
        BY <1>4, <3>1, <3>2, <3>3
  <2>2. CASE \E x \in Accounts : calls'[c].account = x /\ calls'[c].start = StartBlock(x)
    <3>1. calls'[c].start = StartBlock(a)
        BY <1>6, <2>2
    <3>2. Searched(c)' = caches[a].end
        BY <1>3, <3>1 DEF Searched, StartBlock
    <3> QED
        BY <1>5, <3>2
  <2> QED
      BY <1>6, <2>1, <2>2 DEF Follows, Under
<1>7. caches'[a].events = FoundIn(log', a, 0, caches'[a].end)
    BY <1>3, <1>5
<1>8. \A c \in Calls : Under(c)' /\ calls'[c].account = a =>
          caches'[a].events = FoundIn(log', a, 0, Searched(c)')
    BY <1>3, <1>6
<1> QED
    BY <1>7, <1>8, FoundOfNext DEF Turn, Found, FoundIn

\* An answer keeps the turn of an account that has no two fetches under way.
LEMMA IngestTurn ==
    ASSUME IInv, NEW a \in Accounts, Turn(a), a \notin crossing, NEW c \in Calls, Ingest(c)
    PROVE  Turn(a)'
<1>1. Types /\ CapturedIsCached /\ log' = log
    BY DEF IInv, Ingest
<1>2. calls[c] \in Fetches /\ Under(c) /\ calls[c].stage = "querying"
    BY <1>1 DEF Types, Ingest, Idle, Under, Fetches
<1>3. /\ caches' = [caches EXCEPT ![calls[c].account] =
                       [events |-> caches[calls[c].account].events
                                      \o Found(calls[c].account, calls[c].start, calls[c].end),
                        end |-> calls[c].end]]
      /\ calls' = [calls EXCEPT ![c] = Idle]
    BY DEF Ingest, Ingested
<1>4. \A d \in Calls : d # c => calls'[d] = calls[d]
    BY <1>1, <1>3 DEF Types
<1>5. calls'[c] = Idle
    BY <1>1, <1>3 DEF Types
<1>6. CASE calls[c].account # a
  <2>1. caches'[a] = caches[a]
      BY <1>1, <1>3, <1>6 DEF Types
  <2>2. \A d \in Calls : Under(d)' /\ calls'[d].account = a =>
            Under(d) /\ calls[d].account = a /\ Searched(d)' = Searched(d)
      BY <1>4, <1>5 DEF Under, Searched
  <2>3. \A n : Found(a, 0, n)' = Found(a, 0, n)
      BY <1>1 DEF Found
  <2>4. caches'[a].events = FoundIn(log', a, 0, caches'[a].end)
      BY <1>1, <2>1 DEF Turn, Found, FoundIn
  <2>5. \A d \in Calls : Under(d)' /\ calls'[d].account = a =>
            caches'[a].events = FoundIn(log', a, 0, Searched(d)')
    <3>1. \A d \in Calls : Under(d) /\ calls[d].account = a =>
              caches[a].events = FoundIn(log, a, 0, Searched(d))
        BY FoundOf DEF Turn
    <3> QED
        BY <1>1, <2>1, <2>2, <3>1
  <2> QED
      BY <2>4, <2>5 DEF Turn, Found, FoundIn
<1>7. CASE calls[c].account = a
  <2> DEFINE from == calls[c].start
             to == calls[c].end
             m == Searched(c)
  <2>1. /\ m \in Nat /\ from \in Nat /\ to \in Nat /\ m <= to
        /\ from = m + 1 \/ (from = 0 /\ m = 0)
    <3>1. from \in Nat /\ to \in Nat
        BY <1>2 DEF Fetches
    <3>2. from <= to
        BY <1>1, <1>2 DEF CapturedIsCached
    <3> QED
        BY <3>1, <3>2 DEF Searched
  <2>2. caches[a].events = FoundIn(log, a, 0, m)
      BY <1>2, <1>7, FoundOf DEF Turn
  <2>3. FoundIn(log, a, 0, to) = FoundIn(log, a, 0, m) \o FoundIn(log, a, from, to)
    <3> HIDE DEF from, to, m
    <3>1. CASE from = m + 1
      <4>1. FoundIn(log, a, 0, to) = FoundIn(log, a, 0, m) \o FoundIn(log, a, m + 1, to)
          BY <2>1, FoundBehind, Zenon
      <4> QED
          BY <3>1, <4>1
    <3>2. CASE from = 0 /\ m = 0
      <4>1. 0 \in Nat /\ 0 = 0
          OBVIOUS
      <4>2. FoundIn(log, a, 0, 0) = <<>>
          BY <4>1, FoundNothing, Zenon
      <4>3. /\ FoundIn(log, a, 0, to) \in Seq(Nat)
            /\ EventsIn(FoundIn(log, a, 0, to)) = Between(log, a, 0, to)
          BY <2>1, <4>1, FoundInEvents, Zenon
      <4>4. <<>> \o FoundIn(log, a, 0, to) = FoundIn(log, a, 0, to)
          BY <4>3
      <4> QED
          BY <3>2, <4>2, <4>4
    <3> QED
        BY <2>1, <3>1, <3>2
  <2>4. caches'[a] = [events |-> caches[a].events \o FoundIn(log, a, from, to), end |-> to]
      BY <1>1, <1>3, <1>7, FoundOf DEF Types
  <2> HIDE DEF from, to, m
  <2>5. caches'[a].events = FoundIn(log', a, 0, caches'[a].end)
      BY <1>1, <2>2, <2>3, <2>4
  <2>6. \A d \in Calls : ~(Under(d)' /\ calls'[d].account = a)
    <3> SUFFICES ASSUME NEW d \in Calls, Under(d)', calls'[d].account = a
                 PROVE  FALSE
        OBVIOUS
    <3>1. d # c
        BY <1>5 DEF Under
    <3>2. Under(d) /\ calls[d].account = a
        BY <1>4, <3>1 DEF Under
    <3> QED
        BY <1>2, <1>7, <3>1, <3>2 DEF crossing
  <2> QED
      BY <2>5, <2>6 DEF Turn, Found, FoundIn
<1> QED
    BY <1>6, <1>7

\* The invariant of fetches in turn is inductive.
LEMMA InTurnStep ==
    IInv /\ IInv' /\ InTurn /\ [MCNext]_<<vars, crossed>> => InTurn'
<1> SUFFICES ASSUME IInv, IInv', InTurn, [MCNext]_<<vars, crossed>>
             PROVE  InTurn'
    OBVIOUS
<1>1. CASE MCNext
  <2>1. crossed' = {a \in crossed : caches'[a] # NoCache} \union crossing' /\ EventCacheNext
      BY <1>1 DEF MCNext
  <2>2. crossing' \subseteq crossed'
      BY <2>1
  <2>3. ASSUME NEW a \in Accounts, a \notin crossed'
        PROVE  Turn(a)'
    <3>1. CASE caches'[a] = NoCache
      <4>1. EmptyInTurn'
          BY EmptyTurn, PTL
      <4> QED
          BY <3>1, <4>1 DEF EmptyInTurn
    <3>2. CASE caches'[a] # NoCache
      <4>1. a \notin crossed
          BY <2>1, <2>3, <3>2
      <4>2. Turn(a) /\ a \notin crossing
          BY <4>1 DEF InTurn
      <4>3. CASE Quiet /\ \A c \in Calls : Follows(c)
          BY <4>2, <4>3, QuietTurn
      <4>4. CASE \E c \in Calls : Ingest(c)
          BY <4>2, <4>4, IngestTurn
      <4>5. CASE Reload
          BY <3>2, <4>5 DEF Reload
      <4> QED
          BY <2>1, <4>3, <4>4, <4>5, Step
    <3> QED
        BY <3>1, <3>2
  <2> QED
      BY <2>2, <2>3 DEF InTurn
<1>2. CASE UNCHANGED <<vars, crossed>>
  <2>1. UNCHANGED <<vars, crossed>>
      BY <1>2
  <2>2. crossing' = crossing
      BY <2>1 DEF vars, crossing, Under
  <2>3. \A a : Turn(a)' = Turn(a)
      BY <2>1 DEF vars, Turn, Under, Searched, Found
  <2> QED
      BY <2>1, <2>2, <2>3 DEF InTurn
<1> QED
    BY <1>1, <1>2

\* Whatever fails, is switched or reloaded between them, and however late they
\* answer, the fetches of an account that are under way one at a time search
\* every block once: its cache is what one query of all the blocks would find.
THEOREM BlocksAreSearchedOnce == MCSpec => []SearchedOnce
<1>1. MCInit => IInv /\ InTurn
  <2> SUFFICES ASSUME MCInit
               PROVE  IInv /\ InTurn
      OBVIOUS
  <2>1. IInv
      BY Initially DEF MCInit
  <2>2. crossing = {}
      BY DEF MCInit, EventCacheInit, crossing, Under
  <2>3. \A a \in Accounts : Turn(a)
      BY <2>1, EmptyTurn DEF EmptyInTurn, MCInit, EventCacheInit
  <2> QED
      BY <2>1, <2>2, <2>3 DEF InTurn
<1>2. IInv /\ [MCNext]_<<vars, crossed>> => IInv'
    BY Step DEF MCNext, vars
<1>3. IInv /\ InTurn /\ [MCNext]_<<vars, crossed>> => InTurn'
    BY <1>2, InTurnStep
<1>4. InTurn => SearchedOnce
    BY DEF InTurn, Turn, SearchedOnce
<1> QED
    BY <1>1, <1>2, <1>3, <1>4, PTL DEF MCSpec
===============================================================================
