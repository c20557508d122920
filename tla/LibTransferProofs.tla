--------------------------- MODULE LibTransferProofs ---------------------------
(***************************************************************************)
(* What the operations on a bank keep: the types of its parts, and the     *)
(* Moons the diamond holds beyond what it owes as internal balances.       *)
(***************************************************************************)
EXTENDS LibTransfer, SumsProofs

\* What the diamond holds beyond the internal balances.
Surplus(b) == b.held - Sum(b.internal)

\* A pull deducts no more than there is and delivers no more than was asked.
LEMMA PullBounds ==
    ASSUME NEW b \in Banks, NEW amount \in Nat, NEW a \in Accounts, NEW mode \in FromModes
    PROVE  /\ FromInternal(b, amount, a, mode) \in Nat
           /\ FromInternal(b, amount, a, mode) <= b.internal[a]
           /\ Received(b, amount, a, mode) \in Nat
           /\ Received(b, amount, a, mode) <= amount
           /\ FromWallet(b, amount, a, mode) \in Nat
    BY DEF Banks, FromInternal, Received, FromWallet, Lesser, FromModes

\* Surplus of a bank with one internal balance changed.
LEMMA SurplusUpdate ==
    ASSUME IsFiniteSet(Accounts), NEW b \in Banks, NEW c \in Banks,
           NEW a \in Accounts, NEW v \in Nat, c.internal = [b.internal EXCEPT ![a] = v]
    PROVE  Surplus(c) = Surplus(b) + (c.held - b.held) - (v - b.internal[a])
<1>1. b.internal \in [Accounts -> Nat] /\ b.held \in Nat /\ c.held \in Nat
    BY DEF Banks
<1>2. Sum(c.internal) = Sum(b.internal) - b.internal[a] + v
    BY <1>1, SumUpdate
<1>3. Sum(b.internal) \in Nat /\ b.internal[a] \in Nat
  <2>1. DOMAIN b.internal = Accounts /\ \A x \in Accounts : b.internal[x] \in Nat
      BY <1>1
  <2> QED
      BY <2>1, SumType
<1> QED
    BY <1>1, <1>2, <1>3 DEF Surplus

\* A pull that does not revert gives a bank, whose surplus grew by what it
\* delivered.
LEMMA ReceiveTokenLemma ==
    ASSUME IsFiniteSet(Accounts),
           NEW b \in Banks, NEW amount \in Nat, NEW a \in Accounts, NEW mode \in FromModes,
           CanReceive(b, amount, a, mode)
    PROVE  /\ ReceiveToken(b, amount, a, mode) \in Banks
           /\ Surplus(ReceiveToken(b, amount, a, mode))
                 = Surplus(b) + Received(b, amount, a, mode)
<1> DEFINE f == FromInternal(b, amount, a, mode)
           w == FromWallet(b, amount, a, mode)
           c == ReceiveToken(b, amount, a, mode)
<1>1. /\ f \in Nat /\ f <= b.internal[a] /\ w \in Nat /\ w <= b.wallet[a]
      /\ Received(b, amount, a, mode) \in Nat
      /\ Received(b, amount, a, mode) = f + w
    BY PullBounds DEF CanReceive, FromWallet, Banks
<1>2. /\ b.internal \in [Accounts -> Nat] /\ b.wallet \in [Accounts -> Nat]
      /\ b.held \in Nat
    BY DEF Banks
<1>3. c = [wallet   |-> [b.wallet EXCEPT ![a] = b.wallet[a] - w],
           internal |-> [b.internal EXCEPT ![a] = b.internal[a] - f],
           held     |-> b.held + w]
  <2>1. c = [b EXCEPT !.internal[a] = b.internal[a] - f,
                      !.wallet[a] = b.wallet[a] - w, !.held = b.held + w]
      BY DEF ReceiveToken
  <2> HIDE DEF c, f, w
  <2> QED
      BY <2>1 DEF Banks
<1>4. c \in Banks
    BY <1>1, <1>2, <1>3 DEF Banks
<1>5. b.internal[a] - f \in Nat /\ c.held = b.held + w
      /\ c.internal = [b.internal EXCEPT ![a] = b.internal[a] - f]
    BY <1>1, <1>2, <1>3
<1>6. Surplus(c) = Surplus(b) + (c.held - b.held) - (b.internal[a] - f - b.internal[a])
  <2> HIDE DEF c, f
  <2> QED
      BY <1>4, <1>5, SurplusUpdate
<1>7. Surplus(b) \in Int
  <2>1. DOMAIN b.internal = Accounts /\ \A x \in Accounts : b.internal[x] \in Nat
      BY <1>2
  <2> QED
      BY <1>2, <2>1, SumType DEF Surplus
<1> QED
    BY <1>1, <1>2, <1>4, <1>5, <1>6, <1>7

\* A payment that does not revert gives a bank, whose surplus fell by as much.
LEMMA SendTokenLemma ==
    ASSUME IsFiniteSet(Accounts),
           NEW b \in Banks, NEW amount \in Nat, NEW a \in Accounts, NEW mode \in ToModes,
           CanSend(b, amount, mode)
    PROVE  /\ SendToken(b, amount, a, mode) \in Banks
           /\ Surplus(SendToken(b, amount, a, mode)) = Surplus(b) - amount
<1> DEFINE c == SendToken(b, amount, a, mode)
<1>1. /\ b.internal \in [Accounts -> Nat] /\ b.wallet \in [Accounts -> Nat]
      /\ b.held \in Nat /\ b.internal[a] \in Nat /\ b.wallet[a] \in Nat
    BY DEF Banks
<1>2. Surplus(b) \in Int
  <2>1. DOMAIN b.internal = Accounts /\ \A x \in Accounts : b.internal[x] \in Nat
      BY <1>1
  <2> QED
      BY <1>1, <2>1, SumType DEF Surplus
<1>3. CASE mode = "INTERNAL"
  <2>1. c = [wallet |-> b.wallet, internal |-> [b.internal EXCEPT ![a] = b.internal[a] + amount],
             held |-> b.held]
      BY <1>3 DEF SendToken, Banks
  <2>2. c \in Banks /\ c.held = b.held /\ b.internal[a] + amount \in Nat
        /\ c.internal = [b.internal EXCEPT ![a] = b.internal[a] + amount]
      BY <1>1, <2>1 DEF Banks
  <2> DEFINE v == b.internal[a] + amount
  <2>3. Surplus(c) = Surplus(b) + (c.held - b.held) - (v - b.internal[a])
    <3>1. v \in Nat /\ c \in Banks /\ c.internal = [b.internal EXCEPT ![a] = v]
        BY <2>2
    <3> HIDE DEF c, v
    <3> QED
        BY <3>1, SurplusUpdate
  <2> QED
      BY <1>1, <1>2, <2>2, <2>3
<1>4. CASE mode = "EXTERNAL"
  <2>1. c = [wallet |-> [b.wallet EXCEPT ![a] = b.wallet[a] + amount], internal |-> b.internal,
             held |-> b.held - amount]
      BY <1>4 DEF SendToken, Banks
  <2>2. c \in Banks /\ c.internal = b.internal /\ c.held = b.held - amount
      BY <1>1, <1>4, <2>1 DEF Banks, CanSend
  <2>3. Sum(b.internal) \in Nat
    <3>1. DOMAIN b.internal = Accounts /\ \A x \in Accounts : b.internal[x] \in Nat
        BY <1>1
    <3> QED
        BY <3>1, SumType
  <2>4. Surplus(c) = Surplus(b) - amount
    <3> HIDE DEF c
    <3> QED
        BY <1>1, <2>2, <2>3 DEF Surplus
  <2> QED
      BY <2>2, <2>4
<1> QED
    BY <1>3, <1>4 DEF ToModes

\* A burn leaves the surplus as it is: what it takes from an internal balance
\* the diamond burns of its own.
LEMMA BurnTokenLemma ==
    ASSUME IsFiniteSet(Accounts),
           NEW b \in Banks, NEW amount \in Nat, NEW a \in Accounts, NEW mode \in FromModes,
           CanBurn(b, amount, a, mode)
    PROVE  /\ BurnToken(b, amount, a, mode) \in Banks
           /\ Surplus(BurnToken(b, amount, a, mode)) = Surplus(b)
<1> DEFINE pulled == ReceiveToken(b, amount, a, mode)
           r == Received(b, amount, a, mode)
           c == BurnToken(b, amount, a, mode)
<1>1. pulled \in Banks /\ Surplus(pulled) = Surplus(b) + r
    BY ReceiveTokenLemma DEF CanBurn
<1>2. r \in Nat /\ pulled.held >= r
    BY PullBounds DEF CanBurn
<1>3. c = [pulled EXCEPT !.held = pulled.held - r]
    BY DEF BurnToken
<1> HIDE DEF pulled, r, c
<1>4. c \in Banks /\ c.internal = pulled.internal /\ c.held = pulled.held - r
      /\ pulled.held \in Nat
    BY <1>1, <1>2, <1>3 DEF Banks
<1>5. Sum(pulled.internal) \in Nat /\ Sum(b.internal) \in Nat /\ b.held \in Nat
  <2>1. /\ DOMAIN b.internal = Accounts /\ \A x \in Accounts : b.internal[x] \in Nat
        /\ DOMAIN pulled.internal = Accounts
        /\ \A x \in Accounts : pulled.internal[x] \in Nat
        /\ b.held \in Nat
      BY <1>1 DEF Banks
  <2> QED
      BY <2>1, SumType
<1>6. Surplus(c) = Surplus(b)
    BY <1>1, <1>2, <1>4, <1>5 DEF Surplus
<1> QED
    BY <1>4, <1>6 DEF c

\* A transfer between accounts leaves the surplus as it is.
LEMMA TransferTokenLemma ==
    ASSUME IsFiniteSet(Accounts),
           NEW b \in Banks, NEW amount \in Nat, NEW a \in Accounts,
           NEW recipient \in Accounts, NEW fromMode \in FromModes, NEW toMode \in ToModes,
           CanTransfer(b, amount, a, fromMode, toMode)
    PROVE  /\ TransferToken(b, amount, a, recipient, fromMode, toMode) \in Banks
           /\ Surplus(TransferToken(b, amount, a, recipient, fromMode, toMode)) = Surplus(b)
<1> DEFINE pulled == ReceiveToken(b, amount, a, fromMode)
           r == Received(b, amount, a, fromMode)
<1>1. pulled \in Banks /\ Surplus(pulled) = Surplus(b) + r
    BY ReceiveTokenLemma DEF CanTransfer
<1>2. r \in Nat /\ CanSend(pulled, r, toMode)
    BY PullBounds DEF CanTransfer
<1>3. Surplus(b) \in Int
  <2>1. /\ DOMAIN b.internal = Accounts /\ \A x \in Accounts : b.internal[x] \in Nat
        /\ b.held \in Nat
      BY DEF Banks
  <2> QED
      BY <2>1, SumType DEF Surplus
<1> HIDE DEF pulled, r
<1>4. SendToken(pulled, r, recipient, toMode) \in Banks
      /\ Surplus(SendToken(pulled, r, recipient, toMode)) = Surplus(pulled) - r
    BY <1>1, <1>2, SendTokenLemma
<1>5. Surplus(pulled) - r = Surplus(b)
    BY <1>1, <1>2, <1>3
<1> QED
    BY <1>4, <1>5 DEF TransferToken, pulled, r

(***************************************************************************)
(* What an account has                                                     *)
(***************************************************************************)
Owns(b, x) == b.wallet[x] + b.internal[x]

\* A pull takes from its account only.
LEMMA PullFromOne ==
    ASSUME NEW b \in Banks, NEW amount \in Nat, NEW a \in Accounts, NEW mode \in FromModes,
           NEW x \in Accounts, x # a
    PROVE  Owns(ReceiveToken(b, amount, a, mode), x) = Owns(b, x)
<1> DEFINE v == b.internal[a] - FromInternal(b, amount, a, mode)
           w == b.wallet[a] - FromWallet(b, amount, a, mode)
           h == b.held + FromWallet(b, amount, a, mode)
           c == ReceiveToken(b, amount, a, mode)
<1>1. c = [b EXCEPT !.internal[a] = v, !.wallet[a] = w, !.held = h]
    BY DEF ReceiveToken
<1> HIDE DEF v, w, h, c
<1>2. c.internal[x] = b.internal[x] /\ c.wallet[x] = b.wallet[x]
    BY <1>1 DEF Banks
<1> QED
    BY <1>2 DEF Owns, c

\* A payment goes to its account, in either mode.
LEMMA PayToOne ==
    ASSUME NEW b \in Banks, NEW amount \in Nat, NEW a \in Accounts, NEW mode \in ToModes,
           NEW x \in Accounts
    PROVE  /\ Owns(b, x) \in Nat
           /\ Owns(SendToken(b, amount, a, mode), x)
                = IF x = a THEN Owns(b, x) + amount ELSE Owns(b, x)
<1> DEFINE c == SendToken(b, amount, a, mode)
<1>1. /\ b.internal \in [Accounts -> Nat] /\ b.wallet \in [Accounts -> Nat]
      /\ b.internal[x] \in Nat /\ b.wallet[x] \in Nat
    BY DEF Banks
<1>2. CASE mode = "INTERNAL"
  <2>1. /\ c.wallet[x] = b.wallet[x]
        /\ c.internal[x] = IF x = a THEN b.internal[x] + amount ELSE b.internal[x]
      BY <1>1, <1>2 DEF SendToken, Banks
  <2> HIDE DEF c
  <2> QED
      BY <1>1, <2>1 DEF Owns, c
<1>3. CASE mode = "EXTERNAL"
  <2>1. /\ c.internal[x] = b.internal[x]
        /\ c.wallet[x] = IF x = a THEN b.wallet[x] + amount ELSE b.wallet[x]
      BY <1>1, <1>3 DEF SendToken, Banks
  <2> HIDE DEF c
  <2> QED
      BY <1>1, <2>1 DEF Owns, c
<1> QED
    BY <1>2, <1>3 DEF ToModes

\* A payment leaves the other accounts what they have.
LEMMA PayToOther ==
    ASSUME NEW b \in Banks, NEW amount, NEW a \in Accounts, NEW mode, NEW x \in Accounts, x # a
    PROVE  Owns(SendToken(b, amount, a, mode), x) = Owns(b, x)
<1> DEFINE c == SendToken(b, amount, a, mode)
           w == b.wallet[a] + amount
           i == b.internal[a] + amount
           h == b.held - amount
<1>1. c = IF mode = "INTERNAL" THEN [b EXCEPT !.internal[a] = i]
          ELSE [b EXCEPT !.wallet[a] = w, !.held = h]
    BY DEF SendToken
<1> HIDE DEF c, w, i, h
<1>2. c.wallet[x] = b.wallet[x] /\ c.internal[x] = b.internal[x]
    BY <1>1 DEF Banks
<1> QED
    BY <1>2 DEF Owns, c

\* A burn takes from its account only.
LEMMA BurnFromOne ==
    ASSUME IsFiniteSet(Accounts),
           NEW b \in Banks, NEW amount \in Nat, NEW a \in Accounts, NEW mode \in FromModes,
           CanBurn(b, amount, a, mode), NEW x \in Accounts, x # a
    PROVE  Owns(BurnToken(b, amount, a, mode), x) = Owns(b, x)
<1> DEFINE pulled == ReceiveToken(b, amount, a, mode)
           h == pulled.held - Received(b, amount, a, mode)
<1>1. Owns(pulled, x) = Owns(b, x)
    BY PullFromOne
<1>2. pulled \in Banks
    BY ReceiveTokenLemma DEF CanBurn
<1>3. BurnToken(b, amount, a, mode) = [pulled EXCEPT !.held = h]
    BY DEF BurnToken
<1> HIDE DEF pulled, h
<1>4. [pulled EXCEPT !.held = h].internal = pulled.internal
      /\ [pulled EXCEPT !.held = h].wallet = pulled.wallet
    BY <1>2 DEF Banks
<1> QED
    BY <1>1, <1>3, <1>4 DEF Owns

\* A transfer gives its recipient what the pull delivers.
LEMMA TransferToOne ==
    ASSUME IsFiniteSet(Accounts),
           NEW b \in Banks, NEW amount \in Nat, NEW a \in Accounts,
           NEW recipient \in Accounts, NEW fromMode \in FromModes, NEW toMode \in ToModes,
           CanTransfer(b, amount, a, fromMode, toMode), NEW x \in Accounts, x # a
    PROVE  /\ Owns(b, x) \in Nat /\ Received(b, amount, a, fromMode) \in Nat
           /\ Owns(TransferToken(b, amount, a, recipient, fromMode, toMode), x)
                = IF x = recipient THEN Owns(b, x) + Received(b, amount, a, fromMode)
                  ELSE Owns(b, x)
<1> DEFINE pulled == ReceiveToken(b, amount, a, fromMode)
           r == Received(b, amount, a, fromMode)
<1>1. Owns(pulled, x) = Owns(b, x) /\ pulled \in Banks /\ r \in Nat
    BY PullFromOne, ReceiveTokenLemma, PullBounds DEF CanTransfer
<1>2. TransferToken(b, amount, a, recipient, fromMode, toMode)
         = SendToken(pulled, r, recipient, toMode)
    BY DEF TransferToken
<1> HIDE DEF pulled, r
<1>3. /\ Owns(pulled, x) \in Nat
      /\ Owns(SendToken(pulled, r, recipient, toMode), x)
           = IF x = recipient THEN Owns(pulled, x) + r ELSE Owns(pulled, x)
    BY <1>1, PayToOne
<1> QED
    BY <1>1, <1>2, <1>3 DEF r
===============================================================================
