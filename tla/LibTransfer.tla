------------------------------ MODULE LibTransfer ------------------------------
(***************************************************************************)
(* How the diamond takes in, pays out and burns one of the tokens it holds *)
(* (libraries/Token/LibTransfer.sol and LibBalance.sol).  A bank is a      *)
(* record with what every account has in its wallet (the ERC-20 balance),  *)
(* what the diamond owes it as an internal balance, and what the diamond   *)
(* itself holds.  The operators are pure: a handler of another module      *)
(* composes them and assigns the result to its own bank variable.          *)
(*                                                                         *)
(* Every account is taken to have approved the diamond in the ERC-20       *)
(* contract, so a pull from a wallet fails only for lack of balance.  The  *)
(* token is one without a transfer fee (the Moon token is).                *)
(***************************************************************************)
EXTENDS Sums

CONSTANT Accounts

FromModes == {"EXTERNAL", "INTERNAL", "EXTERNAL_INTERNAL", "INTERNAL_TOLERANT"}
ToModes   == {"EXTERNAL", "INTERNAL"}

Banks == [wallet : [Accounts -> Nat], internal : [Accounts -> Nat], held : Nat]

\* A mutant of FromInternal: a partial deduction that forgets the balance.
UncappedFromInternal(b, amount, a, mode) == IF mode = "EXTERNAL" THEN 0 ELSE amount

\* What a pull of amount deducts from the internal balance of account a.
FromInternal(b, amount, a, mode) ==
    IF mode = "EXTERNAL" THEN 0 ELSE Lesser(b.internal[a], amount)

\* What a pull of amount delivers: all of it, except that a tolerant pull
\* delivers no more than the internal balance.
Received(b, amount, a, mode) ==
    IF mode = "INTERNAL_TOLERANT" THEN FromInternal(b, amount, a, mode) ELSE amount

FromWallet(b, amount, a, mode) ==
    Received(b, amount, a, mode) - FromInternal(b, amount, a, mode)

\* The pull does not revert.
CanReceive(b, amount, a, mode) ==
    /\ mode = "INTERNAL" => b.internal[a] >= amount
    /\ b.wallet[a] >= FromWallet(b, amount, a, mode)

ReceiveToken(b, amount, a, mode) ==
    [b EXCEPT !.internal[a] = @ - FromInternal(b, amount, a, mode),
              !.wallet[a]   = @ - FromWallet(b, amount, a, mode),
              !.held        = @ + FromWallet(b, amount, a, mode)]

\* The payment does not revert: the diamond holds what leaves it.
CanSend(b, amount, mode) == mode = "EXTERNAL" => b.held >= amount

SendToken(b, amount, a, mode) ==
    IF mode = "INTERNAL"
    THEN [b EXCEPT !.internal[a] = @ + amount]
    ELSE [b EXCEPT !.wallet[a] = @ + amount, !.held = @ - amount]

\* burnToken: from the wallet in one call, or a pull followed by a burn of
\* what the pull delivered, which is in the diamond's own balance.
CanBurn(b, amount, a, mode) ==
    /\ CanReceive(b, amount, a, mode)
    /\ ReceiveToken(b, amount, a, mode).held >= Received(b, amount, a, mode)

BurnToken(b, amount, a, mode) ==
    LET pulled == ReceiveToken(b, amount, a, mode)
    IN  [pulled EXCEPT !.held = @ - Received(b, amount, a, mode)]

\* transferToken: a pull and a payment; wallet to wallet in one ERC-20 call,
\* which has the same effect but does not need the diamond to hold anything.
CanTransfer(b, amount, a, fromMode, toMode) ==
    /\ CanReceive(b, amount, a, fromMode)
    /\ CanSend(ReceiveToken(b, amount, a, fromMode),
               Received(b, amount, a, fromMode), toMode)

TransferToken(b, amount, a, recipient, fromMode, toMode) ==
    SendToken(ReceiveToken(b, amount, a, fromMode),
              Received(b, amount, a, fromMode), recipient, toMode)

===============================================================================
