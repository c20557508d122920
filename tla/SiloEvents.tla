------------------------------ MODULE SiloEvents ------------------------------
(***************************************************************************)
(* The events the Silo emits of Deposits, Withdrawals and earned Moons.    *)
(* Those of Mage and Seeds, which nothing here follows, are left out.      *)
(***************************************************************************)
EXTENDS Integers, Sequences

LOCAL Seqs == INSTANCE SequencesExt

DepositAdded(a, token, s, amount, bdv) ==
    [type |-> "AddDeposit", account |-> a, token |-> token, season |-> s,
     amount |-> amount, bdv |-> bdv]

\* One event for each Season, in ascending order.
DepositsAdded(a, token, crates, bdvs) ==
    LET seasons == Seqs!SetToSortSeq(DOMAIN crates, <)
    IN  [k \in DOMAIN seasons |->
            DepositAdded(a, token, seasons[k], crates[seasons[k]], bdvs[seasons[k]])]

\* RemoveDeposits, and RemoveDeposit of one Season.
DepositsRemoved(a, token, crates) ==
    [type |-> "RemoveDeposits", account |-> a, token |-> token, crates |-> crates]

\* The events of a transfer: transferDeposits adds first, and
\* transferDeposit, of one Season, removes first.
DepositsMoved(from, to, token, crates, bdvs) ==
    LET added   == DepositsAdded(to, token, crates, bdvs)
        removed == DepositsRemoved(from, token, crates)
    IN  {Append(added, removed)}
            \cup (IF Len(added) = 1 THEN {<<removed>> \o added} ELSE {})

WithdrawalAdded(a, token, s, amount) ==
    [type |-> "AddWithdrawal", account |-> a, token |-> token, season |-> s,
     amount |-> amount]

\* RemoveWithdrawals, and RemoveWithdrawal of one Season: the Seasons and
\* what there was of all of them.
WithdrawalsRemoved(a, token, seasons, amount) ==
    [type |-> "RemoveWithdrawals", account |-> a, token |-> token, seasons |-> seasons,
     amount |-> amount]

Planted(a, moons) == [type |-> "Plant", account |-> a, moons |-> moons]

Rewarded(toSilo) == [type |-> "Reward", toSilo |-> toSilo]

\* Emit for a chain that nobody follows.
Silent(events) == TRUE
===============================================================================
