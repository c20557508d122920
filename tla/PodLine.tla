-------------------------------- MODULE PodLine --------------------------------
(***************************************************************************)
(* What the Field and the Marketplace promise about Pods: a first-in       *)
(* first-out line of Pods, each of which has exactly one holder from the   *)
(* time it is sown to the time it is redeemed.  The line only grows at its *)
(* end, what is redeemable only advances, a redeemed Pod never comes back, *)
(* and Pods change hands without being made or lost.                       *)
(***************************************************************************)
EXTENDS Integers

CONSTANTS Accounts, MaxPods, Nobody

VARIABLES
    length,  \* Pods 0 .. length-1 have been sown
    front,   \* Pods 0 .. front-1 may be redeemed
    holder   \* who holds each Pod

lineVars == <<length, front, holder>>

Pods == 0 .. MaxPods

LineInit ==
    /\ length = 0 /\ front = 0
    /\ holder = [i \in Pods |-> Nobody]

\* The Pods in changed become b's, and no other Pod changes hands.
Passed(changed, b) == [i \in Pods |-> IF i \in changed THEN b ELSE holder[i]]

\* a sows Pods that follow the last one.
Append(a, n) ==
    /\ length' = length + n
    /\ UNCHANGED front
    /\ holder' = Passed(length .. length + n - 1, a)

Advance(n) ==
    /\ front + n <= length
    /\ front' = front + n
    /\ UNCHANGED <<length, holder>>

\* a redeems Pods of its own that have come to the front.
Redeem(a) ==
    /\ UNCHANGED <<length, front>>
    /\ \E redeemed \in SUBSET {i \in 0 .. front - 1 : holder[i] = a} :
          holder' = Passed(redeemed, Nobody)

\* A run of Pods of one holder goes to another one.
Move(a, b) ==
    /\ a # b
    /\ UNCHANGED <<length, front>>
    /\ \E first, last \in {i \in Pods : holder[i] = a} :
          /\ first .. last \subseteq {i \in Pods : holder[i] = a}
          /\ holder' = Passed(first .. last, b)

LineNext ==
    \/ \E n \in 0 .. MaxPods : Advance(n)
    \/ \E a \in Accounts, n \in 1 .. MaxPods : length + n <= MaxPods /\ Append(a, n)
    \/ \E a \in Accounts : Redeem(a)
    \/ \E a, b \in Accounts : Move(a, b)

LineSpec == LineInit /\ [][LineNext]_lineVars
===============================================================================
