--------------------------------- MODULE Sums ---------------------------------
(***************************************************************************)
(* The sum of a function from a finite set to the natural numbers.  It is  *)
(* defined as the number of pairs <<x, k>> with 1 <= k <= f[x], and not    *)
(* with the folds of the community modules, so that the facts about finite *)
(* sets and cardinality are enough to prove what one update of f does to   *)
(* its sum.                                                                *)
(***************************************************************************)
EXTENDS Integers, FiniteSets

Units(f) == UNION {{x} \X (1 .. f[x]) : x \in DOMAIN f}

Sum(f) == Cardinality(Units(f))

Lesser(m, n)  == IF m <= n THEN m ELSE n
Greater(m, n) == IF m <= n THEN n ELSE m
===============================================================================
