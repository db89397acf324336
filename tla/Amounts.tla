------------------------------ MODULE Amounts ------------------------------
(***************************************************************************)
(* Sums of numbers as sizes of sets.  A function that gives each of a      *)
(* finite number of holders an amount has as many units as its values add  *)
(* up to; what adds, removes or moves a holder adds, removes or moves      *)
(* units, which can be reasoned about without induction over the holders.  *)
(***************************************************************************)
EXTENDS Naturals, FiniteSets

\* The units of each holder, numbered.
Units(amount) == UNION {{x} \X (1..amount[x]) : x \in DOMAIN amount}

\* The sum of the amounts of all holders.
Total(amount) == Cardinality(Units(amount))
=============================================================================
