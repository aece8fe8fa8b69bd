--------------------------------- MODULE Sums ---------------------------------
(***************************************************************************)
(* The sum of the values of a function into the natural numbers: the       *)
(* number of units of which its values consist.  Counted in this way, a    *)
(* part of the units is a smaller sum and disjoint parts add up, so that   *)
(* what is known of cardinalities is known of sums.                        *)
(***************************************************************************)
EXTENDS Naturals, FiniteSets

(* A unit is an argument of a and a number up to its value. *)
Units(a) == UNION {{x} \X (1 .. a[x]) : x \in DOMAIN a}

SumOver(a) == Cardinality(Units(a))

==============================================================================
