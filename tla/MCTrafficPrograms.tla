--------------------------- MODULE MCTrafficPrograms ---------------------------
(***************************************************************************)
(* TrafficPrograms for TLC.  The CPUs and the keys are interchangeable.    *)
(***************************************************************************)
EXTENDS TrafficPrograms, TLC

Symmetry == Permutations(Keys) \union Permutations(CPUs)

==============================================================================
