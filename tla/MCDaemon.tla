------------------------------- MODULE MCDaemon -------------------------------
(***************************************************************************)
(* Daemon for TLC.                                                         *)
(***************************************************************************)
EXTENDS Daemon, TLC, FiniteSetsExt

Symmetry == Permutations(Keys)

(* SumOver adds as the community modules do. *)
ASSUME SumOverAdds ==
  \A n \in 0 .. 3 : \A a \in [1 .. n -> 0 .. 3] :
    SumOver(a) = MapThenSumSet(LAMBDA x : a[x], 1 .. n)

==============================================================================
