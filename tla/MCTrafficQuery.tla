---------------------------- MODULE MCTrafficQuery ----------------------------
(***************************************************************************)
(* TrafficQuery for TLC: one MAC on two interfaces and a second MAC.       *)
(***************************************************************************)
EXTENDS TrafficQuery

MCKeys == {<<1, 1>>, <<2, 1>>, <<2, 2>>}

MCOffsets == {-1, 1}

==============================================================================
