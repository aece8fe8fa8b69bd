------------------------------- MODULE MCHealth -------------------------------
(***************************************************************************)
(* Health and Service for TLC: the configuration files.                    *)
(***************************************************************************)
EXTENDS Health, TLC

Symmetry == Permutations(Ifaces)

Values(flush, housekeeping, partial) ==
  [interfaces |-> Ifaces, flushInterval |-> flush,
   housekeepingInterval |-> housekeeping, allowPartial |-> partial, others |-> "ok"]

(* One file per thing that can be right or wrong about a file. *)
MCFiles ==
  { File(TRUE, "field", Values(2, 1, TRUE)),
    File(TRUE, "field", Values(2, 0, FALSE)),
    File(TRUE, "documented", Values(2, 1, TRUE)),
    File(TRUE, "field", Values(0, 1, TRUE)),
    File(FALSE, "field", Values(2, 1, FALSE)),
    File(TRUE, "field", [Values(2, 1, FALSE) EXCEPT !.interfaces = {}]),
    File(TRUE, "field", [Values(2, 1, FALSE) EXCEPT !.others = "bad"]) }

==============================================================================
