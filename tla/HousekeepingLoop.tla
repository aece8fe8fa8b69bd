--------------------------- MODULE HousekeepingLoop ---------------------------
(***************************************************************************)
(* runtime.HousekeepingLoop: runOnce prunes the daily rows that are older  *)
(* than the retention, once during Start on main's goroutine and then on   *)
(* every tick of the loop's own.  The cutoff is computed first and used by *)
(* the DELETE later, so the day may change in between.                     *)
(*                                                                         *)
(* lastRun, lastPruneDate and pruneErr are written by runOnce and read by  *)
(* nothing but tests; they are left out.                                   *)
(***************************************************************************)
EXTENDS Storage

VARIABLES
  hk,          \* runLoop: not started, in its select or runOnce, returned
  hkStopped,   \* stopCh is closed
  hkCutoff     \* cutoffDateUTC of the runOnce in progress, Nil when none is

hkVars == <<hk, hkStopped, hkCutoff>>

HkTypeOK ==
  /\ hk \in {"off", "select", "exited"}
  /\ hkStopped \in BOOLEAN
  /\ hkCutoff \in Dates \union {Nil}

(* NewHousekeepingLoop *)
HkInit ==
  /\ hk = "off"
  /\ hkStopped = FALSE
  /\ hkCutoff = Nil

(* The first half of runOnce. *)
HkBegin ==
  /\ hkCutoff = Nil
  /\ hkCutoff' = PruneCutoffDate
  /\ UNCHANGED <<hk, hkStopped, storageVars>>

(* The second half; after the runOnce of Start, go runLoop. *)
HkPrune ==
  /\ hkCutoff # Nil
  /\ PruneDaily(hkCutoff)
  /\ hkCutoff' = Nil
  /\ hk' = IF hk = "off" THEN "select" ELSE hk
  /\ UNCHANGED hkStopped

(* The DELETE fails.  runLoop carries on; Start returns the error. *)
HkFail ==
  /\ hkCutoff # Nil
  /\ hkCutoff' = Nil
  /\ UNCHANGED <<hk, hkStopped, storageVars>>

HkTick == hk = "select" /\ HkBegin

HkLoopExit ==
  /\ hk = "select" /\ hkCutoff = Nil
  /\ hkStopped
  /\ hk' = "exited"
  /\ UNCHANGED <<hkStopped, hkCutoff>>

(* Stop: stopped = true and close(stopCh). *)
HkCloseStop ==
  /\ ~hkStopped
  /\ hkStopped' = TRUE
  /\ UNCHANGED <<hk, hkCutoff>>

(* The process is gone. *)
HkGone ==
  /\ hk' = "off"
  /\ hkStopped' = FALSE
  /\ hkCutoff' = Nil

==============================================================================
