-------------------------------- MODULE Storage --------------------------------
(***************************************************************************)
(* storage.Repository: the three SQLite tables and the statements that     *)
(* write them.  A totals or daily row that does not exist is a Zero block: *)
(* the upserts insert the delta where there is no row and add it where     *)
(* there is one, which is the same sum.  The interface_name column is ""   *)
(* in every row the service writes, so a key is its (ifindex, mac).        *)
(* A transaction is one step: SQLite commits it as a whole or not at all.  *)
(***************************************************************************)
EXTENDS TrafficCounters

CONSTANTS
  MaxDay,      \* bound: the last day of the model's calendar
  Retention    \* days of daily rows that are kept, 400 in the code

ASSUME CalendarAssumption == MaxDay \in Nat /\ Retention \in Nat

VARIABLES
  checkpoints,   \* collector_checkpoints: key -> row or Nil
  totals,        \* mac_traffic_totals
  daily,         \* mac_traffic_daily: key -> date -> block
  pruneCut,      \* history: the latest cutoff PruneDaily was called with
  today          \* the current UTC date

storageVars == <<checkpoints, totals, daily, pruneCut>>

(* YYYY-MM-DD strings are compared as strings, which is the calendar order. *)
Dates == 0 .. MaxDay

(* A row of collector_checkpoints; its values were bound, so below Half. *)
Checkpoint == [date : Dates, last : [Fields -> 0 .. (Half - 1)]]

ASSUME NilIsNoCheckpoint == Nil \notin Checkpoint

StorageTypeOK ==
  /\ checkpoints \in [Keys -> Checkpoint \union {Nil}]
  /\ totals \in [Keys -> [Fields -> Nat]]
  /\ daily \in [Keys -> [Dates -> [Fields -> Nat]]]
  /\ pruneCut \in Dates
  /\ today \in Dates

(* New() on an empty file: initSchema creates the tables, no rows. *)
StorageInit ==
  /\ checkpoints = [k \in Keys |-> Nil]
  /\ totals = [k \in Keys |-> Zero]
  /\ daily = [k \in Keys |-> [d \in Dates |-> Zero]]
  /\ pruneCut = 0
  /\ today = 0

(* The local date of a host that is east of Greenwich. *)
MutCurrentDateUTC == IF today < MaxDay THEN today + 1 ELSE today

(* time.Now().UTC() *)
CurrentDateUTC == today

PruneCutoffDate == IF today >= Retention THEN today - Retention ELSE 0

GetCheckpoint(k) == checkpoints[k]

UpsertCheckpoint(k, date, r) ==
  checkpoints' = [checkpoints EXCEPT ![k] = [date |-> date, last |-> r]]

(* ON CONFLICT ... SET bytes = excluded.bytes: the sum is lost. *)
MutUpsertTotal(k, delta) ==
  totals' = [totals EXCEPT ![k] = delta]

UpsertTotal(k, delta) ==
  totals' = [totals EXCEPT ![k] = Plus(@, delta)]

UpsertDaily(k, date, delta) ==
  daily' = [daily EXCEPT ![k][date] = Plus(@, delta)]

(* DELETE ... WHERE date_utc <= cutoff *)
MutPruneDaily(cutoff) ==
  /\ daily' = [k \in Keys |-> [d \in Dates |->
                 IF d <= cutoff THEN Zero ELSE daily[k][d]]]
  /\ pruneCut' = IF cutoff > pruneCut THEN cutoff ELSE pruneCut
  /\ UNCHANGED <<checkpoints, totals>>

(* DELETE FROM mac_traffic_daily WHERE date_utc < cutoff *)
PruneDaily(cutoff) ==
  /\ daily' = [k \in Keys |-> [d \in Dates |->
                 IF d < cutoff THEN Zero ELSE daily[k][d]]]
  /\ pruneCut' = IF cutoff > pruneCut THEN cutoff ELSE pruneCut
  /\ UNCHANGED <<checkpoints, totals>>

==============================================================================
