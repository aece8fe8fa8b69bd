-------------------------------- MODULE Ledger --------------------------------
(***************************************************************************)
(* What the database promises its readers, without checkpoints, flushes,   *)
(* goroutines or restarts: a ledger of traffic per key, all-time and per   *)
(* day.  Traffic is credited to the total and to one day at once, to a day *)
(* that has begun; days before the retention are forgotten; a total never  *)
(* shrinks.  Daemon implements this specification, and the HTTP queries of *)
(* TrafficQuery are stated over it.                                        *)
(***************************************************************************)
EXTENDS TrafficCounters

CONSTANTS
  MaxDay,      \* bound: the last day of the model's calendar
  Retention    \* days of daily rows that are kept, 400 in the code

ASSUME LedgerAssumption == MaxDay \in Nat /\ Retention \in Nat

VARIABLES
  totals,    \* mac_traffic_totals
  daily,     \* mac_traffic_daily: key -> date -> block
  today      \* the current UTC date

ledger == <<totals, daily, today>>

Dates == 0 .. MaxDay

(* What one transaction adds: something, and nothing the driver refuses. *)
Amounts == {a \in Counter : Bindable(a) /\ a # Zero}

LedgerInit ==
  /\ totals = [k \in Keys |-> Zero]
  /\ daily = [k \in Keys |-> [d \in Dates |-> Zero]]
  /\ today = 0

(* persistAll: the total and the day get the same amount. *)
Credit(k, d, amount) ==
  /\ d <= today
  /\ totals' = [totals EXCEPT ![k] = Plus(@, amount)]
  /\ daily' = [daily EXCEPT ![k][d] = Plus(@, amount)]
  /\ UNCHANGED today

(* PruneDaily: the days before a cutoff that is not ahead of the retention. *)
Forget(cutoff) ==
  /\ cutoff <= today - Retention
  /\ daily' = [k \in Keys |-> [d \in Dates |->
                 IF d < cutoff THEN Zero ELSE daily[k][d]]]
  /\ UNCHANGED <<totals, today>>

Midnight ==
  /\ today < MaxDay
  /\ today' = today + 1
  /\ UNCHANGED <<totals, daily>>

LedgerNext ==
  \/ \E k \in Keys, d \in Dates, amount \in Amounts : Credit(k, d, amount)
  \/ \E cutoff \in Dates : Forget(cutoff)
  \/ Midnight

LedgerSpec == LedgerInit /\ [][LedgerNext]_ledger

==============================================================================
