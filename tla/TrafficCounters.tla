--------------------------- MODULE TrafficCounters ---------------------------
(***************************************************************************)
(* The counter blocks that travel through the service: the value of one    *)
(* eBPF map entry (struct traffic_counter, ebpf.TrafficCounter) and of one *)
(* SQLite row (storage.TrafficCounters).  A block is a function from its   *)
(* fields (bytes, packets and the two per-direction pairs) to unsigned     *)
(* words, and every field is treated alike by the Go code, so the set of   *)
(* fields is a parameter.                                                  *)
(***************************************************************************)
EXTENDS Integers

CONSTANTS
  Keys,     \* the (ifindex, mac) pairs seen on the attached interfaces
  Fields,   \* the counter fields; six in the code
  Half,     \* 2^63: the first unsigned value the SQL driver refuses to bind
  Nil       \* Go's nil: no map entry, no row, no value

ASSUME HalfAssumption == Half \in Nat \ {0}

Word == 2 * Half          \* 2^64, the number of values of a uint64

Uint == 0 .. (Word - 1)

Counter == [Fields -> Uint]

ASSUME NilIsNoCounter == Nil \notin Counter

Zero == [f \in Fields |-> 0]

(* A subtraction without the wrap of uint64, as a signed type would do it. *)
MutSub64(x, y) == x - y

(* uint64 subtraction: a negative difference wraps around. *)
Sub64(x, y) == IF x >= y THEN x - y ELSE (x - y) + Word

(* __sync_fetch_and_add on a __u64. *)
Add64(x, n) == IF x + n >= Word THEN (x + n) - Word ELSE x + n

Sub(a, b) == [f \in Fields |-> Sub64(a[f], b[f])]

(* SQLite's  col = col + excluded.col  on an INTEGER column. *)
Plus(a, b) == [f \in Fields |-> a[f] + b[f]]

(***************************************************************************)
(* database/sql converts every uint64 argument before the driver sees it   *)
(* and refuses one whose high bit is set, so that the ExecContext of       *)
(* UpsertCheckpoint or persistAll returns an error.                        *)
(***************************************************************************)
Bindable(a) == \A f \in Fields : a[f] < Half

AtLeast(a, b) == \A f \in Fields : a[f] >= b[f]

==============================================================================
