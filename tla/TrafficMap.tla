------------------------------ MODULE TrafficMap ------------------------------
(***************************************************************************)
(* What the eBPF side promises the rest of the service: traffic_map, a     *)
(* bounded hash map from keys (ifindex, mac) to counter blocks.  An entry  *)
(* starts at zero, its fields grow one atomic add at a time, and nothing   *)
(* ever deletes an entry; but the race on the first packet of a key can    *)
(* put a zero block over an entry that already counted (Overwrite).  The   *)
(* programs of bpf/ are modelled step by step in TrafficPrograms, which    *)
(* implements this specification.                                          *)
(***************************************************************************)
EXTENDS TrafficCounters, FiniteSets

CONSTANTS
  MaxEntries,   \* max_entries of the map, 262144 in the code
  MaxCounted    \* bound: how much one field of one key counts in a behaviour

ASSUME MapBounds == /\ MaxEntries \in Nat
                    /\ MaxCounted \in Nat

VARIABLES
  raw,       \* the map: raw[k] is the block of key k, Nil when k has no entry
  counted    \* history: everything ever added to the fields of key k

mapVars == <<raw, counted>>

Present == {k \in Keys : raw[k] # Nil}

EmptyMap == [k \in Keys |-> Nil]

MapTypeOK ==
  /\ raw \in [Keys -> Counter \union {Nil}]
  /\ counted \in [Keys -> [Fields -> 0 .. MaxCounted]]

MapInit ==
  /\ raw = EmptyMap
  /\ counted = [k \in Keys |-> Zero]

(* bpf_map_update_elem creates the zero entry of a key, if there is room. *)
Insert(k) ==
  /\ raw[k] = Nil
  /\ Cardinality(Present) < MaxEntries
  /\ raw' = [raw EXCEPT ![k] = Zero]
  /\ UNCHANGED counted

(* bpf_map_update_elem with BPF_ANY by a program whose lookup missed before *)
(* another program created the entry.                                      *)
Overwrite(k) ==
  /\ raw[k] # Nil
  /\ raw' = [raw EXCEPT ![k] = Zero]
  /\ UNCHANGED counted

(* One __sync_fetch_and_add. *)
Count(k, f, n) ==
  /\ raw[k] # Nil
  /\ counted[k][f] + n <= MaxCounted
  /\ raw' = [raw EXCEPT ![k][f] = Add64(@, n)]
  /\ counted' = [counted EXCEPT ![k][f] = @ + n]

MapNext ==
  \E k \in Keys :
    \/ Insert(k)
    \/ Overwrite(k)
    \/ \E f \in Fields, n \in 1 .. MaxCounted : Count(k, f, n)

MapSpec == MapInit /\ [][MapNext]_mapVars

==============================================================================
