-------------------------------- MODULE Config --------------------------------
(***************************************************************************)
(* config.Config: what a configuration file makes of the defaults, and     *)
(* what Validate accepts.  bind_address, database_path and log_level are   *)
(* one field, others, which is "ok" or "bad": nothing but Validate looks   *)
(* at them in this model.  An interface name that is blank is "bad" too.   *)
(***************************************************************************)
EXTENDS Integers

CONSTANTS
  Ifaces,                       \* the interfaces of the allowlist
  DefaultFlushInterval,         \* 10 in the code
  DefaultHousekeepingInterval   \* 3600 in the code

ASSUME DefaultsAssumption ==
  /\ DefaultFlushInterval \in Nat \ {0}
  /\ DefaultHousekeepingInterval \in Nat \ {0}

ConfigType ==
  [interfaces           : {{}, Ifaces},
   flushInterval        : Int,
   housekeepingInterval : Int,
   allowPartial         : BOOLEAN,
   others               : {"ok", "bad"}]

(***************************************************************************)
(* The values a file gives, under which spelling of the keys: "documented" *)
(* is flush_interval, allow_partial and so on, as in README.md, "field" is *)
(* FlushInterval, AllowPartial, in any case.  A file that is not readable  *)
(* is missing or no JSON.                                                  *)
(***************************************************************************)
File(readable, keys, values) ==
  [readable |-> readable, keys |-> keys, values |-> values]

New ==
  [interfaces           |-> {},
   flushInterval        |-> DefaultFlushInterval,
   housekeepingInterval |-> DefaultHousekeepingInterval,
   allowPartial         |-> FALSE,
   others               |-> "ok"]

(* encoding/json matches a key with the name of a struct field, ignoring   *)
(* case; the struct has no tags, so an underscore makes a key unknown, and *)
(* unknown keys are ignored.                                               *)
KeyMatches(file, field) == file.keys = "field" \/ field = "interfaces"

(* The value of a field after Unmarshal into the defaults. *)
Field(file, field) ==
  IF KeyMatches(file, field) THEN file.values[field] ELSE New[field]

Parse(file) ==
  [interfaces           |-> Field(file, "interfaces"),
   flushInterval        |-> Field(file, "flushInterval"),
   housekeepingInterval |-> Field(file, "housekeepingInterval"),
   allowPartial         |-> Field(file, "allowPartial"),
   others               |-> Field(file, "others")]

(* Validate returns nil.  It does not look at HousekeepingInterval. *)
ConfigValid(c) ==
  /\ c.interfaces # {}
  /\ c.others = "ok"
  /\ c.flushInterval > 0

==============================================================================
