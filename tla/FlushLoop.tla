------------------------------- MODULE FlushLoop -------------------------------
(***************************************************************************)
(* runtime.FlushLoop: the goroutine that copies the eBPF counters to       *)
(* SQLite.  Flush runs on two goroutines of the process: the loop's own,   *)
(* on every tick, and main's, once, at the end of Stop.  A Flush is not    *)
(* atomic: it captures the date, asks the iterator for the next entry,     *)
(* reads that entry's checkpoint and commits one transaction per entry,    *)
(* and packets, housekeeping, midnight and the other Flush may come in     *)
(* between any two of these.  Each is one action here, for either caller.  *)
(*                                                                         *)
(* The trafficMap of the service main builds is never nil, so the early    *)
(* return of mock mode has no action.                                      *)
(***************************************************************************)
EXTENDS Storage, TrafficMap

CONSTANT
  Faults    \* which failures the environment may cause, see below

(***************************************************************************)
(* "db": a statement or a commit fails; "iter": the map iterator stops     *)
(* early with an error; "crash": the process dies; "race": two CPUs race   *)
(* on the first packet of a key and the entry is overwritten.              *)
(***************************************************************************)
ASSUME FaultsAssumption == Faults \subseteq {"db", "iter", "crash", "race"}

Callers == {"loop", "main"}

VARIABLES
  pc,              \* caller -> where its Flush is
  currentDateUTC,  \* caller -> the local variable of that name
  todo,            \* caller -> entries the iterator has yet to return
  seen,            \* caller -> entries the iterator has returned
  key,             \* caller -> the entry at hand
  counters,        \* caller -> the value the iterator returned for it
  cp,              \* caller -> the checkpoint row read for it
  loop,            \* runLoop: not started, in its select or Flush, returned
  stopped,         \* stopCh is closed
  lastFlush,       \* lastFlush is set: some Flush of this process succeeded
  flushErr,        \* flushErr is set: the loop's latest Flush failed
  owed             \* history: the map as the latest Flush began, but Nil
                   \* where a race has replaced the entry since

flushLocals == <<currentDateUTC, todo, seen, key, counters, cp>>

flushVars == <<pc, flushLocals, loop, stopped, lastFlush, flushErr, owed>>

FlushTypeOK ==
  /\ pc \in [Callers -> {"idle", "next", "checkpoint", "persist"}]
  /\ currentDateUTC \in [Callers -> Dates \union {Nil}]
  /\ todo \in [Callers -> SUBSET Keys]
  /\ seen \in [Callers -> SUBSET Keys]
  /\ key \in [Callers -> Keys \union {Nil}]
  /\ counters \in [Callers -> Counter \union {Nil}]
  /\ cp \in [Callers -> Checkpoint \union {Nil}]
  /\ loop \in {"off", "select", "exited"}
  /\ stopped \in BOOLEAN
  /\ lastFlush \in BOOLEAN
  /\ flushErr \in BOOLEAN
  /\ owed \in [Keys -> Counter \union {Nil}]

(* NewFlushLoop *)
FlushInit ==
  /\ pc = [c \in Callers |-> "idle"]
  /\ currentDateUTC = [c \in Callers |-> Nil]
  /\ todo = [c \in Callers |-> {}]
  /\ seen = [c \in Callers |-> {}]
  /\ key = [c \in Callers |-> Nil]
  /\ counters = [c \in Callers |-> Nil]
  /\ cp = [c \in Callers |-> Nil]
  /\ loop = "off"
  /\ stopped = FALSE
  /\ lastFlush = FALSE
  /\ flushErr = FALSE
  /\ owed = EmptyMap

FlushIdle == \A c \in Callers : pc[c] = "idle"

-------------------------------------------------------------------------------
(* What Flush computes for an entry. *)

(* Without the checkpoint, as if every Flush were the first of the day. *)
MutDelta(row, date, r) == r

(* Same day: the difference to the checkpoint, modulo 2^64 in every field. *)
(* New day or no checkpoint: the raw values themselves.                    *)
Delta(row, date, r) ==
  IF row # Nil /\ row.date = date THEN Sub(r, row.last) ELSE r

(* The delta of the entry caller c has at hand. *)
CurrentDelta(c) == Delta(cp[c], currentDateUTC[c], counters[c])

(* Every value that the statements for this entry bind is accepted: the    *)
(* raw values of the checkpoint, and the delta of the totals and the day.  *)
Accepted(c) == Bindable(counters[c]) /\ Bindable(CurrentDelta(c))

-------------------------------------------------------------------------------
(* The steps of Flush. *)

(* The entries MapIterator.Next may return: those that are in the map and  *)
(* were not returned before.                                               *)
IterNext(c) == Present \ seen[c]

(* MapIterator.Next may return false: there is nothing left to visit, or   *)
(* NextKey or Lookup failed, which it reports in the same way.             *)
IterDone(c) == todo[c] = {} \/ "iter" \in Faults

(* Iterate() and CurrentDateUTC(): the date is fixed for the whole Flush. *)
FlushBegin(c) ==
  /\ pc[c] = "idle"
  /\ pc' = [pc EXCEPT ![c] = "next"]
  /\ currentDateUTC' = [currentDateUTC EXCEPT ![c] = CurrentDateUTC]
  /\ todo' = [todo EXCEPT ![c] = Present]
  /\ owed' = raw
  /\ UNCHANGED <<seen, key, counters, cp, stopped, lastFlush, flushErr>>

(* iter.Next() returns an entry.  One that was inserted after the Flush    *)
(* began may be returned or not.                                           *)
FlushNext(c, k) ==
  /\ pc[c] = "next"
  /\ k \in IterNext(c)
  /\ pc' = [pc EXCEPT ![c] = "checkpoint"]
  /\ key' = [key EXCEPT ![c] = k]
  /\ counters' = [counters EXCEPT ![c] = raw[k]]
  /\ todo' = [todo EXCEPT ![c] = @ \ {k}]
  /\ seen' = [seen EXCEPT ![c] = @ \union {k}]
  /\ UNCHANGED <<currentDateUTC, cp, loop, stopped, lastFlush, flushErr, owed,
                 storageVars>>

FlushGetCheckpoint(c) ==
  /\ pc[c] = "checkpoint"
  /\ pc' = [pc EXCEPT ![c] = "persist"]
  /\ cp' = [cp EXCEPT ![c] = GetCheckpoint(key[c])]
  /\ UNCHANGED <<currentDateUTC, todo, seen, key, counters, loop, stopped,
                 lastFlush, flushErr, owed, storageVars>>

(* The statement for the daily bucket is left out of the transaction. *)
MutPersistAll(k, date, delta, r) ==
  /\ UpsertCheckpoint(k, date, r)
  /\ UpsertTotal(k, delta)
  /\ UNCHANGED daily

(* The checkpoint, the totals and the daily bucket in one transaction. *)
PersistAll(k, date, delta, r) ==
  /\ UpsertCheckpoint(k, date, r)
  /\ UpsertTotal(k, delta)
  /\ UpsertDaily(k, date, delta)

(* No new traffic: only the checkpoint is written. *)
FlushPersist(c) ==
  /\ pc[c] = "persist"
  /\ Accepted(c)
  /\ IF CurrentDelta(c) = Zero
       THEN /\ UpsertCheckpoint(key[c], currentDateUTC[c], counters[c])
            /\ UNCHANGED <<totals, daily>>
       ELSE PersistAll(key[c], currentDateUTC[c], CurrentDelta(c), counters[c])
  /\ pc' = [pc EXCEPT ![c] = "next"]
  /\ key' = [key EXCEPT ![c] = Nil]
  /\ counters' = [counters EXCEPT ![c] = Nil]
  /\ cp' = [cp EXCEPT ![c] = Nil]
  /\ UNCHANGED <<currentDateUTC, todo, seen, loop, stopped, lastFlush, flushErr,
                 owed, pruneCut>>

(* Flush returns to its caller and its locals go out of scope. *)
FlushReturn(c) ==
  /\ pc' = [pc EXCEPT ![c] = "idle"]
  /\ currentDateUTC' = [currentDateUTC EXCEPT ![c] = Nil]
  /\ todo' = [todo EXCEPT ![c] = {}]
  /\ seen' = [seen EXCEPT ![c] = {}]
  /\ key' = [key EXCEPT ![c] = Nil]
  /\ counters' = [counters EXCEPT ![c] = Nil]
  /\ cp' = [cp EXCEPT ![c] = Nil]
  /\ UNCHANGED <<loop, stopped, owed>>

FlushCanFail(c) ==
  \/ pc[c] \in {"checkpoint", "persist"} /\ "db" \in Faults
  \/ pc[c] = "persist" /\ ~Accepted(c)

(* The checkpoint committed on its own when the rest of the transaction    *)
(* fails.                                                                  *)
MutFlushFail(c) ==
  /\ FlushCanFail(c)
  /\ IF pc[c] = "persist" /\ Bindable(counters[c])
       THEN UpsertCheckpoint(key[c], currentDateUTC[c], counters[c])
       ELSE UNCHANGED checkpoints
  /\ flushErr' = IF c = "loop" THEN TRUE ELSE flushErr
  /\ FlushReturn(c)
  /\ UNCHANGED <<lastFlush, totals, daily, pruneCut>>

(* A statement fails: the transaction is rolled back and Flush returns the *)
(* error at once, so the entries it has yet to visit wait as well.  runLoop *)
(* records the error; Stop only hands it to main, which prints it.         *)
FlushFail(c) ==
  /\ FlushCanFail(c)
  /\ flushErr' = IF c = "loop" THEN TRUE ELSE flushErr
  /\ FlushReturn(c)
  /\ UNCHANGED <<lastFlush, storageVars>>

(* Flush ends although the iterator has more entries to return. *)
MutFlushEnd(c) ==
  /\ pc[c] = "next"
  /\ lastFlush' = TRUE
  /\ flushErr' = FALSE
  /\ FlushReturn(c)
  /\ UNCHANGED storageVars

(* iter.Next() returns false, at the end of the map or on an error: nobody *)
(* asks the iterator which.                                                *)
FlushEnd(c) ==
  /\ pc[c] = "next"
  /\ IterDone(c)
  /\ lastFlush' = TRUE
  /\ flushErr' = FALSE
  /\ FlushReturn(c)
  /\ UNCHANGED storageVars

-------------------------------------------------------------------------------
(* The goroutine around Flush. *)

(* Start: restoreCheckpoints has listed the table, go runLoop. *)
FlushStart ==
  /\ loop = "off"
  /\ loop' = "select"
  /\ UNCHANGED <<pc, flushLocals, stopped, lastFlush, flushErr, owed>>

(* NewTimer where the code says NewTicker: one Flush and no other. *)
MutTick ==
  /\ loop = "select"
  /\ ~lastFlush
  /\ FlushBegin("loop")
  /\ UNCHANGED loop

(* The select of runLoop takes a tick.  It may do so even when stopCh is   *)
(* closed: with both ready, select picks either.                           *)
Tick ==
  /\ loop = "select"
  /\ FlushBegin("loop")
  /\ UNCHANGED loop

(* "break" where the code says "return": it leaves the select only. *)
MutLoopExit ==
  /\ loop = "select" /\ pc["loop"] = "idle"
  /\ stopped
  /\ UNCHANGED flushVars

(* The select takes stopCh: the deferred close of stoppedCh runs. *)
LoopExit ==
  /\ loop = "select" /\ pc["loop"] = "idle"
  /\ stopped
  /\ loop' = "exited"
  /\ UNCHANGED <<pc, flushLocals, stopped, lastFlush, flushErr, owed>>

(* Stop: stopped = true and close(stopCh). *)
FlushCloseStop ==
  /\ ~stopped
  /\ stopped' = TRUE
  /\ UNCHANGED <<pc, flushLocals, loop, lastFlush, flushErr, owed>>

(* Stop runs its final Flush without waiting for the loop to return. *)
MutFlushStopWait ==
  /\ FlushBegin("main")
  /\ UNCHANGED loop

(* Stop: <-f.stoppedCh, then the final Flush begins. *)
FlushStopWait ==
  /\ loop = "exited"
  /\ FlushBegin("main")
  /\ UNCHANGED loop

(* The process is gone, and the FlushLoop with it. *)
FlushGone ==
  /\ pc' = [c \in Callers |-> "idle"]
  /\ currentDateUTC' = [c \in Callers |-> Nil]
  /\ todo' = [c \in Callers |-> {}]
  /\ seen' = [c \in Callers |-> {}]
  /\ key' = [c \in Callers |-> Nil]
  /\ counters' = [c \in Callers |-> Nil]
  /\ cp' = [c \in Callers |-> Nil]
  /\ loop' = "off"
  /\ stopped' = FALSE
  /\ lastFlush' = FALSE
  /\ flushErr' = FALSE
  /\ owed' = EmptyMap

==============================================================================
