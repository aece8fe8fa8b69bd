-------------------------------- MODULE Daemon --------------------------------
(***************************************************************************)
(* The traffic-count process (cmd/traffic-count/main.go): the flush loop,  *)
(* the housekeeping loop and main itself over one SQLite file and one eBPF *)
(* map, with the traffic, the calendar, signals and crashes around them.   *)
(* The database outlives the process; the map, which is not pinned, does   *)
(* not.                                                                    *)
(***************************************************************************)
EXTENDS FlushLoop, HousekeepingLoop, Sums

CONSTANT
  MaxBoots    \* bound: how often the process is started in a behaviour

ASSUME BootsAssumption == MaxBoots \in Nat

VARIABLES
  main,    \* where main is
  boots    \* how often it was started

vars == <<mapVars, storageVars, today, flushVars, hkVars, main, boots>>

Phases == {"down",        \* no process
           "boot",        \* svc.Start() attached the programs
           "startHk",     \* flush.Start() returned, in housekeeping.Start()
           "running",     \* waiting for a signal
           "stopHk",      \* in housekeeping.Stop()
           "waitFlush",   \* in flush.Stop(), waiting for the loop
           "finalFlush",  \* in flush.Stop(), in its Flush
           "detach"}      \* before svc.Stop() detaches the programs

TypeOK ==
  /\ MapTypeOK
  /\ StorageTypeOK
  /\ FlushTypeOK
  /\ HkTypeOK
  /\ main \in Phases
  /\ boots \in 0 .. MaxBoots

Init ==
  /\ MapInit
  /\ StorageInit
  /\ FlushInit
  /\ HkInit
  /\ main = "down"
  /\ boots = 0

-------------------------------------------------------------------------------
(* Traffic and time. *)

(* The programs run as long as they are attached. *)
Packet ==
  /\ main # "down"
  /\ \E k \in Keys, f \in Fields : Count(k, f, 1)
  /\ UNCHANGED <<storageVars, today, flushVars, hkVars, main, boots>>

FirstPacket ==
  /\ main # "down"
  /\ \E k \in Keys : Insert(k)
  /\ UNCHANGED <<storageVars, today, flushVars, hkVars, main, boots>>

(* What the entry held is lost in the kernel; no Flush owes it any more. *)
FirstPacketRace ==
  /\ main # "down"
  /\ "race" \in Faults
  /\ \E k \in Keys : Overwrite(k) /\ owed' = [owed EXCEPT ![k] = Nil]
  /\ UNCHANGED <<storageVars, today, pc, flushLocals, loop, stopped, lastFlush,
                 flushErr, hkVars, main, boots>>

NextDay ==
  /\ today < MaxDay
  /\ today' = today + 1
  /\ UNCHANGED <<mapVars, storageVars, flushVars, hkVars, main, boots>>

-------------------------------------------------------------------------------
(* The flush loop and the housekeeping loop. *)

FlushStep(c) ==
  /\ \/ \E k \in Keys : FlushNext(c, k)
     \/ FlushGetCheckpoint(c)
     \/ FlushPersist(c)
  /\ UNCHANGED <<mapVars, today, hkVars, main, boots>>

(* flush.Stop() returns when the final Flush does, with or without an error. *)
FlushFinish(c) ==
  /\ FlushEnd(c) \/ FlushFail(c)
  /\ main' = IF c = "main" THEN "detach" ELSE main
  /\ UNCHANGED <<mapVars, today, hkVars, boots>>

LoopStep ==
  /\ Tick \/ LoopExit
  /\ UNCHANGED <<mapVars, storageVars, today, hkVars, main, boots>>

HkStep ==
  /\ hk = "select"
  /\ \/ HkTick
     \/ HkPrune
     \/ "db" \in Faults /\ HkFail
  /\ UNCHANGED <<mapVars, today, flushVars, main, boots>>

HkExit ==
  /\ HkLoopExit
  /\ UNCHANGED <<mapVars, storageVars, today, flushVars, main, boots>>

-------------------------------------------------------------------------------
(* main. *)

(* The process ends, however it does: the kernel detaches the programs and *)
(* frees the map.                                                          *)
ProcessGone ==
  /\ main' = "down"
  /\ raw' = EmptyMap
  /\ FlushGone
  /\ HkGone
  /\ UNCHANGED <<counted, storageVars, today, boots>>

SvcStart ==
  /\ main = "down"
  /\ boots < MaxBoots
  /\ main' = "boot"
  /\ boots' = boots + 1
  /\ UNCHANGED <<mapVars, storageVars, today, flushVars, hkVars>>

(* storage.New and flush.Start *)
StartFlush ==
  /\ main = "boot"
  /\ FlushStart
  /\ main' = "startHk"
  /\ UNCHANGED <<mapVars, storageVars, today, hkVars, boots>>

(* The runOnce of housekeeping.Start *)
StartHkBegin ==
  /\ main = "startHk"
  /\ HkBegin
  /\ UNCHANGED <<mapVars, today, flushVars, main, boots>>

StartHkEnd ==
  /\ main = "startHk"
  /\ HkPrune
  /\ main' = "running"
  /\ UNCHANGED <<mapVars, today, flushVars, boots>>

(* storage.New, flush.Start or housekeeping.Start fails: os.Exit(1), even  *)
(* if the flush loop is in the middle of a Flush.                          *)
StartFail ==
  /\ "db" \in Faults
  /\ \/ main = "boot"
     \/ main = "startHk" /\ hkCutoff # Nil
  /\ ProcessGone

(* SIGINT or SIGTERM *)
Signal ==
  /\ main = "running"
  /\ HkCloseStop
  /\ main' = "stopHk"
  /\ UNCHANGED <<mapVars, storageVars, today, flushVars, boots>>

(* housekeeping.Stop returns, flush.Stop closes its stopCh. *)
StopFlush ==
  /\ main = "stopHk"
  /\ hk = "exited"
  /\ FlushCloseStop
  /\ main' = "waitFlush"
  /\ UNCHANGED <<mapVars, storageVars, today, hkVars, boots>>

FinalFlush ==
  /\ main = "waitFlush"
  /\ FlushStopWait
  /\ main' = "finalFlush"
  /\ UNCHANGED <<mapVars, storageVars, today, hkVars, boots>>

(* svc.Stop() detaches the programs and main returns. *)
SvcStop ==
  /\ main = "detach"
  /\ ProcessGone

Crash ==
  /\ "crash" \in Faults
  /\ main # "down"
  /\ ProcessGone

-------------------------------------------------------------------------------
MainStep ==
  \/ StartFlush
  \/ StartHkBegin
  \/ StartHkEnd
  \/ StartFail
  \/ StopFlush
  \/ FinalFlush
  \/ SvcStop

Next ==
  \/ Packet
  \/ FirstPacket
  \/ FirstPacketRace
  \/ NextDay
  \/ \E c \in Callers : FlushStep(c) \/ FlushFinish(c)
  \/ LoopStep
  \/ HkStep
  \/ HkExit
  \/ SvcStart
  \/ MainStep
  \/ Signal
  \/ Crash

Spec == Init /\ [][Next]_vars

(***************************************************************************)
(* Goroutines that can run do run, and tickers keep ticking.  A select     *)
(* that finds both a tick and a closed stopCh picks one at random, so it   *)
(* takes stopCh sooner or later: strong fairness of the loops' exits.      *)
(* Nothing is assumed of packets, signals, crashes, restarts or midnight.  *)
(***************************************************************************)
Fairness ==
  /\ \A c \in Callers : WF_vars(FlushStep(c) \/ FlushFinish(c))
  /\ WF_vars(LoopStep)
  /\ SF_vars(LoopExit /\ LoopStep)
  /\ WF_vars(HkStep)
  /\ SF_vars(HkExit)
  /\ WF_vars(MainStep)

FairSpec == Spec /\ Fairness

-------------------------------------------------------------------------------
(* Safety. *)

(***************************************************************************)
(* Whatever fails, dies or interleaves, the daily row of the checkpoint's  *)
(* day holds exactly the raw value in the checkpoint, so the next delta is *)
(* taken against what was really stored.  This is what persistAll's single *)
(* transaction and flush.Stop's wait for the loop are for.                 *)
(***************************************************************************)
CheckpointMatchesDaily ==
  \A k \in Keys :
    checkpoints[k] # Nil /\ checkpoints[k].date >= pruneCut
      => daily[k][checkpoints[k].date] = checkpoints[k].last

(* The daily rows of key k. *)
DaysOf(k, f) == [d \in Dates |-> daily[k][d][f]]

(***************************************************************************)
(* The all-time total of a key is never less than the sum of its daily     *)
(* rows, and equals it until rows are pruned: persistAll adds the same     *)
(* delta to both, and nothing else writes either.                          *)
(***************************************************************************)
TotalsCoverDaily ==
  \A k \in Keys, f \in Fields :
    LET days == SumOver(DaysOf(k, f))
    IN  IF pruneCut = 0 THEN totals[k][f] = days ELSE totals[k][f] >= days

(***************************************************************************)
(* The loop's Flush and the final Flush of Stop never run at the same      *)
(* time.  FlushLoop's lock does not cover Flush; the wait on stoppedCh is  *)
(* all there is.                                                           *)
(***************************************************************************)
FlushesNeverOverlap == ~(pc["loop"] # "idle" /\ pc["main"] # "idle")

(***************************************************************************)
(* Health reporting: when the daemon runs, a Flush has succeeded and       *)
(* FlushError() is nil, everything that was in the map when the latest     *)
(* Flush began is in the database.                                         *)
(***************************************************************************)
ReportedFlushIsComplete ==
  main = "running" /\ FlushIdle /\ lastFlush /\ ~flushErr =>
    \A k \in Keys : owed[k] # Nil =>
      checkpoints[k] # Nil /\ AtLeast(checkpoints[k].last, owed[k])

(***************************************************************************)
(* However often the daemon flushes, fails, crashes and is restarted, no   *)
(* daily row exceeds all the traffic ever counted for its key, and as long *)
(* as the first day of the database lasts the total does not either.  More *)
(* does not hold: from the second day on a row holds the raw counters,     *)
(* which are traffic of the days before as well, and the totals add that   *)
(* up (NeverOvercounts).  docs/zh/README.md says that a crash in a flush   *)
(* makes the next delta too large and counts traffic twice; the code       *)
(* commits the checkpoint with the rows, and does not.                     *)
(***************************************************************************)
RowsWithinTraffic ==
  \A k \in Keys :
    /\ \A d \in Dates : AtLeast(counted[k], daily[k][d])
    /\ today = 0 => AtLeast(counted[k], totals[k])

(***************************************************************************)
(* A checkpoint row never disappears and its date never goes back, so a    *)
(* day that was closed is never counted against again.                     *)
(***************************************************************************)
CheckpointDateNeverGoesBack ==
  [][\A k \in Keys : checkpoints[k] # Nil =>
       checkpoints'[k] # Nil /\ checkpoints'[k].date >= checkpoints[k].date]_vars

(***************************************************************************)
(* A stored day never shrinks while it is within the retention, even if    *)
(* midnight comes between runOnce's cutoff and its DELETE, or between the  *)
(* start of a Flush and its transaction.                                   *)
(***************************************************************************)
RetentionHonoured ==
  [][\A k \in Keys, d \in Dates :
       d >= PruneCutoffDate => AtLeast(daily'[k][d], daily[k][d])]_vars

(***************************************************************************)
(* To a reader of the database all this is a ledger: whatever the loops,   *)
(* restarts and failures do, a total and a day only ever grow together, by *)
(* the same amount, on a day that has begun, and only days before the      *)
(* retention are forgotten.                                                *)
(***************************************************************************)
L == INSTANCE Ledger

ImplementsLedger == L!LedgerSpec

-------------------------------------------------------------------------------
(* The inductive invariants: AccountingInv, behind CheckpointMatchesDaily  *)
(* and the rest of the accounting; CutoffNotAhead, behind                  *)
(* RetentionHonoured; TrafficInv, behind RowsWithinTraffic; and            *)
(* ReportInv, behind ReportedFlushIsComplete.                              *)

(* A Flush in progress has its date; one that has an entry at hand has the *)
(* entry's key and value.                                                  *)
FlushLocalsOK ==
  \A c \in Callers :
    /\ pc[c] # "idle" => currentDateUTC[c] \in Dates
    /\ pc[c] \in {"checkpoint", "persist"} =>
         key[c] \in Keys /\ counters[c] \in Counter

(* Who may be in Flush: main only in its final one, the loop only before   *)
(* it has returned, which main waits for.                                  *)
FlushOwner ==
  /\ pc["main"] # "idle" => main = "finalFlush"
  /\ main \in {"finalFlush", "detach"} => loop = "exited"
  /\ pc["loop"] # "idle" => loop = "select"

(* Checkpoints are never dated after a Flush in progress, nor is that      *)
(* Flush dated after today.                                                *)
DatesInOrder ==
  /\ \A k \in Keys : checkpoints[k] # Nil => checkpoints[k].date <= today
  /\ \A c \in Callers : pc[c] # "idle" =>
       /\ currentDateUTC[c] <= today
       /\ \A k \in Keys : checkpoints[k] # Nil =>
            checkpoints[k].date <= currentDateUTC[c]

(* The checkpoint a Flush has read is still the one in the table. *)
CheckpointIsFresh ==
  \A c \in Callers : pc[c] = "persist" => cp[c] = checkpoints[key[c]]

(* No day after a key's checkpoint has traffic. *)
LaterDaysEmpty ==
  \A k \in Keys, d \in Dates :
    (checkpoints[k] = Nil \/ d > checkpoints[k].date) => daily[k][d] = Zero

(* The cutoff of a runOnce in progress may be out of date, but only by     *)
(* being too early.                                                        *)
CutoffNotAhead == hkCutoff # Nil => hkCutoff <= PruneCutoffDate

AccountingInv ==
  /\ TypeOK
  /\ FlushLocalsOK
  /\ FlushOwner
  /\ DatesInOrder
  /\ CheckpointIsFresh
  /\ LaterDaysEmpty
  /\ CheckpointMatchesDaily

(* An entry in the hands of a Flush. *)
AtHand(c, k) == pc[c] \in {"checkpoint", "persist"} /\ key[c] = k

(* The map, a Flush and the checkpoints hold no more than was counted. *)
NothingInvented ==
  \A k \in Keys :
    /\ raw[k] # Nil => AtLeast(counted[k], raw[k])
    /\ checkpoints[k] # Nil => AtLeast(counted[k], checkpoints[k].last)
    /\ \A c \in Callers : AtHand(c, k) => AtLeast(counted[k], counters[c])

(* On the first day nothing was pruned, and the totals are that day's rows. *)
FirstDayTotals ==
  today = 0 => pruneCut = 0 /\ \A k \in Keys : totals[k] = daily[k][0]

(* The row of the checkpoint's day holds the checkpoint's value, or less   *)
(* if a Flush went on with that day after it was pruned; the rows of other *)
(* days are what checkpoints once held.                                    *)
RowsBounded ==
  \A k \in Keys :
    /\ checkpoints[k] # Nil =>
         AtLeast(checkpoints[k].last, daily[k][checkpoints[k].date])
    /\ \A d \in Dates : AtLeast(counted[k], daily[k][d])

TrafficInv == NothingInvented /\ FirstDayTotals /\ RowsBounded

(* What the latest Flush owes for key k is in the database. *)
Stored(k) == checkpoints[k] # Nil /\ AtLeast(checkpoints[k].last, owed[k])

(* An entry only grows after the Flush that owes it has begun. *)
OwedIsInMap ==
  \A k \in Keys : owed[k] # Nil => raw[k] # Nil /\ AtLeast(raw[k], owed[k])

(* A Flush in progress has yet to visit an entry, has it at hand with a    *)
(* value that is new enough, or has stored it.                             *)
NoEntryForgotten ==
  \A c \in Callers, k \in Keys : pc[c] # "idle" /\ owed[k] # Nil =>
    /\ AtHand(c, k) => AtLeast(counters[c], owed[k])
    /\ k \in todo[c] \/ AtHand(c, k) \/ Stored(k)

(* Between the loop's Flushes, before main's final one. *)
SuccessIsComplete ==
  pc["loop"] = "idle" /\ main \notin {"finalFlush", "detach"}
                     /\ lastFlush /\ ~flushErr =>
    \A k \in Keys : owed[k] # Nil => Stored(k)

ReportInv == OwedIsInMap /\ NoEntryForgotten /\ SuccessIsComplete

-------------------------------------------------------------------------------
(* Liveness. *)

(***************************************************************************)
(* The loop never stalls silently: again and again what the database holds *)
(* for a key is what the map holds, unless FlushError() is set again and   *)
(* again.  A failed Flush is followed by another, and an error that is     *)
(* cleared means that the Flush which cleared it visited every key.        *)
(***************************************************************************)
NeverStallsSilently ==
  \A k \in Keys :
    \/ []<>(raw[k] = Nil \/ (checkpoints[k] # Nil /\ checkpoints[k].last = raw[k]))
    \/ []<>flushErr

(***************************************************************************)
(* A signal ends the process, whatever the two loops are doing and however *)
(* the database fails: neither Stop waits for ever.                        *)
(***************************************************************************)
StopTerminates == main = "stopHk" ~> main = "down"

-------------------------------------------------------------------------------
(* What the repository's documentation says and the code does not do. *)

(***************************************************************************)
(* docs/zh/README.md: a Flush whose difference is negative is discarded,   *)
(* "relying on the next flush to resynchronise", and after a crash in a    *)
(* flush "the next flush returns to normal".  A counter that is below its  *)
(* checkpoint of the day gets a checkpoint that matches it again, or goes  *)
(* away with the process.                                                  *)
(***************************************************************************)
NegativeDeltaResynchronises ==
  \A k \in Keys :
    (/\ raw[k] # Nil
     /\ checkpoints[k] # Nil
     /\ ~AtLeast(raw[k], checkpoints[k].last))
      ~> (raw[k] = Nil \/ (checkpoints[k] # Nil /\ checkpoints[k].last = raw[k]))

(***************************************************************************)
(* flush.go: "Flush is idempotent - calling it multiple times with no new  *)
(* traffic will not double-count."  Totals never exceed the traffic.       *)
(***************************************************************************)
NeverOvercounts == \A k \in Keys : AtLeast(counted[k], totals[k])

==============================================================================
