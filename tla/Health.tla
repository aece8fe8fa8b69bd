-------------------------------- MODULE Health --------------------------------
(***************************************************************************)
(* What /healthz and /api/v1/status say of a running service.  The model   *)
(* has a clock: the ticker of the flush loop fires every interval and      *)
(* keeps at most one tick, a Flush takes at most MaxFlush, and IsStale     *)
(* compares the age of the last successful Flush with the interval.  The   *)
(* handlers read the service's mode and the loop's state one after the     *)
(* other, without a common lock, while the loop flushes and main stops     *)
(* everything; the HTTP server itself runs until the process ends.  What a *)
(* Flush does to the database is FlushLoop's subject; here it succeeds or  *)
(* fails.                                                                  *)
(***************************************************************************)
EXTENDS Service

CONSTANTS
  Nil,        \* no time: never flushed, not flushing
  MaxFlush    \* the longest a Flush takes

(* A Flush takes no longer than any interval the daemon can run with. *)
ASSUME HealthAssumption ==
  /\ MaxFlush \in Nat
  /\ \A f \in Files : ConfigValid(Parse(f)) => MaxFlush <= Parse(f).flushInterval
  /\ Nil \notin Int

VARIABLES
  loop,       \* the flush loop, and main's wait for it in flush.Stop()
  age,        \* time since lastFlush was set
  asOf,       \* history: time since the latest successful Flush began
  next,       \* time until the ticker fires
  pending,    \* the ticker's channel holds a tick
  busy,       \* time since the Flush in progress began
  flushErr,   \* FlushLoop.flushErr is set
  h,          \* a handler: what it reads next, or its answer
  sawOk,      \* history: during the request the service was healthy and fresh
  raced       \* history: the handler read the mode while Stop wrote it

flushClock == <<loop, age, asOf, next, pending, busy, flushErr>>

handlerVars == <<h, raced>>

allVars == <<vars, flushClock, handlerVars, sawOk>>

Interval == cfg.flushInterval

Answers == {"200", "503", "healthy", "degraded", "failed"}

(* Both ages stop growing where no comparison can tell them apart. *)
Older(t) ==
  IF t = Nil \/ t > 2 * Interval + MaxFlush THEN t ELSE t + 1

HealthTypeOK ==
  /\ TypeOK
  /\ loop \in {"off", "on", "stopping", "final", "done"}
  /\ {age, asOf, busy} \subseteq Nat \union {Nil}
  /\ next \in Nat
  /\ loop # "off" => next \in 1 .. Interval
  /\ {pending, flushErr, sawOk, raced} \subseteq BOOLEAN
  /\ h \in {"idle", "healthzStale", "statusFailed", "statusStale"} \union Answers

LoopInit ==
  /\ loop = "off"
  /\ age = Nil /\ asOf = Nil
  /\ next = 0 /\ pending = FALSE /\ busy = Nil
  /\ flushErr = FALSE

HealthInit ==
  /\ Init
  /\ LoopInit
  /\ h = "idle" /\ raced = FALSE /\ sawOk = FALSE

-------------------------------------------------------------------------------
(* The process. *)

HealthGone ==
  /\ loop' = "off"
  /\ age' = Nil /\ asOf' = Nil
  /\ next' = 0 /\ pending' = FALSE /\ busy' = Nil
  /\ flushErr' = FALSE
  /\ h' = "idle" /\ raced' = FALSE

BootStep == Boot /\ UNCHANGED <<flushClock, handlerVars>>

(* storage.New, flush.Start and housekeeping.Start, then the HTTP server. *)
StartLoops ==
  /\ at = "running" /\ loop = "off"
  /\ loop' = "on"
  /\ next' = Interval
  /\ UNCHANGED <<vars, age, asOf, pending, busy, flushErr, handlerVars>>

(* One of the three fails and main exits; or housekeeping's NewTicker      *)
(* panics, for an interval that Validate let pass.                         *)
Dies ==
  /\ loop = "off" \/ cfg.housekeepingInterval <= 0
  /\ MainFails
  /\ HealthGone

(* A signal: housekeeping.Stop(), then flush.Stop() closes stopCh. *)
Signal ==
  /\ loop = "on"
  /\ loop' = "stopping"
  /\ UNCHANGED <<vars, age, asOf, next, pending, busy, flushErr, handlerVars>>

(* The loop returns and flush.Stop() begins its final Flush. *)
FinalFlush ==
  /\ loop = "stopping" /\ busy = Nil
  /\ loop' = "final"
  /\ busy' = 0
  /\ UNCHANGED <<vars, age, asOf, next, pending, flushErr, handlerVars>>

(* svc.Stop() is called before flush.Stop(). *)
MutSvcStop ==
  /\ loop # "off"
  /\ Stop
  /\ UNCHANGED <<flushClock, handlerVars>>

(* svc.Stop() after flush.Stop(). *)
SvcStop ==
  /\ loop = "done"
  /\ Stop
  /\ UNCHANGED <<flushClock, handlerVars>>

DetachStep == Detach /\ UNCHANGED <<flushClock, handlerVars>>

ProcessEnds == MainReturns /\ HealthGone

IfaceGoneStep ==
  /\ \E i \in Ifaces : IfaceGone(i)
  /\ UNCHANGED <<flushClock, handlerVars>>

-------------------------------------------------------------------------------
(* The flush loop in time. *)

(* Time passes, unless a tick waits for an idle loop or a Flush is due to  *)
(* be over.                                                                *)
Pass ==
  /\ loop # "off"
  /\ ~(loop = "on" /\ pending /\ busy = Nil)
  /\ busy # Nil => busy < MaxFlush
  /\ age' = Older(age)
  /\ asOf' = Older(asOf)
  /\ next' = IF next = 1 THEN Interval ELSE next - 1
  /\ pending' = (pending \/ next = 1)
  /\ busy' = IF busy = Nil THEN Nil ELSE busy + 1
  /\ UNCHANGED <<vars, loop, flushErr, handlerVars>>

(* The select of runLoop takes the tick, perhaps though stopCh is closed. *)
FlushBegins ==
  /\ loop \in {"on", "stopping"} /\ pending /\ busy = Nil
  /\ pending' = FALSE
  /\ busy' = 0
  /\ UNCHANGED <<vars, loop, age, asOf, next, flushErr, handlerVars>>

FlushReturns ==
  /\ busy # Nil
  /\ busy' = Nil
  /\ loop' = IF loop = "final" THEN "done" ELSE loop
  /\ UNCHANGED <<vars, next, pending, handlerVars>>

FlushSucceeds ==
  /\ FlushReturns
  /\ age' = 0
  /\ asOf' = busy
  /\ flushErr' = FALSE

(* lastFlush is set before the error is looked at. *)
MutFlushFails ==
  /\ FlushReturns
  /\ flushErr' = (loop # "final" \/ flushErr)
  /\ age' = 0
  /\ UNCHANGED asOf

(* Only runLoop records the error. *)
FlushFails ==
  /\ FlushReturns
  /\ flushErr' = (loop # "final" \/ flushErr)
  /\ UNCHANGED <<age, asOf>>

-------------------------------------------------------------------------------
(* The handlers. *)

(* At twice the interval the age already counts as stale, as flush_test.go *)
(* has it.                                                                 *)
MutIsStale == age = Nil \/ age >= 2 * Interval

IsStale == age = Nil \/ age > 2 * Interval

(* A Mode is a string of two words that Stop assigns without a lock: what  *)
(* is read meanwhile may be half of each, and is then none of the modes.   *)
ModeRead ==
  {status.mode} \union (IF at = "detach" /\ todo = {} THEN {"torn"} ELSE {})

Serving == loop # "off"

HandlerStep(from, to, m) ==
  /\ Serving
  /\ h = from
  /\ h' = to
  /\ raced' = (raced \/ m = "torn")
  /\ UNCHANGED <<vars, flushClock>>

(* handleHealthz: IsHealthy, and only then IsStale. *)
HealthzMode ==
  \E m \in ModeRead :
    HandlerStep("idle", IF m = "healthy" THEN "healthzStale" ELSE "503", m)

HealthzStale == HandlerStep("healthzStale", IF IsStale THEN "503" ELSE "200", "")

(* handleStatus: IsDegraded, else IsFailed, else IsStale; its other reads  *)
(* are only printed.                                                       *)
StatusDegraded ==
  \E m \in ModeRead :
    HandlerStep("idle", IF m = "degraded" THEN "degraded" ELSE "statusFailed", m)

StatusFailed ==
  \E m \in ModeRead :
    HandlerStep("statusFailed", IF m = "failed" THEN "failed" ELSE "statusStale", m)

StatusStale ==
  HandlerStep("statusStale", IF IsStale THEN "degraded" ELSE "healthy", "")

(* The client has its answer. *)
Answered ==
  /\ h \in Answers
  /\ h' = "idle" /\ raced' = FALSE
  /\ UNCHANGED <<vars, flushClock>>

-------------------------------------------------------------------------------
HealthyAndFresh == status.mode = "healthy" /\ ~IsStale

(* The history variable looks at every state from the first read of a      *)
(* request to its last.                                                    *)
Observe ==
  sawOk' = IF h' = "idle" THEN FALSE
           ELSE IF h \in Answers THEN sawOk
           ELSE sawOk \/ HealthyAndFresh'

HealthStep ==
  \/ BootStep
  \/ StartLoops
  \/ Dies
  \/ Signal
  \/ FinalFlush
  \/ SvcStop
  \/ DetachStep
  \/ ProcessEnds
  \/ IfaceGoneStep
  \/ Pass
  \/ FlushBegins
  \/ FlushSucceeds
  \/ FlushFails
  \/ HealthzMode
  \/ HealthzStale
  \/ StatusDegraded
  \/ StatusFailed
  \/ StatusStale
  \/ Answered

HealthNext == HealthStep /\ Observe

HealthSpec == HealthInit /\ [][HealthNext]_allVars

-------------------------------------------------------------------------------
(***************************************************************************)
(* No false alarm: while the loop runs and its Flushes succeed, however    *)
(* long they take up to the interval and however ticks are dropped, the    *)
(* loop does not count as stale once it has flushed.  The comparison with  *)
(* twice the interval is exactly wide enough: were an age of exactly twice *)
(* the interval stale, it would not hold.  flush_test.go says that it is   *)
(* ("flush at exactly 2x interval is stale"); the code disagrees with its  *)
(* test, which time going by before the call lets pass.                    *)
(***************************************************************************)
FreshUnlessFailing ==
  loop = "on" /\ age # Nil /\ ~flushErr => ~IsStale

(***************************************************************************)
(* A 200 of /healthz bounds what a crash can lose: everything that was     *)
(* counted before the last two intervals and one Flush was in the map when *)
(* the latest successful Flush began.  That such a Flush has stored it all *)
(* is Daemon's ReportedFlushIsComplete.                                    *)
(***************************************************************************)
HealthyBoundsLoss ==
  [][HealthzStale /\ h' = "200" =>
       asOf # Nil /\ asOf <= 2 * Interval + MaxFlush]_allVars

(***************************************************************************)
(* The two conditions of a 200, and of "healthy" in the status, are read   *)
(* one after the other, while Flushes end and the service stops; still     *)
(* both held together at some moment of the request.  main's order of      *)
(* stopping sees to it: the mode turns to failed after the last Flush.     *)
(* The status may be wrong when it reads the mode while Stop writes it.    *)
(***************************************************************************)
HealthyAnswersAreTrue ==
  /\ h = "200" => sawOk
  /\ h = "healthy" /\ ~raced => sawOk

-------------------------------------------------------------------------------
(* The inductive invariant behind the properties above. *)

(* The Config of a process that got past LoadConfig is the file's. *)
CfgFromFile ==
  at \notin {"config", "exited"} => cfg = Parse(file) /\ ConfigValid(cfg)

(* Loops, handlers and clocks run between flush.Start and the end of the   *)
(* process, and svc.Stop() waits for flush.Stop().                         *)
LoopPlace ==
  IF loop = "off"
  THEN age = Nil /\ asOf = Nil /\ busy = Nil /\ ~flushErr /\ h = "idle" /\ ~pending
  ELSE /\ at \in {"running", "detach", "stopped"}
       /\ at # "running" => loop = "done"
       /\ loop = "done" => busy = Nil

(* A Flush in progress is within its time. *)
FlushInTime == busy # Nil => busy <= MaxFlush

(* While Flushes succeed the last one is at most an interval old when the  *)
(* tick comes and the next Flush begins.                                   *)
FlushOnTick ==
  loop = "on" /\ age # Nil /\ ~flushErr =>
    IF busy # Nil THEN age <= Interval + busy
    ELSE IF pending THEN age <= Interval
    ELSE age + next <= Interval

(* lastFlush is later than the begin of the Flush by at most its length. *)
AgesMatch == age # Nil => asOf # Nil /\ asOf <= age + MaxFlush

(* A handler that may yet answer "healthy" has read a mode that was        *)
(* healthy; it still is, or Stop has set it after the last Flush.          *)
HandlersKnow ==
  /\ h \notin {"idle"} \union Answers /\ HealthyAndFresh => sawOk
  /\ h = "statusFailed" /\ ~raced => status.mode # "degraded"
  /\ h = "healthzStale" \/ (h = "statusStale" /\ ~raced) =>
       sawOk \/ status.mode = "healthy" \/ (loop = "done" /\ IsStale)

HealthInv ==
  /\ HealthTypeOK
  /\ CfgFromFile
  /\ LoopPlace
  /\ FlushInTime
  /\ FlushOnTick
  /\ AgesMatch
  /\ HandlersKnow
  /\ HealthyAnswersAreTrue

==============================================================================
