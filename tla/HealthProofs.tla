----------------------------- MODULE HealthProofs -----------------------------
(***************************************************************************)
(* Proofs about Health, for every flush interval a file can ask for and    *)
(* every bound on the length of a Flush that does not exceed it.           *)
(***************************************************************************)
EXTENDS Health, ServiceProofs

LEMMA HealthStepIsServiceStep ==
  ASSUME HealthNext
  PROVE  [Next]_vars
<1>1. HealthStep
  BY DEF HealthNext
<1>2. CASE BootStep \/ SvcStop \/ DetachStep \/ Dies \/ ProcessEnds \/ IfaceGoneStep
  BY <1>2 DEF BootStep, SvcStop, DetachStep, Dies, ProcessEnds, IfaceGoneStep, Next
<1>3. CASE StartLoops \/ Signal \/ FinalFlush \/ Pass \/ FlushBegins \/ FlushSucceeds
           \/ FlushFails \/ Answered
  BY <1>3 DEF StartLoops, Signal, FinalFlush, Pass, FlushBegins, FlushSucceeds,
              FlushFails, FlushReturns, Answered
<1>4. CASE HealthzMode \/ HealthzStale \/ StatusDegraded \/ StatusFailed \/ StatusStale
  BY <1>4 DEF HealthzMode, HealthzStale, StatusDegraded, StatusFailed, StatusStale,
              HandlerStep
<1> QED BY <1>1, <1>2, <1>3, <1>4 DEF HealthStep

(* After LoadConfig nothing writes the Config. *)
LEMMA ConfigStep ==
  ASSUME TypeOK, CfgFromFile, [Next]_vars
  PROVE  CfgFromFile'
<1> USE DEF CfgFromFile, confVars
<1>1. CASE LoadConfig
  BY <1>1 DEF LoadConfig
<1>2. CASE UNCHANGED vars
  BY <1>2 DEF vars
<1>3. ASSUME NEW i \in Ifaces, IfaceGone(i) PROVE CfgFromFile'
  BY <1>3 DEF IfaceGone
<1>4. CASE Next /\ ~LoadConfig /\ ~(\E i \in Ifaces : IfaceGone(i))
  <2>1. UNCHANGED <<file, cfg>> /\ at \notin {"config", "exited"}
    <3>1. CASE Boot
      BY <1>4, <3>1 DEF Boot, Validate, Load, SkipIface, ResolveFails, AttachIface,
                  StartEnd, UpdateFromResult
    <3>2. CASE Stop \/ Detach \/ MainReturns \/ MainFails
      BY <3>2 DEF Stop, Detach, DetachIface, StopEnd, MainReturns, MainFails
    <3> QED BY <1>4, <3>1, <3>2 DEF Next
  <2> QED BY <2>1
<1> QED BY <1>1, <1>2, <1>3, <1>4

(* The loop runs with a positive interval that no Flush outlasts. *)
LEMMA LoopTimes ==
  ASSUME HealthInv, loop # "off"
  PROVE  /\ Interval \in Nat \ {0} /\ MaxFlush \in Nat /\ MaxFlush <= Interval
         /\ next \in 1 .. Interval
<1>1. cfg = Parse(file) /\ ConfigValid(cfg)
  BY DEF HealthInv, LoopPlace, CfgFromFile
<1>2. file \in Files /\ cfg \in ConfigType /\ next \in 1 .. Interval
  BY DEF HealthInv, HealthTypeOK, TypeOK
<1>3. MaxFlush \in Nat /\ MaxFlush <= Interval
  BY <1>1, <1>2, HealthAssumption DEF Interval
<1>4. Interval \in Nat \ {0}
  BY <1>1, <1>2 DEF Interval, ConfigType, ConfigValid
<1> QED BY <1>2, <1>3, <1>4

(* While the loops run only Stop's last step writes the status. *)
LEMMA RunningFrame ==
  ASSUME HealthInv, HealthNext, loop # "off"
  PROVE  /\ UNCHANGED <<file, cfg>>
         /\ \/ status' = status
            \/ at = "detach" /\ loop = "done" /\ status'.mode = "failed"
<1>1. at \in {"running", "detach", "stopped"} /\ (at # "running" => loop = "done")
      /\ status \in [mode : Modes, attached : SUBSET Ifaces, failed : SUBSET Ifaces]
  BY DEF HealthInv, LoopPlace, HealthTypeOK, TypeOK
<1>2. ~Boot
  BY <1>1 DEF Boot, LoadConfig, Validate, Load, SkipIface, ResolveFails, AttachIface,
              StartEnd, UpdateFromResult
<1>3. ASSUME UNCHANGED vars PROVE UNCHANGED <<file, cfg, status>>
  BY <1>3 DEF vars, confVars
<1>4. CASE StopEnd
  BY <1>1, <1>4 DEF StopEnd, confVars
<1>5. ASSUME NEW i \in Ifaces, NEW errs \in SUBSET Directions, DetachIface(i, errs)
      PROVE  UNCHANGED <<file, cfg, status>>
  BY <1>5 DEF DetachIface, confVars
<1>6. ASSUME Stop \/ MainReturns \/ MainFails PROVE UNCHANGED <<file, cfg, status>>
  BY <1>6 DEF Stop, MainReturns, MainFails, confVars
<1>7. ASSUME NEW i \in Ifaces, IfaceGone(i) PROVE UNCHANGED <<file, cfg, status>>
  BY <1>7 DEF IfaceGone, confVars
<1>8. Next \/ UNCHANGED vars
  BY HealthStepIsServiceStep
<1>9. UNCHANGED <<file, cfg, status>> \/ StopEnd
  BY <1>2, <1>3, <1>5, <1>6, <1>7, <1>8 DEF Next, Detach
<1> QED BY <1>4, <1>9

-------------------------------------------------------------------------------
LEMMA LoopPlaceStep ==
  ASSUME HealthInv, HealthNext
  PROVE  LoopPlace'
<1>0. HealthStep /\ LoopPlace /\ TypeOK
  BY DEF HealthNext, HealthInv, HealthTypeOK
<1> USE DEF LoopPlace, flushClock, handlerVars
<1>1. CASE BootStep
  <2>1. at \notin {"running", "detach", "stopped"}
    BY <1>1 DEF BootStep, Boot, LoadConfig, Validate, Load, SkipIface, ResolveFails,
                AttachIface, StartEnd, UpdateFromResult
  <2>2. loop = "off"
    BY <1>0, <2>1
  <2> QED BY <1>0, <1>1, <2>2 DEF BootStep
<1>2. CASE StartLoops
  BY <1>0, <1>2 DEF StartLoops, vars
<1>3. CASE Dies \/ ProcessEnds
  BY <1>3 DEF Dies, ProcessEnds, HealthGone
<1>4. CASE Signal \/ FinalFlush
  BY <1>0, <1>4 DEF Signal, FinalFlush, vars
<1>5. CASE SvcStop
  BY <1>0, <1>5 DEF SvcStop, Stop
<1>6. CASE DetachStep
  <2>1. at = "detach" /\ at' \in {"detach", "stopped"}
    BY <1>6 DEF DetachStep, Detach, DetachIface, StopEnd
  <2> QED BY <1>0, <1>6, <2>1 DEF DetachStep
<1>7. CASE Pass \/ FlushBegins
  BY <1>0, <1>7 DEF Pass, FlushBegins, vars
<1>8. CASE FlushSucceeds \/ FlushFails
  BY <1>0, <1>8 DEF FlushSucceeds, FlushFails, FlushReturns, vars
<1>9. CASE HealthzMode \/ HealthzStale \/ StatusDegraded \/ StatusFailed \/ StatusStale
  BY <1>0, <1>9 DEF HealthzMode, HealthzStale, StatusDegraded, StatusFailed, StatusStale,
                    HandlerStep, Serving, vars
<1>10. CASE Answered
  BY <1>0, <1>10 DEF Answered, vars
<1>11. CASE IfaceGoneStep
  <2>1. UNCHANGED <<at, loop, age, asOf, busy, flushErr, h, pending>>
    BY <1>11 DEF IfaceGoneStep, IfaceGone
  <2> QED BY <1>0, <2>1
<1> QED
  BY <1>0, <1>1, <1>2, <1>3, <1>4, <1>5, <1>6, <1>7, <1>8, <1>9, <1>10, <1>11 DEF HealthStep

LEMMA HealthTypeStep ==
  ASSUME HealthInv, HealthNext
  PROVE  HealthTypeOK'
<1>0. HealthStep /\ Observe /\ LoopPlace /\ HealthTypeOK /\ MaxFlush \in Nat /\ Nil \notin Int
  BY HealthAssumption DEF HealthNext, HealthInv
<1>1. TypeOK' /\ CfgFromFile'
  BY HealthStepIsServiceStep, ServiceTypeStep, ConfigStep DEF HealthInv, HealthTypeOK
<1>2. sawOk' \in BOOLEAN
  BY <1>0 DEF Observe, HealthTypeOK, HealthyAndFresh
<1> DEFINE Rest ==
      /\ loop \in {"off", "on", "stopping", "final", "done"}
      /\ age \in Nat \union {Nil} /\ asOf \in Nat \union {Nil} /\ busy \in Nat \union {Nil}
      /\ next \in Nat
      /\ loop # "off" => next \in 1 .. Interval
      /\ pending \in BOOLEAN /\ flushErr \in BOOLEAN /\ raced \in BOOLEAN
      /\ h \in {"idle", "healthzStale", "statusFailed", "statusStale"} \union Answers
<1>3. Rest
  BY <1>0 DEF HealthTypeOK
<1> SUFFICES Rest'
  BY <1>1, <1>2 DEF HealthTypeOK
<1> USE DEF flushClock, handlerVars
<1>4. CASE loop = "off"
  <2>1. CASE BootStep
    BY <1>3, <1>4, <2>1 DEF BootStep
  <2>2. CASE StartLoops
    <3>1. at = "running" /\ UNCHANGED vars
      BY <2>2 DEF StartLoops
    <3>2. Interval \in Nat \ {0} /\ Interval' = Interval
      <4>1. ConfigValid(cfg) /\ cfg \in ConfigType
        BY <3>1 DEF HealthInv, CfgFromFile, HealthTypeOK, TypeOK
      <4> QED BY <3>1, <4>1 DEF Interval, ConfigType, ConfigValid, vars, confVars
    <3> QED BY <1>3, <2>2, <3>2 DEF StartLoops
  <2>3. CASE Dies \/ ProcessEnds
    <3>1. HealthGone
      BY <2>3 DEF Dies, ProcessEnds
    <3> QED BY <3>1 DEF HealthGone
  <2>4. CASE DetachStep \/ IfaceGoneStep
    BY <1>3, <1>4, <2>4 DEF DetachStep, IfaceGoneStep
  <2>5. CASE Answered
    BY <1>3, <1>4, <2>5 DEF Answered
  <2> QED
    BY <1>0, <1>4, <2>1, <2>2, <2>3, <2>4, <2>5
       DEF HealthStep, Signal, FinalFlush, SvcStop, Pass, FlushBegins, FlushSucceeds,
           FlushFails, FlushReturns, HealthzMode, HealthzStale, StatusDegraded,
           StatusFailed, StatusStale, HandlerStep, Serving, LoopPlace
<1>5. CASE loop # "off"
  <2>0. /\ Interval' = Interval /\ Interval \in Nat \ {0} /\ next \in 1 .. Interval
    BY <1>5, LoopTimes, RunningFrame DEF Interval
  <2>1. CASE BootStep \/ DetachStep \/ SvcStop \/ IfaceGoneStep
    BY <1>3, <2>0, <2>1 DEF BootStep, DetachStep, SvcStop, IfaceGoneStep
  <2>2. CASE StartLoops \/ Signal \/ FinalFlush \/ FlushBegins
    <3>1. /\ loop' \in {"on", "stopping", "final"} /\ busy' \in {0, busy}
          /\ UNCHANGED <<age, asOf, next, flushErr, h, raced>>
      BY <1>5, <2>2 DEF StartLoops, Signal, FinalFlush, FlushBegins
    <3>2. pending' \in BOOLEAN
      BY <1>3, <1>5, <2>2 DEF StartLoops, Signal, FinalFlush, FlushBegins
    <3> QED BY <1>3, <2>0, <3>1, <3>2
  <2>3. CASE Dies \/ ProcessEnds
    <3>1. HealthGone
      BY <2>3 DEF Dies, ProcessEnds
    <3> QED BY <3>1 DEF HealthGone
  <2>4. CASE Pass
    <3>1. age' \in Nat \union {Nil} /\ asOf' \in Nat \union {Nil}
      BY <1>0, <1>3, <2>0, <2>4 DEF Pass, Older
    <3>2. busy' \in Nat \union {Nil}
      BY <1>3, <2>4 DEF Pass
    <3>3. next' \in 1 .. Interval
      BY <2>0, <2>4 DEF Pass
    <3> QED BY <1>3, <2>0, <2>4, <3>1, <3>2, <3>3 DEF Pass
  <2>5. CASE FlushSucceeds \/ FlushFails
    <3>1. /\ loop' \in {loop, "done"} /\ busy' = Nil
          /\ UNCHANGED <<next, pending, h, raced>>
      BY <2>5 DEF FlushSucceeds, FlushFails, FlushReturns
    <3>2. age' \in {0, age} /\ asOf' \in {busy, asOf} /\ flushErr' \in BOOLEAN
      BY <1>3, <2>5 DEF FlushSucceeds, FlushFails
    <3> QED BY <1>3, <2>0, <3>1, <3>2
  <2>6. CASE HealthzMode \/ HealthzStale \/ StatusDegraded \/ StatusFailed \/ StatusStale
    BY <1>3, <2>0, <2>6 DEF HealthzMode, HealthzStale, StatusDegraded, StatusFailed,
                            StatusStale, HandlerStep, Answers
  <2>7. CASE Answered
    BY <1>3, <2>0, <2>7 DEF Answered
  <2> QED
    BY <1>0, <2>1, <2>2, <2>3, <2>4, <2>5, <2>6, <2>7 DEF HealthStep
<1> QED BY <1>4, <1>5

-------------------------------------------------------------------------------
(* Time passing, for the ages. *)
LEMMA PassAges ==
  ASSUME HealthInv, HealthNext, Pass
  PROVE  /\ age = Nil => age' = Nil
         /\ age # Nil => /\ age \in Nat /\ age' \in {age, age + 1}
                         /\ age <= 2 * Interval => age' = age + 1
         /\ (AgesMatch)'
<1>1. loop # "off" /\ age' = Older(age) /\ asOf' = Older(asOf)
  BY DEF Pass
<1>2. Interval \in Nat /\ MaxFlush \in Nat /\ Nil \notin Int
  BY <1>1, LoopTimes, HealthAssumption
<1>3. age \in Nat \union {Nil} /\ asOf \in Nat \union {Nil}
  BY DEF HealthInv, HealthTypeOK
<1>4. age # Nil => asOf # Nil /\ asOf <= age + MaxFlush
  BY DEF HealthInv, AgesMatch
<1> QED BY <1>1, <1>2, <1>3, <1>4 DEF Older, AgesMatch

(* The steps after which the clock of the flush loop is as it was, but for *)
(* the loop's place.                                                       *)
LEMMA QuietSteps ==
  ASSUME HealthStep
  PROVE  \/ UNCHANGED <<age, asOf, next, pending, busy, flushErr>>
            /\ (loop' = loop \/ loop' = "stopping")
         \/ StartLoops \/ HealthGone \/ FinalFlush \/ Pass \/ FlushBegins
         \/ FlushSucceeds \/ FlushFails
  BY DEF HealthStep, BootStep, Dies, ProcessEnds, Signal, SvcStop, DetachStep,
         IfaceGoneStep, HealthzMode, HealthzStale, StatusDegraded, StatusFailed, StatusStale,
         HandlerStep, Answered, flushClock

(* A Flush in progress is within its time, lastFlush close to the begin of *)
(* its Flush, and the ticker brings the next Flush within the interval.    *)
LEMMA FlushClockStep ==
  ASSUME HealthInv, HealthNext
  PROVE  FlushInTime' /\ FlushOnTick' /\ AgesMatch'
<1>0. /\ HealthStep /\ LoopPlace /\ FlushInTime /\ FlushOnTick /\ AgesMatch
      /\ MaxFlush \in Nat /\ Nil \notin Int
      /\ age \in Nat \union {Nil} /\ asOf \in Nat \union {Nil} /\ busy \in Nat \union {Nil}
      /\ next \in Nat
  BY HealthAssumption DEF HealthNext, HealthInv, HealthTypeOK
<1>1. ASSUME loop # "off"
      PROVE  /\ Interval' = Interval /\ Interval \in Nat /\ MaxFlush <= Interval
             /\ next \in 1 .. Interval
  BY <1>1, LoopTimes, RunningFrame DEF Interval
<1> USE DEF FlushInTime, FlushOnTick, AgesMatch
<1>2. CASE UNCHANGED <<age, asOf, next, pending, busy, flushErr>>
           /\ (loop' = loop \/ loop' = "stopping")
  <2>1. CASE loop = "off"
    BY <1>0, <1>2, <2>1 DEF LoopPlace
  <2>2. CASE loop # "off"
    BY <1>0, <1>1, <1>2, <2>2
  <2> QED BY <2>1, <2>2
<1>3. CASE StartLoops
  BY <1>0, <1>3 DEF StartLoops, LoopPlace
<1>4. CASE HealthGone
  BY <1>4 DEF HealthGone
<1>5. CASE FinalFlush
  BY <1>0, <1>5 DEF FinalFlush
<1>6. CASE Pass
  <2>1. /\ loop # "off" /\ loop' = loop /\ flushErr' = flushErr
        /\ ~(loop = "on" /\ pending /\ busy = Nil)
        /\ busy # Nil => busy < MaxFlush
        /\ next' = IF next = 1 THEN Interval ELSE next - 1
        /\ pending' = (pending \/ next = 1)
        /\ busy' = IF busy = Nil THEN Nil ELSE busy + 1
    BY <1>6 DEF Pass
  <2>2. FlushInTime'
    BY <1>0, <2>1
  <2>3. AgesMatch'
    BY <1>6, PassAges
  <2>4. ASSUME loop' = "on", age' # Nil, ~flushErr'
        PROVE  IF busy' # Nil THEN age' <= Interval + busy'
               ELSE IF pending' THEN age' <= Interval
               ELSE age' + next' <= Interval
    <3>1. loop = "on" /\ age \in Nat /\ age # Nil /\ ~flushErr /\ age' \in {age, age + 1}
      BY <1>0, <1>6, <2>1, <2>4, PassAges
    <3>2. CASE busy # Nil
      <4>1. age <= Interval + busy
        BY <1>0, <3>1, <3>2
      <4>2. busy \in Nat /\ busy' = busy + 1 /\ busy' # Nil
        BY <1>0, <2>1, <3>2
      <4> QED BY <1>1, <2>1, <3>1, <4>1, <4>2
    <3>3. CASE busy = Nil
      <4>1. ~pending /\ busy' = Nil /\ age + next <= Interval
        BY <1>0, <2>1, <3>1, <3>3
      <4>2. pending' <=> next = 1
        BY <2>1, <4>1
      <4>3. CASE next = 1
        BY <1>1, <2>1, <3>1, <4>1, <4>2, <4>3
      <4>4. CASE next # 1
        BY <1>1, <2>1, <3>1, <4>1, <4>2, <4>4
      <4> QED BY <4>3, <4>4
    <3> QED BY <3>2, <3>3
  <2>5. FlushOnTick'
    BY <1>1, <2>1, <2>4
  <2> QED BY <2>2, <2>3, <2>5
<1>7. CASE FlushBegins
  <2>1. /\ loop \in {"on", "stopping"} /\ pending /\ busy = Nil /\ busy' = 0
        /\ UNCHANGED <<loop, age, asOf, flushErr>>
    BY <1>7 DEF FlushBegins
  <2> QED BY <1>0, <1>1, <2>1
<1>8. CASE FlushSucceeds
  <2>1. /\ loop # "off"
        /\ busy \in Nat /\ busy <= MaxFlush /\ busy' = Nil /\ age' = 0 /\ asOf' = busy
        /\ UNCHANGED <<next, pending>>
    BY <1>0, <1>8 DEF FlushSucceeds, FlushReturns, LoopPlace
  <2> QED BY <1>0, <1>1, <2>1
<1>9. CASE FlushFails
  <2>1. /\ busy' = Nil /\ UNCHANGED <<age, asOf>>
        /\ loop' = "on" => loop = "on" /\ flushErr'
    BY <1>9 DEF FlushFails, FlushReturns
  <2> QED BY <1>0, <2>1
<1> QED
  BY <1>0, <1>2, <1>3, <1>4, <1>5, <1>6, <1>7, <1>8, <1>9, QuietSteps

-------------------------------------------------------------------------------
(* Once the last Flush is over what is stale stays stale. *)
LEMMA StaleStays ==
  ASSUME HealthInv, HealthNext, loop = "done", IsStale
  PROVE  HealthGone \/ (loop' = "done" /\ IsStale')
<1>0. HealthStep /\ busy = Nil /\ Interval \in Nat /\ Interval' = Interval
  BY LoopTimes, RunningFrame DEF HealthNext, HealthInv, LoopPlace, Interval
<1>1. CASE Pass
  <2>1. loop' = loop
    BY <1>1 DEF Pass
  <2> QED BY <1>0, <1>1, <2>1, PassAges DEF IsStale
<1>2. CASE ~Pass
  <2>1. HealthGone \/ (UNCHANGED <<age, loop>>)
    BY <1>0, <1>2, QuietSteps DEF StartLoops, FinalFlush, FlushBegins, FlushSucceeds,
       FlushFails, FlushReturns, HealthStep, Signal, BootStep, SvcStop, DetachStep, Dies,
       ProcessEnds, IfaceGoneStep, HealthzMode, HealthzStale, StatusDegraded, StatusFailed,
       StatusStale, HandlerStep, Answered, flushClock
  <2> QED BY <1>0, <2>1 DEF IsStale
<1> QED BY <1>1, <1>2

(* What a step does to a handler that does not take it. *)
LEMMA HandlerFrame ==
  ASSUME HealthStep
  PROVE  \/ HealthGone \/ Answered
         \/ UNCHANGED <<h, raced>>
         \/ HealthzMode \/ HealthzStale \/ StatusDegraded \/ StatusFailed \/ StatusStale
  BY DEF HealthStep, BootStep, StartLoops, Dies, ProcessEnds, Signal, FinalFlush, SvcStop,
         DetachStep, IfaceGoneStep, Pass, FlushBegins, FlushSucceeds, FlushFails,
         FlushReturns, handlerVars

(* Claim is what a handler that is about to answer "healthy" relies on. *)
LEMMA ClaimStays ==
  ASSUME HealthInv, HealthNext, h \notin {"idle"} \union Answers, h' # "idle",
         sawOk \/ status.mode = "healthy" \/ (loop = "done" /\ IsStale)
  PROVE  sawOk' \/ status'.mode = "healthy" \/ (loop' = "done" /\ IsStale')
<1>0. loop # "off" /\ ~HealthGone
  BY DEF HealthInv, LoopPlace, HealthGone
<1>1. CASE sawOk
  BY <1>1 DEF HealthNext, Observe
<1>2. CASE loop = "done" /\ IsStale
  BY <1>0, <1>2, StaleStays
<1>3. CASE ~sawOk /\ status.mode = "healthy"
  <2>1. IsStale
    BY <1>3 DEF HealthInv, HandlersKnow, HealthyAndFresh
  <2>2. CASE status' = status
    BY <1>3, <2>2
  <2>3. CASE at = "detach" /\ loop = "done" /\ status'.mode = "failed"
    BY <1>0, <2>1, <2>3, StaleStays
  <2> QED BY <1>0, <2>2, <2>3, RunningFrame
<1> QED BY <1>1, <1>2, <1>3

(* The mode a handler reads is the mode, or the handler has raced. *)
LEMMA ModeReadIsMode ==
  ASSUME NEW m \in ModeRead
  PROVE  m = status.mode \/ m = "torn"
  BY DEF ModeRead

LEMMA HandlersStep ==
  ASSUME HealthInv, HealthNext
  PROVE  HandlersKnow' /\ HealthyAnswersAreTrue'
<1>0. /\ HealthStep /\ Observe /\ LoopPlace /\ HandlersKnow /\ HealthyAnswersAreTrue
      /\ h \in {"idle", "healthzStale", "statusFailed", "statusStale"} \union Answers
      /\ status.mode \in Modes
  BY DEF HealthNext, HealthInv, HealthTypeOK, TypeOK
<1> DEFINE Claim == sawOk \/ status.mode = "healthy" \/ (loop = "done" /\ IsStale)
<1>1. CASE h' = "idle"
  BY <1>1 DEF HandlersKnow, HealthyAnswersAreTrue, Answers
<1>2. CASE h' # "idle" /\ UNCHANGED <<h, raced>>
  <2>1. loop # "off"
    BY <1>0, <1>2 DEF LoopPlace
  <2>2. CASE h \in Answers
    <3>1. sawOk' = sawOk
      BY <1>2, <1>0, <2>2 DEF Observe
    <3> QED
      BY <1>0, <1>2, <2>2, <3>1 DEF HandlersKnow, HealthyAnswersAreTrue, Answers
  <2>3. CASE h \notin Answers
    <3>1. sawOk' = (sawOk \/ HealthyAndFresh')
      BY <1>0, <1>2, <2>3 DEF Observe
    <3>2. h = "healthzStale" \/ (h = "statusStale" /\ ~raced) => Claim'
      BY <1>0, <1>2, <2>3, ClaimStays DEF HandlersKnow
    <3>3. h = "statusFailed" /\ ~raced => status'.mode # "degraded"
      <4>1. CASE status' = status
        BY <1>0, <4>1 DEF HandlersKnow
      <4>2. CASE status'.mode = "failed"
        BY <4>2
      <4> QED BY <2>1, <4>1, <4>2, RunningFrame
    <3>4. HealthyAnswersAreTrue'
      BY <1>2, <2>3 DEF HealthyAnswersAreTrue, Answers
    <3> QED BY <1>2, <3>1, <3>2, <3>3, <3>4 DEF HandlersKnow
  <2> QED BY <2>2, <2>3
<1> DEFINE Reads(from, to, m) ==
      /\ h = from /\ h' = to /\ UNCHANGED <<status, loop, age, cfg>>
      /\ raced' = (raced \/ m = "torn")
<1>3. \A from, to, m : HandlerStep(from, to, m) => Reads(from, to, m)
  BY DEF HandlerStep, vars, confVars, flushClock
<1>4. ASSUME h \notin Answers, h' # "idle"
      PROVE  sawOk' = (sawOk \/ HealthyAndFresh')
  BY <1>0, <1>4 DEF Observe
<1>5. CASE HealthzMode
  <2>1. PICK m \in ModeRead :
          Reads("idle", IF m = "healthy" THEN "healthzStale" ELSE "503", m)
    BY <1>3, <1>5 DEF HealthzMode
  <2>2. h' = "healthzStale" => status'.mode = "healthy"
    BY <2>1, ModeReadIsMode
  <2>3. sawOk' = (sawOk \/ HealthyAndFresh')
    BY <1>4, <2>1 DEF Answers
  <2> QED BY <2>1, <2>2, <2>3 DEF HandlersKnow, HealthyAnswersAreTrue, Answers
<1>6. CASE HealthzStale
  <2>1. Reads("healthzStale", IF IsStale THEN "503" ELSE "200", "")
    BY <1>6 DEF HealthzStale, HandlerStep, vars, confVars, flushClock
  <2>2. h' = "200" => sawOk
    BY <1>0, <2>1 DEF HandlersKnow, HealthyAndFresh, Answers
  <2>3. sawOk' = (sawOk \/ HealthyAndFresh')
    BY <1>4, <2>1 DEF Answers
  <2> QED BY <2>1, <2>2, <2>3 DEF HandlersKnow, HealthyAnswersAreTrue, Answers
<1>7. CASE StatusDegraded
  <2>1. PICK m \in ModeRead :
          Reads("idle", IF m = "degraded" THEN "degraded" ELSE "statusFailed", m)
    BY <1>3, <1>7 DEF StatusDegraded
  <2>2. h' = "statusFailed" /\ ~raced' => status'.mode # "degraded"
    BY <2>1, ModeReadIsMode
  <2>3. sawOk' = (sawOk \/ HealthyAndFresh')
    BY <1>4, <2>1 DEF Answers
  <2> QED BY <2>1, <2>2, <2>3 DEF HandlersKnow, HealthyAnswersAreTrue, Answers
<1>8. CASE StatusFailed
  <2>1. PICK m \in ModeRead :
          Reads("statusFailed", IF m = "failed" THEN "failed" ELSE "statusStale", m)
    BY <1>3, <1>8 DEF StatusFailed
  <2>2. h' = "statusStale" /\ ~raced' => status'.mode = "healthy"
    BY <1>0, <2>1, ModeReadIsMode DEF HandlersKnow, Modes
  <2>3. sawOk' = (sawOk \/ HealthyAndFresh')
    BY <1>4, <2>1 DEF Answers
  <2> QED BY <2>1, <2>2, <2>3 DEF HandlersKnow, HealthyAnswersAreTrue, Answers
<1>9. CASE StatusStale
  <2>1. Reads("statusStale", IF IsStale THEN "degraded" ELSE "healthy", "")
    BY <1>9 DEF StatusStale, HandlerStep, vars, confVars, flushClock
  <2>2. h' = "healthy" /\ ~raced' => sawOk
    BY <1>0, <2>1 DEF HandlersKnow, HealthyAndFresh, Answers
  <2>3. sawOk' = (sawOk \/ HealthyAndFresh')
    BY <1>4, <2>1 DEF Answers
  <2> QED BY <2>1, <2>2, <2>3 DEF HandlersKnow, HealthyAnswersAreTrue, Answers
<1> QED
  BY <1>0, <1>1, <1>2, <1>5, <1>6, <1>7, <1>8, <1>9, HandlerFrame DEF HealthGone, Answered

-------------------------------------------------------------------------------
(***************************************************************************)
(* The model with the clock and the handlers implements the start and stop *)
(* of the service: whatever holds of Service holds here.                   *)
(***************************************************************************)
THEOREM HealthImplementsService == HealthSpec => Spec
<1>1. HealthInit => Init
  BY DEF HealthInit
<1>2. [HealthNext]_allVars => [Next]_vars
  BY HealthStepIsServiceStep DEF allVars
<1> QED BY <1>1, <1>2, PTL DEF HealthSpec, Spec

(***************************************************************************)
(* The inductive invariant of the flush loop's clock and of the handlers.  *)
(***************************************************************************)
THEOREM HealthInvariant == HealthSpec => []HealthInv
<1>1. HealthInit => HealthInv
  <2> SUFFICES ASSUME HealthInit PROVE HealthInv
    OBVIOUS
  <2>1. TypeOK
    BY NewType DEF HealthInit, Init, TypeOK, Places, Modes
  <2>2. HealthTypeOK
    BY <2>1 DEF HealthInit, LoopInit, HealthTypeOK
  <2>3. at = "config" /\ loop = "off" /\ h = "idle"
    BY DEF HealthInit, Init, LoopInit
  <2>4. age = Nil /\ asOf = Nil /\ busy = Nil /\ ~flushErr /\ ~pending
    BY DEF HealthInit, LoopInit
  <2> QED
    BY <2>2, <2>3, <2>4 DEF HealthInv, CfgFromFile, LoopPlace, FlushInTime, FlushOnTick,
       AgesMatch, HandlersKnow, HealthyAnswersAreTrue, Answers
<1>2. HealthInv /\ [HealthNext]_allVars => HealthInv'
  <2> SUFFICES ASSUME HealthInv, [HealthNext]_allVars PROVE HealthInv'
    OBVIOUS
  <2>1. CASE HealthNext
    <3>1. CfgFromFile'
      BY <2>1, HealthStepIsServiceStep, ConfigStep DEF HealthInv, HealthTypeOK
    <3> QED
      BY <2>1, <3>1, HealthTypeStep, LoopPlaceStep, FlushClockStep, HandlersStep
         DEF HealthInv
  <2>2. CASE UNCHANGED allVars
    <3> USE <2>2 DEF allVars, vars, confVars, flushClock, handlerVars
    <3>1. HealthTypeOK'
      BY DEF HealthInv, HealthTypeOK, TypeOK, Interval
    <3>2. CfgFromFile' /\ LoopPlace' /\ FlushInTime' /\ FlushOnTick' /\ AgesMatch'
      BY DEF HealthInv, CfgFromFile, LoopPlace, FlushInTime, FlushOnTick, AgesMatch, Interval
    <3>3. HandlersKnow' /\ HealthyAnswersAreTrue'
      BY DEF HealthInv, HandlersKnow, HealthyAnswersAreTrue, HealthyAndFresh, IsStale, Interval
    <3> QED BY <3>1, <3>2, <3>3 DEF HealthInv
  <2> QED BY <2>1, <2>2
<1> QED BY <1>1, <1>2, PTL DEF HealthSpec

(***************************************************************************)
(* Types of the clock and of the handlers.                                 *)
(***************************************************************************)
THEOREM HealthTypes == HealthSpec => []HealthTypeOK
<1>1. HealthInv => HealthTypeOK
  BY DEF HealthInv
<1> QED BY <1>1, HealthInvariant, PTL

(***************************************************************************)
(* IsStale raises no false alarm: a loop whose Flushes succeed is fresh    *)
(* once it has flushed, for every interval and every length of a Flush up  *)
(* to it.                                                                  *)
(***************************************************************************)
THEOREM NoFalseAlarm == HealthSpec => []FreshUnlessFailing
<1>1. ASSUME HealthInv PROVE FreshUnlessFailing
  <2> SUFFICES ASSUME loop = "on", age # Nil, ~flushErr PROVE ~IsStale
    BY DEF FreshUnlessFailing
  <2>1. Interval \in Nat /\ MaxFlush \in Nat /\ MaxFlush <= Interval /\ next \in 1 .. Interval
    BY <1>1, LoopTimes
  <2>2. age \in Nat /\ busy \in Nat \union {Nil}
    BY <1>1 DEF HealthInv, HealthTypeOK
  <2>3. age <= 2 * Interval
    BY <1>1, <2>1, <2>2 DEF HealthInv, FlushInTime, FlushOnTick
  <2> QED BY <2>1, <2>2, <2>3 DEF IsStale
<1> QED BY <1>1, HealthInvariant, PTL

(***************************************************************************)
(* Every 200 of /healthz and every "healthy" of the status that did not    *)
(* race with Stop was true at some moment of the request.                  *)
(***************************************************************************)
THEOREM AnswersAreTrue == HealthSpec => []HealthyAnswersAreTrue
<1>1. HealthInv => HealthyAnswersAreTrue
  BY DEF HealthInv
<1> QED BY <1>1, HealthInvariant, PTL

(***************************************************************************)
(* A 200 of /healthz bounds the traffic a crash can lose by two intervals  *)
(* and one Flush.                                                          *)
(***************************************************************************)
THEOREM HealthyLossBound == HealthSpec => HealthyBoundsLoss
<1>1. ASSUME HealthInv, HealthzStale, h' = "200"
      PROVE  asOf # Nil /\ asOf <= 2 * Interval + MaxFlush
  <2>1. loop # "off" /\ ~IsStale
    BY <1>1 DEF HealthzStale, HandlerStep, Serving
  <2>2. Interval \in Nat /\ MaxFlush \in Nat
    BY <1>1, <2>1, LoopTimes
  <2>3. age \in Nat \union {Nil} /\ asOf \in Nat \union {Nil}
    BY <1>1 DEF HealthInv, HealthTypeOK
  <2> QED BY <1>1, <2>1, <2>2, <2>3 DEF IsStale, HealthInv, AgesMatch
<1>2. HealthInv => [HealthzStale /\ h' = "200" =>
                      asOf # Nil /\ asOf <= 2 * Interval + MaxFlush]_allVars
  BY <1>1
<1> QED BY <1>2, HealthInvariant, PTL DEF HealthyBoundsLoss

==============================================================================
