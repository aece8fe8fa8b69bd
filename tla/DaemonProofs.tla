----------------------------- MODULE DaemonProofs -----------------------------
(***************************************************************************)
(* Proofs about Daemon, for every set of keys and fields, every width of   *)
(* the counters, every retention, every bound and every set of faults.     *)
(***************************************************************************)
EXTENDS Daemon, TLAPS

-------------------------------------------------------------------------------
(* The arithmetic of the counters. *)

(* The difference that Flush computes for one field is a uint64 again, and *)
(* the SQL driver accepts it only if it did not wrap.                      *)
LEMMA Sub64Facts ==
  ASSUME NEW x \in Uint, NEW y \in Uint
  PROVE  /\ Sub64(x, y) \in Uint
         /\ x < Half /\ y < Half /\ Sub64(x, y) < Half =>
              x >= y /\ Sub64(x, y) = x - y
  BY HalfAssumption DEF Sub64, Uint, Word

LEMMA Add64Type ==
  ASSUME NEW x \in Uint
  PROVE  Add64(x, 1) \in Uint
  BY HalfAssumption DEF Add64, Uint, Word

LEMMA ZeroIsCounter == Zero \in Counter
  BY HalfAssumption DEF Zero, Counter, Uint, Word

LEMMA CounterIsNat == \A r \in Counter : r \in [Fields -> Nat]
  BY HalfAssumption DEF Counter, Uint, Word

LEMMA CheckpointLast ==
  ASSUME NEW row \in Checkpoint
  PROVE  row.date \in Dates /\ row.last \in Counter /\ Bindable(row.last)
  BY HalfAssumption DEF Checkpoint, Counter, Uint, Word, Bindable

LEMMA SubType ==
  ASSUME NEW a \in Counter, NEW b \in Counter
  PROVE  Sub(a, b) \in Counter
  BY Sub64Facts DEF Sub, Counter

(* What Flush adds to the totals and the day is a counter block. *)
LEMMA DeltaType ==
  ASSUME NEW row \in Checkpoint \union {Nil}, NEW date, NEW r \in Counter
  PROVE  Delta(row, date, r) \in Counter
  BY CheckpointLast, SubType DEF Delta

LEMMA PlusType ==
  ASSUME NEW a \in [Fields -> Nat], NEW b \in [Fields -> Nat]
  PROVE  Plus(a, b) \in [Fields -> Nat]
  BY DEF Plus

(* An accepted delta, added to what the checkpoint says was stored, gives  *)
(* the raw value.                                                          *)
LEMMA AcceptedDelta ==
  ASSUME NEW a \in Counter, NEW b \in Counter,
         Bindable(a), Bindable(b), Bindable(Sub(a, b))
  PROVE  /\ Plus(b, Sub(a, b)) = a
         /\ Sub(a, b) = Zero => a = b
<1>1. \A f \in Fields : Sub(a, b)[f] = a[f] - b[f]
  BY Sub64Facts DEF Sub, Counter, Bindable
<1>2. \A f \in Fields : a[f] \in Int /\ b[f] \in Int
  BY HalfAssumption DEF Counter, Uint, Word
<1>3. \A f \in Fields : Plus(b, Sub(a, b))[f] = a[f]
  BY <1>1, <1>2 DEF Plus
<1>4. Plus(b, Sub(a, b)) = a
  <2>1. Plus(b, Sub(a, b)) = [f \in Fields |-> Plus(b, Sub(a, b))[f]]
    BY DEF Plus
  <2>2. a = [f \in Fields |-> a[f]]
    BY DEF Counter
  <2> QED BY <1>3, <2>1, <2>2
<1>5. Sub(a, b) = Zero => a = b
  <2>1. ASSUME Sub(a, b) = Zero PROVE \A f \in Fields : a[f] = b[f]
    BY <1>1, <1>2, <2>1 DEF Zero
  <2> QED BY <2>1 DEF Counter
<1> QED BY <1>4, <1>5

LEMMA PlusZero ==
  ASSUME NEW r \in Counter
  PROVE  Plus(Zero, r) = r
<1>1. \A f \in Fields : Plus(Zero, r)[f] = r[f]
  BY CounterIsNat DEF Plus, Zero
<1> QED BY <1>1 DEF Plus, Counter

-------------------------------------------------------------------------------
(* Types, one lemma per component. *)

(* Packets, races and the end of the process keep the map a map. *)
LEMMA MapTypeStep ==
  ASSUME MapTypeOK, [Next]_vars
  PROVE  MapTypeOK'
<1>1. ASSUME NEW k \in Keys, NEW f \in Fields, Count(k, f, 1)
      PROVE  MapTypeOK'
  <2>1. raw[k] \in Counter /\ raw[k][f] \in Uint
    BY <1>1 DEF MapTypeOK, Count, Counter
  <2>2. [raw[k] EXCEPT ![f] = Add64(@, 1)] \in Counter
    BY <2>1, Add64Type DEF Counter
  <2>3. raw' \in [Keys -> Counter \union {Nil}]
    BY <1>1, <2>2 DEF MapTypeOK, Count
  <2>4. counted[k][f] + 1 \in 0 .. MaxCounted
    BY <1>1, MapBounds DEF MapTypeOK, Count
  <2>5. counted' \in [Keys -> [Fields -> 0 .. MaxCounted]]
    BY <1>1, <2>4 DEF MapTypeOK, Count
  <2> QED BY <2>3, <2>5 DEF MapTypeOK
<1>2. ASSUME NEW k \in Keys, Insert(k) \/ Overwrite(k)
      PROVE  MapTypeOK'
  BY <1>2, ZeroIsCounter DEF MapTypeOK, Insert, Overwrite
<1>3. ASSUME ProcessGone PROVE MapTypeOK'
  BY <1>3 DEF MapTypeOK, ProcessGone, EmptyMap
<1>4. ASSUME UNCHANGED mapVars PROVE MapTypeOK'
  BY <1>4 DEF MapTypeOK, mapVars
<1>5. \/ Packet \/ FirstPacket \/ FirstPacketRace
      \/ ProcessGone
      \/ UNCHANGED mapVars
  BY DEF Next, vars, NextDay, FlushStep, FlushFinish, LoopStep, HkStep, HkExit,
         SvcStart, MainStep, StartFlush, StartHkBegin, StartHkEnd, StartFail,
         StopFlush, FinalFlush, SvcStop, Signal, Crash
<1> QED
  BY <1>1, <1>2, <1>3, <1>4, <1>5 DEF Packet, FirstPacket, FirstPacketRace

(* Flush's transaction and the prune write rows of the right shape. *)
LEMMA PersistType ==
  ASSUME TypeOK, FlushLocalsOK, NEW c \in Callers, FlushPersist(c),
         today' = today
  PROVE  StorageTypeOK'
<1> DEFINE k == key[c]
           r == counters[c]
           date == currentDateUTC[c]
<1>1. k \in Keys /\ r \in Counter /\ date \in Dates
  BY DEF FlushLocalsOK, FlushPersist
<1>2. cp[c] \in Checkpoint \union {Nil}
  BY DEF TypeOK, FlushTypeOK
<1>3. CurrentDelta(c) \in [Fields -> Nat]
  BY <1>1, <1>2, DeltaType, CounterIsNat DEF CurrentDelta
<1>4. r \in [Fields -> 0 .. (Half - 1)]
  BY <1>1, HalfAssumption DEF FlushPersist, Accepted, Bindable, Counter, Uint, Word
<1>5. checkpoints' = [checkpoints EXCEPT ![k] = [date |-> date, last |-> r]]
  BY DEF FlushPersist, PersistAll, UpsertCheckpoint
<1>6. checkpoints' \in [Keys -> Checkpoint \union {Nil}]
  <2>1. [date |-> date, last |-> r] \in Checkpoint
    BY <1>1, <1>4 DEF Checkpoint
  <2> QED BY <1>5, <2>1 DEF TypeOK, StorageTypeOK
<1>7. totals' \in [Keys -> [Fields -> Nat]]
  <2>1. Plus(totals[k], CurrentDelta(c)) \in [Fields -> Nat]
    BY <1>1, <1>3, PlusType DEF TypeOK, StorageTypeOK
  <2>2. \/ totals' = totals
        \/ totals' = [totals EXCEPT ![k] = Plus(@, CurrentDelta(c))]
    BY DEF FlushPersist, PersistAll, UpsertTotal
  <2> QED BY <2>1, <2>2 DEF TypeOK, StorageTypeOK
<1>8. daily' \in [Keys -> [Dates -> [Fields -> Nat]]]
  <2>1. Plus(daily[k][date], CurrentDelta(c)) \in [Fields -> Nat]
    BY <1>1, <1>3, PlusType DEF TypeOK, StorageTypeOK
  <2>2. \/ daily' = daily
        \/ daily' = [daily EXCEPT ![k][date] = Plus(@, CurrentDelta(c))]
    BY DEF FlushPersist, PersistAll, UpsertDaily
  <2>3. [daily[k] EXCEPT ![date] = Plus(@, CurrentDelta(c))]
          \in [Dates -> [Fields -> Nat]]
    BY <1>1, <2>1 DEF TypeOK, StorageTypeOK
  <2> QED BY <2>2, <2>3 DEF TypeOK, StorageTypeOK
<1>9. pruneCut' = pruneCut
  BY DEF FlushPersist
<1> QED
  BY <1>6, <1>7, <1>8, <1>9 DEF TypeOK, StorageTypeOK

LEMMA PruneType ==
  ASSUME StorageTypeOK, HkTypeOK, HkPrune, today' = today
  PROVE  StorageTypeOK'
<1>1. hkCutoff \in Dates
  BY DEF HkTypeOK, HkPrune
<1>2. daily' \in [Keys -> [Dates -> [Fields -> Nat]]]
  BY DEF StorageTypeOK, HkPrune, PruneDaily, Zero
<1>3. pruneCut' \in Dates
  BY <1>1 DEF StorageTypeOK, HkPrune, PruneDaily
<1> QED
  BY <1>2, <1>3 DEF StorageTypeOK, HkPrune, PruneDaily

LEMMA StorageTypeStep ==
  ASSUME TypeOK, FlushLocalsOK, [Next]_vars
  PROVE  StorageTypeOK'
<1>1. ASSUME NEW c \in Callers, FlushPersist(c), today' = today
      PROVE  StorageTypeOK'
  BY <1>1, PersistType
<1>2. ASSUME HkPrune, today' = today PROVE StorageTypeOK'
  BY <1>2, PruneType DEF TypeOK
<1>3. CASE NextDay
  BY <1>3, CalendarAssumption DEF TypeOK, StorageTypeOK, NextDay, storageVars, Dates
<1>4. CASE UNCHANGED <<storageVars, today>>
  BY <1>4 DEF TypeOK, StorageTypeOK, storageVars
<1>5. \/ \E c \in Callers : FlushPersist(c) /\ today' = today
      \/ HkPrune /\ today' = today
      \/ NextDay
      \/ UNCHANGED <<storageVars, today>>
  BY DEF Next, vars, Packet, FirstPacket, FirstPacketRace, FlushStep, FlushNext,
         FlushGetCheckpoint, FlushFinish, FlushEnd, FlushFail, LoopStep, HkStep,
         HkTick, HkBegin, HkFail, HkExit, SvcStart, MainStep, StartFlush,
         StartHkBegin, StartHkEnd, StartFail, StopFlush, FinalFlush, SvcStop,
         Signal, Crash, ProcessGone
<1> QED BY <1>1, <1>2, <1>3, <1>4, <1>5

(* Every step of a Flush keeps its locals in order. *)
LEMMA FlushTypeStep ==
  ASSUME TypeOK, FlushLocalsOK, [Next]_vars
  PROVE  FlushTypeOK' /\ FlushLocalsOK'
<1> USE DEF TypeOK, FlushTypeOK, FlushLocalsOK
<1>1. ASSUME NEW c \in Callers, FlushBegin(c), loop' = loop
      PROVE  FlushTypeOK' /\ FlushLocalsOK'
  <2>1. CurrentDateUTC \in Dates /\ Present \subseteq Keys
    BY DEF CurrentDateUTC, Present, StorageTypeOK
  <2>2. owed' \in [Keys -> Counter \union {Nil}]
    BY <1>1 DEF FlushBegin, MapTypeOK
  <2>3. FlushTypeOK'
    BY <1>1, <2>1, <2>2 DEF FlushBegin
  <2>4. FlushLocalsOK'
    BY <1>1, <2>1 DEF FlushBegin
  <2> QED BY <2>3, <2>4
<1>2. ASSUME NEW c \in Callers, NEW k \in Keys, FlushNext(c, k)
      PROVE  FlushTypeOK' /\ FlushLocalsOK'
  <2>1. raw[k] \in Counter
    BY <1>2 DEF FlushNext, IterNext, Present, MapTypeOK
  <2>2. FlushTypeOK'
    BY <1>2, <2>1 DEF FlushNext
  <2>3. FlushLocalsOK'
    BY <1>2, <2>1 DEF FlushNext
  <2> QED BY <2>2, <2>3
<1>3. ASSUME NEW c \in Callers, FlushGetCheckpoint(c)
      PROVE  FlushTypeOK' /\ FlushLocalsOK'
  <2>1. GetCheckpoint(key[c]) \in Checkpoint \union {Nil}
    BY <1>3 DEF FlushGetCheckpoint, GetCheckpoint, StorageTypeOK
  <2>2. FlushTypeOK'
    BY <1>3, <2>1 DEF FlushGetCheckpoint
  <2>3. FlushLocalsOK'
    BY <1>3 DEF FlushGetCheckpoint
  <2> QED BY <2>2, <2>3
<1>4. ASSUME NEW c \in Callers, FlushPersist(c)
      PROVE  FlushTypeOK' /\ FlushLocalsOK'
  <2>1. FlushTypeOK'
    BY <1>4 DEF FlushPersist
  <2>2. FlushLocalsOK'
    BY <1>4 DEF FlushPersist
  <2> QED BY <2>1, <2>2
<1>5. ASSUME NEW c \in Callers, FlushEnd(c) \/ FlushFail(c)
      PROVE  FlushTypeOK' /\ FlushLocalsOK'
  <2>1. FlushReturn(c) /\ lastFlush' \in BOOLEAN /\ flushErr' \in BOOLEAN
    BY <1>5 DEF FlushEnd, FlushFail
  <2>2. FlushTypeOK'
    BY <2>1 DEF FlushReturn
  <2>3. FlushLocalsOK'
    BY <2>1 DEF FlushReturn
  <2> QED BY <2>2, <2>3
<1>6. ASSUME FlushStart \/ LoopExit \/ FlushCloseStop
      PROVE  FlushTypeOK' /\ FlushLocalsOK'
  BY <1>6 DEF FlushStart, LoopExit, FlushCloseStop, flushLocals
<1>7. ASSUME FlushGone PROVE FlushTypeOK' /\ FlushLocalsOK'
  BY <1>7 DEF FlushGone, EmptyMap
<1>8. ASSUME UNCHANGED flushVars PROVE FlushTypeOK' /\ FlushLocalsOK'
  BY <1>8 DEF flushVars, flushLocals
<1>race. CASE FirstPacketRace
  BY <1>race DEF FirstPacketRace, flushLocals
<1>9. \/ FirstPacketRace
      \/ \E c \in Callers : FlushBegin(c) /\ loop' = loop
      \/ \E c \in Callers, k \in Keys : FlushNext(c, k)
      \/ \E c \in Callers :
           \/ FlushGetCheckpoint(c) \/ FlushPersist(c)
           \/ FlushEnd(c) \/ FlushFail(c)
      \/ FlushStart \/ LoopExit \/ FlushCloseStop
      \/ FlushGone
      \/ UNCHANGED flushVars
  BY DEF Next, vars, Packet, FirstPacket, NextDay, FlushStep,
         FlushFinish, LoopStep, Tick, HkStep, HkExit, SvcStart, MainStep,
         StartFlush, StartHkBegin, StartHkEnd, StartFail, StopFlush, FinalFlush,
         FlushStopWait, SvcStop, Signal, Crash, ProcessGone, Callers
<1> QED BY <1>1, <1>2, <1>3, <1>4, <1>5, <1>6, <1>7, <1>8, <1>race, <1>9

LEMMA CutoffType ==
  ASSUME StorageTypeOK
  PROVE  PruneCutoffDate \in Dates
  BY CalendarAssumption DEF PruneCutoffDate, Dates, StorageTypeOK

LEMMA HkTypeStep ==
  ASSUME TypeOK, [Next]_vars
  PROVE  HkTypeOK'
<1>1. CASE HkBegin
  BY <1>1, CutoffType DEF TypeOK, HkTypeOK, HkBegin
<1>2. CASE HkPrune \/ HkFail \/ HkLoopExit \/ HkCloseStop \/ HkGone
  BY <1>2 DEF TypeOK, HkTypeOK, HkPrune, HkFail, HkLoopExit, HkCloseStop, HkGone
<1>3. CASE UNCHANGED hkVars
  BY <1>3 DEF TypeOK, HkTypeOK, hkVars
<1>4. \/ HkBegin
      \/ HkPrune \/ HkFail \/ HkLoopExit \/ HkCloseStop \/ HkGone
      \/ UNCHANGED hkVars
  BY DEF Next, vars, Packet, FirstPacket, FirstPacketRace, NextDay, FlushStep,
         FlushFinish, LoopStep, HkStep, HkTick, HkExit, SvcStart, MainStep,
         StartFlush, StartHkBegin, StartHkEnd, StartFail, StopFlush, FinalFlush,
         SvcStop, Signal, Crash, ProcessGone
<1> QED BY <1>1, <1>2, <1>3, <1>4

LEMMA MainTypeStep ==
  ASSUME TypeOK, [Next]_vars
  PROVE  main' \in Phases /\ boots' \in 0 .. MaxBoots
<1>1. CASE SvcStart
  BY <1>1, BootsAssumption DEF TypeOK, SvcStart, Phases
<1>2. (main' \in Phases /\ boots' = boots) \/ SvcStart
  BY DEF TypeOK, Phases, Next, vars, Packet, FirstPacket, FirstPacketRace,
         NextDay, FlushStep, FlushFinish, LoopStep, HkStep, HkExit, MainStep,
         StartFlush, StartHkBegin, StartHkEnd, StartFail, StopFlush, FinalFlush,
         SvcStop, Signal, Crash, ProcessGone
<1> QED BY <1>1, <1>2 DEF TypeOK

LEMMA InitType == Init => TypeOK /\ FlushLocalsOK
<1> SUFFICES ASSUME Init PROVE TypeOK /\ FlushLocalsOK
  OBVIOUS
<1>1. MapTypeOK
  BY MapBounds DEF Init, MapInit, MapTypeOK, EmptyMap, Zero
<1>2. StorageTypeOK
  BY CalendarAssumption DEF Init, StorageInit, StorageTypeOK, Zero, Dates
<1>3. FlushTypeOK
  BY DEF Init, FlushInit, FlushTypeOK, EmptyMap
<1>4. /\ HkTypeOK
      /\ main \in Phases
      /\ boots \in 0 .. MaxBoots
  <2>1. HkTypeOK
    BY DEF Init, HkInit, HkTypeOK
  <2>2. main \in Phases
    BY DEF Init, Phases
  <2>3. boots \in 0 .. MaxBoots
    BY BootsAssumption DEF Init
  <2> QED BY <2>1, <2>2, <2>3
<1>5. FlushLocalsOK
  BY DEF Init, FlushInit, FlushLocalsOK
<1> QED BY <1>1, <1>2, <1>3, <1>4, <1>5 DEF TypeOK

LEMMA TypeStep ==
  ASSUME TypeOK, FlushLocalsOK, [Next]_vars
  PROVE  TypeOK' /\ FlushLocalsOK'
  BY MapTypeStep, StorageTypeStep, FlushTypeStep, HkTypeStep, MainTypeStep
     DEF TypeOK

(***************************************************************************)
(* The variables always have their types.  What makes this more than       *)
(* bookkeeping is the storage: a wrapped uint64 difference never reaches a  *)
(* row, because the driver refuses it, so stored values stay naturals below *)
(* 2^63.                                                                   *)
(***************************************************************************)
THEOREM TypeCorrect == Spec => []TypeOK
<1>1. Init => TypeOK /\ FlushLocalsOK
  BY InitType
<1>2. (TypeOK /\ FlushLocalsOK) /\ [Next]_vars => (TypeOK /\ FlushLocalsOK)'
  BY TypeStep
<1> QED BY <1>1, <1>2, PTL DEF Spec

-------------------------------------------------------------------------------
(* Mutual exclusion of the two callers of Flush. *)

LEMMA OwnerStep ==
  ASSUME TypeOK, FlushOwner, [Next]_vars
  PROVE  FlushOwner'
<1> DEFINE MainOnly == \/ main' = main
                       \/ /\ main # "finalFlush"
                          /\ main' \in {"boot", "running", "stopHk"}
<1> USE DEF FlushOwner, TypeOK, FlushTypeOK, Callers
<1>1. ASSUME NEW c \in Callers, FlushStep(c) PROVE FlushOwner'
  BY <1>1 DEF FlushStep, FlushNext, FlushGetCheckpoint, FlushPersist
<1>2. ASSUME NEW c \in Callers, FlushFinish(c) PROVE FlushOwner'
  BY <1>2 DEF FlushFinish, FlushEnd, FlushFail, FlushReturn, FlushCanFail
<1>3. CASE LoopStep
  BY <1>3 DEF LoopStep, Tick, FlushBegin, LoopExit
<1>4. CASE StartFlush
  BY <1>4 DEF StartFlush, FlushStart
<1>5. CASE StopFlush
  BY <1>5 DEF StopFlush, FlushCloseStop
<1>6. CASE FinalFlush
  BY <1>6 DEF FinalFlush, FlushStopWait, FlushBegin
<1>7. CASE ProcessGone
  BY <1>7 DEF ProcessGone, FlushGone
<1>8. CASE UNCHANGED <<pc, loop>> /\ MainOnly
  BY <1>8
<1>9. \/ \E c \in Callers : FlushStep(c) \/ FlushFinish(c)
      \/ LoopStep \/ StartFlush \/ StopFlush \/ FinalFlush \/ ProcessGone
      \/ UNCHANGED <<pc, loop>> /\ MainOnly
  BY DEF Next, vars, flushVars, Packet, FirstPacket, FirstPacketRace, NextDay, HkStep, HkExit,
         SvcStart, MainStep, StartHkBegin, StartHkEnd, StartFail, SvcStop, Signal,
         Crash
<1> QED BY <1>1, <1>2, <1>3, <1>4, <1>5, <1>6, <1>7, <1>8, <1>9

(* While one caller is in Flush, the other is not. *)
LEMMA OneFlush ==
  ASSUME FlushOwner, NEW c \in Callers, pc[c] # "idle",
         NEW b \in Callers, b # c
  PROVE  pc[b] = "idle"
  BY DEF FlushOwner, Callers

-------------------------------------------------------------------------------
(* The accounting, one lemma per kind of step. *)

(* What a transaction of Flush leaves in the tables: the raw value is in   *)
(* the checkpoint, and in the day's row too unless that row was pruned.    *)
LEMMA PersistEffect ==
  ASSUME AccountingInv, NEW c \in Callers, FlushPersist(c)
  PROVE  /\ checkpoints' = [checkpoints EXCEPT ![key[c]] =
                              [date |-> currentDateUTC[c], last |-> counters[c]]]
         /\ \A k \in Keys, d \in Dates :
              (k # key[c] \/ d # currentDateUTC[c]) => daily'[k][d] = daily[k][d]
         /\ currentDateUTC[c] >= pruneCut =>
              daily'[key[c]][currentDateUTC[c]] = counters[c]
<1> DEFINE k == key[c]
           r == counters[c]
           date == currentDateUTC[c]
           row == checkpoints[k]
           delta == CurrentDelta(c)
<1>1. k \in Keys /\ r \in Counter /\ date \in Dates
  BY DEF AccountingInv, FlushLocalsOK, FlushPersist
<1>2. cp[c] = row /\ row \in Checkpoint \union {Nil}
  BY <1>1 DEF AccountingInv, CheckpointIsFresh, FlushPersist, TypeOK, StorageTypeOK
<1>3. daily[k][date] \in [Fields -> Nat] /\ daily \in [Keys -> [Dates -> [Fields -> Nat]]]
  BY <1>1 DEF AccountingInv, TypeOK, StorageTypeOK
<1>4. checkpoints' = [checkpoints EXCEPT ![k] = [date |-> date, last |-> r]]
  BY DEF FlushPersist, PersistAll, UpsertCheckpoint
<1>5. \/ delta = Zero /\ daily' = daily
      \/ daily' = [daily EXCEPT ![k][date] = Plus(@, delta)]
  BY DEF FlushPersist, PersistAll, UpsertDaily
<1>6. \A j \in Keys, d \in Dates :
        (j # k \/ d # date) => daily'[j][d] = daily[j][d]
  BY <1>1, <1>3, <1>5
<1>7. ASSUME date >= pruneCut PROVE daily'[k][date] = r
  <2>1. \/ daily'[k][date] = daily[k][date] /\ delta = Zero
        \/ daily'[k][date] = Plus(daily[k][date], delta)
    BY <1>1, <1>3, <1>5
  <2>2. Bindable(r) /\ Bindable(delta)
    BY DEF FlushPersist, Accepted
  <2>3. CASE row # Nil /\ row.date = date
    <3>1. row.last \in Counter /\ Bindable(row.last)
      BY <1>2, <2>3, CheckpointLast
    <3>2. delta = Sub(r, row.last)
      BY <1>2, <2>3 DEF CurrentDelta, Delta
    <3>3. daily[k][date] = row.last
      BY <1>1, <1>7, <2>3 DEF AccountingInv, CheckpointMatchesDaily
    <3>4. Plus(row.last, delta) = r /\ (delta = Zero => r = row.last)
      BY <1>1, <2>2, <3>1, <3>2, AcceptedDelta
    <3> QED BY <2>1, <3>3, <3>4
  <2>4. CASE ~(row # Nil /\ row.date = date)
    <3>1. delta = r
      BY <1>2, <2>4 DEF CurrentDelta, Delta
    <3>2. row # Nil => row.date < date
      <4>1. row # Nil => row.date <= date
        BY <1>1 DEF AccountingInv, DatesInOrder, FlushPersist
      <4>2. row # Nil => row.date \in Int
        BY <1>2, CheckpointLast DEF Dates
      <4> QED BY <1>1, <2>4, <4>1, <4>2 DEF Dates
    <3>3. daily[k][date] = Zero
      BY <1>1, <1>2, <3>2, CheckpointLast DEF AccountingInv, LaterDaysEmpty, Dates
    <3> QED BY <1>1, <2>1, <3>1, <3>3, PlusZero
  <2> QED BY <2>3, <2>4
<1> QED BY <1>4, <1>6, <1>7

LEMMA PersistKeepsAccounts ==
  ASSUME AccountingInv, NEW c \in Callers, FlushPersist(c), today' = today
  PROVE  /\ DatesInOrder'
         /\ CheckpointIsFresh'
         /\ LaterDaysEmpty'
         /\ CheckpointMatchesDaily'
<1> DEFINE k == key[c]
           r == counters[c]
           date == currentDateUTC[c]
<1>a. checkpoints' = [checkpoints EXCEPT ![k] = [date |-> date, last |-> r]]
  BY PersistEffect
<1>b. \A j \in Keys, d \in Dates :
        (j # k \/ d # date) => daily'[j][d] = daily[j][d]
  BY PersistEffect
<1>c. date >= pruneCut => daily'[k][date] = r
  BY PersistEffect
<1>1. k \in Keys /\ r \in Counter /\ date \in Dates
  BY DEF AccountingInv, FlushLocalsOK, FlushPersist
<1>2. checkpoints \in [Keys -> Checkpoint \union {Nil}] /\ DOMAIN pc = Callers
  BY DEF AccountingInv, TypeOK, StorageTypeOK, FlushTypeOK
<1>3. /\ checkpoints'[k].date = date
      /\ checkpoints'[k].last = r
      /\ \A j \in Keys \ {k} : checkpoints'[j] = checkpoints[j]
  BY <1>a, <1>1, <1>2
<1>4. /\ pc[c] = "persist" /\ pc' = [pc EXCEPT ![c] = "next"]
      /\ currentDateUTC' = currentDateUTC /\ pruneCut' = pruneCut
  BY DEF FlushPersist
<1>5. \A b \in Callers : pc'[b] # "idle" => b = c
  BY <1>2, <1>4, OneFlush DEF AccountingInv
<1>6. \A j \in Keys : checkpoints[j] # Nil =>
        checkpoints[j].date <= date /\ checkpoints[j].date \in Int
  <2>1. \A j \in Keys : checkpoints[j] # Nil => checkpoints[j].date <= date
    BY <1>4 DEF AccountingInv, DatesInOrder
  <2> QED BY <1>2, <2>1, CheckpointLast DEF Dates
<1>7. DatesInOrder'
  <2>1. date <= today /\ date \in Int /\ today \in Int
    BY <1>1, <1>4 DEF AccountingInv, DatesInOrder, TypeOK, StorageTypeOK, Dates
  <2> QED BY <1>3, <1>4, <1>5, <1>6, <2>1 DEF AccountingInv, DatesInOrder
<1>8. CheckpointIsFresh'
  BY <1>2, <1>4, <1>5 DEF CheckpointIsFresh
<1>9. LaterDaysEmpty'
  <2> SUFFICES ASSUME NEW j \in Keys, NEW d \in Dates,
                      checkpoints'[j] = Nil \/ d > checkpoints'[j].date
               PROVE  daily'[j][d] = Zero
    BY DEF LaterDaysEmpty
  <2>1. CASE j # k
    BY <1>b, <1>3, <2>1 DEF AccountingInv, LaterDaysEmpty
  <2>2. CASE j = k
    <3>1. checkpoints'[k] # Nil
      <4>1. [date |-> date, last |-> r] \in Checkpoint
        BY <1>1, HalfAssumption
           DEF FlushPersist, Accepted, Bindable, Counter, Uint, Word, Checkpoint
      <4> QED BY <4>1, <1>a, <1>1, <1>2, NilIsNoCheckpoint
    <3>2. d > date
      BY <1>3, <2>2, <3>1
    <3>3. daily[k][d] = Zero
      BY <1>1, <1>6, <3>2 DEF AccountingInv, LaterDaysEmpty, Dates
    <3>4. d # date
      BY <1>1, <3>2 DEF Dates
    <3> QED BY <1>b, <1>1, <2>2, <3>3, <3>4
  <2> QED BY <2>1, <2>2
<1>10. CheckpointMatchesDaily'
  <2> SUFFICES ASSUME NEW j \in Keys,
                      checkpoints'[j] # Nil, checkpoints'[j].date >= pruneCut
               PROVE  daily'[j][checkpoints'[j].date] = checkpoints'[j].last
    BY <1>4 DEF CheckpointMatchesDaily
  <2>1. CASE j = k
    BY <1>c, <1>3, <2>1
  <2>2. CASE j # k
    <3>1. checkpoints[j].date \in Dates
      BY <1>2, <1>3, <2>2, CheckpointLast
    <3> QED
      BY <1>b, <1>3, <2>2, <3>1 DEF AccountingInv, CheckpointMatchesDaily
  <2> QED BY <2>1, <2>2
<1> QED BY <1>7, <1>8, <1>9, <1>10

(* The prune empties only days before the new cutoff. *)
LEMMA PruneKeepsAccounts ==
  ASSUME AccountingInv, HkPrune
  PROVE  LaterDaysEmpty' /\ CheckpointMatchesDaily'
<1>1. hkCutoff \in Dates /\ pruneCut \in Dates
  BY DEF AccountingInv, TypeOK, HkTypeOK, StorageTypeOK, HkPrune
<1>2. /\ checkpoints' = checkpoints
      /\ \A k \in Keys, d \in Dates :
           daily'[k][d] = IF d < hkCutoff THEN Zero ELSE daily[k][d]
      /\ pruneCut' >= hkCutoff /\ pruneCut' >= pruneCut /\ pruneCut' \in Dates
  BY <1>1 DEF HkPrune, PruneDaily, Dates
<1>3. LaterDaysEmpty'
  BY <1>2 DEF AccountingInv, LaterDaysEmpty
<1>4. CheckpointMatchesDaily'
  <2> SUFFICES ASSUME NEW k \in Keys,
                      checkpoints[k] # Nil, checkpoints[k].date >= pruneCut'
               PROVE  daily'[k][checkpoints[k].date] = checkpoints[k].last
    BY <1>2 DEF CheckpointMatchesDaily
  <2>1. checkpoints[k].date \in Dates
    BY CheckpointLast DEF AccountingInv, TypeOK, StorageTypeOK
  <2>2. checkpoints[k].date >= pruneCut /\ ~(checkpoints[k].date < hkCutoff)
    BY <1>1, <1>2, <2>1 DEF Dates
  <2> QED BY <1>2, <2>1, <2>2 DEF AccountingInv, CheckpointMatchesDaily
<1> QED BY <1>3, <1>4

(* The steps that leave the tables alone. *)
LEMMA OtherStepsKeepAccounts ==
  ASSUME AccountingInv, UNCHANGED storageVars
  PROVE  LaterDaysEmpty' /\ CheckpointMatchesDaily'
  BY DEF AccountingInv, LaterDaysEmpty, CheckpointMatchesDaily, storageVars

(* The order of dates, and the freshness of what a Flush has read, under   *)
(* the steps of Flush other than its transaction and under midnight.       *)
LEMMA FlushKeepsOrder ==
  ASSUME AccountingInv, NEW c \in Callers, checkpoints' = checkpoints, today' = today,
         \/ FlushBegin(c)
         \/ \E k \in Keys : FlushNext(c, k)
         \/ FlushGetCheckpoint(c)
         \/ FlushReturn(c)
  PROVE  DatesInOrder' /\ CheckpointIsFresh'
<1> USE DEF AccountingInv, TypeOK, FlushTypeOK, DatesInOrder, CheckpointIsFresh
<1>1. CASE FlushBegin(c)
  <2>1. DatesInOrder'
    BY <1>1 DEF FlushBegin, CurrentDateUTC, StorageTypeOK, Dates
  <2>2. CheckpointIsFresh'
    BY <1>1 DEF FlushBegin
  <2> QED BY <2>1, <2>2
<1>2. ASSUME NEW k \in Keys, FlushNext(c, k) PROVE DatesInOrder' /\ CheckpointIsFresh'
  BY <1>2 DEF FlushNext
<1>3. CASE FlushGetCheckpoint(c)
  BY <1>3 DEF FlushGetCheckpoint, GetCheckpoint
<1>4. CASE FlushReturn(c)
  BY <1>4 DEF FlushReturn
<1> QED BY <1>1, <1>2, <1>3, <1>4

LEMMA OrderStep ==
  ASSUME AccountingInv, [Next]_vars,
         ~\E c \in Callers : FlushPersist(c) /\ today' = today
  PROVE  DatesInOrder' /\ CheckpointIsFresh'
<1> USE DEF AccountingInv, TypeOK, FlushTypeOK, DatesInOrder, CheckpointIsFresh
<1>1. ASSUME NEW c \in Callers, checkpoints' = checkpoints, today' = today,
             \/ FlushBegin(c)
             \/ \E k \in Keys : FlushNext(c, k)
             \/ FlushGetCheckpoint(c)
             \/ FlushReturn(c)
      PROVE  DatesInOrder' /\ CheckpointIsFresh'
  BY <1>1, FlushKeepsOrder
<1>2. CASE NextDay
  <2>1. UNCHANGED <<checkpoints, pc, currentDateUTC, cp, key>> /\ today' = today + 1
    BY <1>2 DEF NextDay, storageVars, flushVars, flushLocals
  <2>2. today \in Nat
    BY DEF StorageTypeOK, Dates
  <2>3. \A k \in Keys : checkpoints[k] # Nil => checkpoints[k].date \in Int
    BY CheckpointLast DEF StorageTypeOK, Dates
  <2>4. \A c \in Callers : pc[c] # "idle" => currentDateUTC[c] \in Int
    BY DEF FlushLocalsOK, Dates
  <2> QED BY <2>1, <2>2, <2>3, <2>4
<1>3. CASE FlushGone /\ UNCHANGED <<checkpoints, today>>
  BY <1>3 DEF FlushGone
<1>4. CASE UNCHANGED <<checkpoints, pc, currentDateUTC, cp, key, today>>
  BY <1>4
<1>5. \/ NextDay
      \/ FlushGone /\ UNCHANGED <<checkpoints, today>>
      \/ UNCHANGED <<checkpoints, pc, currentDateUTC, cp, key, today>>
      \/ /\ checkpoints' = checkpoints /\ today' = today
         /\ \E c \in Callers :
              \/ FlushBegin(c)
              \/ \E k \in Keys : FlushNext(c, k)
              \/ FlushGetCheckpoint(c)
              \/ FlushReturn(c)
  <2>1. ASSUME NEW c \in Callers, FlushStep(c) \/ FlushFinish(c)
        PROVE  /\ checkpoints' = checkpoints /\ today' = today
               /\ \/ \E k \in Keys : FlushNext(c, k)
                  \/ FlushGetCheckpoint(c)
                  \/ FlushReturn(c)
    BY <2>1 DEF FlushStep, FlushFinish, FlushNext, FlushGetCheckpoint, FlushEnd,
                FlushFail, storageVars
  <2>2. CASE LoopStep \/ FinalFlush \/ StartFlush \/ StopFlush
    BY <2>2 DEF LoopStep, Tick, LoopExit, FinalFlush, FlushStopWait, StartFlush,
                FlushStart, StopFlush, FlushCloseStop, storageVars, flushLocals, Callers
  <2>3. CASE HkStep \/ HkExit \/ StartHkBegin \/ StartHkEnd \/ Signal \/ SvcStart
    BY <2>3 DEF HkStep, HkTick, HkBegin, HkPrune, PruneDaily, HkFail, HkExit,
                StartHkBegin, StartHkEnd, Signal, SvcStart, storageVars,
                flushVars, flushLocals
  <2>4. CASE Packet \/ FirstPacket \/ FirstPacketRace \/ UNCHANGED vars
    BY <2>4 DEF Packet, FirstPacket, FirstPacketRace, vars, storageVars, flushVars,
                flushLocals
  <2>5. CASE StartFail \/ SvcStop \/ Crash
    BY <2>5 DEF StartFail, SvcStop, Crash, ProcessGone, storageVars
  <2> QED
    BY <2>1, <2>2, <2>3, <2>4, <2>5 DEF Next, MainStep
<1> QED BY <1>1, <1>2, <1>3, <1>4, <1>5

LEMMA AccountingStep ==
  ASSUME AccountingInv, [Next]_vars
  PROVE  AccountingInv'
<1>1. TypeOK' /\ FlushLocalsOK' /\ FlushOwner'
  BY TypeStep, OwnerStep DEF AccountingInv
<1>2. CASE \E c \in Callers : FlushPersist(c) /\ today' = today
  BY <1>1, <1>2, PersistKeepsAccounts DEF AccountingInv
<1>3. CASE ~\E c \in Callers : FlushPersist(c) /\ today' = today
  <2>1. DatesInOrder' /\ CheckpointIsFresh'
    BY <1>3, OrderStep
  <2>2. HkPrune \/ UNCHANGED storageVars
    BY <1>3 DEF Next, vars, Packet, FirstPacket, FirstPacketRace, NextDay, FlushStep,
         FlushNext, FlushGetCheckpoint, FlushFinish, FlushEnd, FlushFail, LoopStep,
         HkStep, HkTick, HkBegin, HkFail, HkExit, SvcStart, MainStep, StartFlush,
         StartHkBegin, StartHkEnd, StartFail, StopFlush, FinalFlush, SvcStop,
         Signal, Crash, ProcessGone
  <2>3. LaterDaysEmpty' /\ CheckpointMatchesDaily'
    BY <2>2, PruneKeepsAccounts, OtherStepsKeepAccounts
  <2> QED BY <1>1, <2>1, <2>3 DEF AccountingInv
<1> QED BY <1>2, <1>3

LEMMA AccountingInit == Init => AccountingInv
<1> SUFFICES ASSUME Init PROVE AccountingInv
  OBVIOUS
<1>1. TypeOK /\ FlushLocalsOK
  BY InitType
<1>2. FlushOwner
  BY DEF Init, FlushInit, FlushOwner, Callers
<1>3. DatesInOrder /\ CheckpointIsFresh
  BY DEF Init, StorageInit, FlushInit, DatesInOrder, CheckpointIsFresh
<1>4. LaterDaysEmpty /\ CheckpointMatchesDaily
  BY DEF Init, StorageInit, LaterDaysEmpty, CheckpointMatchesDaily
<1> QED BY <1>1, <1>2, <1>3, <1>4 DEF AccountingInv

(***************************************************************************)
(* The inductive invariant holds in every behaviour of the daemon.         *)
(***************************************************************************)
THEOREM AccountingInvariant == Spec => []AccountingInv
<1>1. Init => AccountingInv
  BY AccountingInit
<1>2. AccountingInv /\ [Next]_vars => AccountingInv'
  BY AccountingStep
<1> QED BY <1>1, <1>2, PTL DEF Spec

(***************************************************************************)
(* The row of the checkpoint's day always equals the checkpoint: persistAll *)
(* is atomic, Flush never runs twice at once, days are visited in order,   *)
(* and a difference that wrapped is refused.                               *)
(***************************************************************************)
THEOREM AccountsBalance == Spec => []CheckpointMatchesDaily
<1>1. AccountingInv => CheckpointMatchesDaily
  BY DEF AccountingInv
<1> QED BY <1>1, AccountingInvariant, PTL

(***************************************************************************)
(* The loop's Flush and Stop's final Flush never overlap.                  *)
(***************************************************************************)
THEOREM MutualExclusion == Spec => []FlushesNeverOverlap
<1>1. AccountingInv => FlushesNeverOverlap
  BY DEF AccountingInv, FlushOwner, FlushesNeverOverlap
<1> QED BY <1>1, AccountingInvariant, PTL

(***************************************************************************)
(* No step moves a checkpoint back to an earlier day or removes it.        *)
(***************************************************************************)
THEOREM CheckpointsMoveForward == Spec => CheckpointDateNeverGoesBack
<1> DEFINE Forward ==
      \A k \in Keys : checkpoints[k] # Nil =>
        checkpoints'[k] # Nil /\ checkpoints'[k].date >= checkpoints[k].date
<1>1. AccountingInv /\ AccountingInv' /\ [Next]_vars => [Forward]_vars
  <2> SUFFICES ASSUME AccountingInv, AccountingInv', [Next]_vars
               PROVE  Forward
    OBVIOUS
  <2>1. \A k \in Keys : checkpoints[k] # Nil => checkpoints[k].date \in Int
    BY CheckpointLast DEF AccountingInv, TypeOK, StorageTypeOK, Dates
  <2>2. CASE checkpoints' = checkpoints
    BY <2>1, <2>2
  <2>3. ASSUME NEW c \in Callers, FlushPersist(c) PROVE Forward
    <3> DEFINE k == key[c]
               row == [date |-> currentDateUTC[c], last |-> counters[c]]
    <3>1. k \in Keys /\ checkpoints' = [checkpoints EXCEPT ![k] = row]
      BY <2>3, PersistEffect DEF AccountingInv, FlushLocalsOK, FlushPersist
    <3>2. row \in Checkpoint
      BY <2>3, HalfAssumption DEF AccountingInv, FlushLocalsOK, FlushPersist,
         Accepted, Bindable, Counter, Uint, Word, Checkpoint
    <3>3. \A j \in Keys : checkpoints[j] # Nil =>
            checkpoints[j].date <= currentDateUTC[c] /\ currentDateUTC[c] \in Int
      BY <2>3 DEF AccountingInv, DatesInOrder, FlushLocalsOK, FlushPersist, Dates
    <3> QED
      BY <2>1, <3>1, <3>2, <3>3, NilIsNoCheckpoint
         DEF AccountingInv, TypeOK, StorageTypeOK
  <2>4. checkpoints' = checkpoints \/ \E c \in Callers : FlushPersist(c)
    BY DEF Next, vars, Packet, FirstPacket, FirstPacketRace, NextDay, FlushStep,
         FlushNext, FlushGetCheckpoint, FlushFinish, FlushEnd, FlushFail, LoopStep,
         HkStep, HkTick, HkBegin, HkPrune, PruneDaily, HkFail, HkExit, SvcStart,
         MainStep, StartFlush, StartHkBegin, StartHkEnd, StartFail, StopFlush,
         FinalFlush, SvcStop, Signal, Crash, ProcessGone, storageVars
  <2> QED BY <2>2, <2>3, <2>4
<1>2. Spec => []AccountingInv
  BY AccountingInvariant
<1>3. Spec => [][Next]_vars
  BY DEF Spec
<1> QED BY <1>1, <1>2, <1>3, PTL DEF CheckpointDateNeverGoesBack

-------------------------------------------------------------------------------
(* Retention. *)

LEMMA CutoffStep ==
  ASSUME TypeOK, CutoffNotAhead, [Next]_vars
  PROVE  CutoffNotAhead'
<1>1. today \in Int /\ PruneCutoffDate \in Int /\ hkCutoff \in Dates \union {Nil}
  BY CutoffType DEF TypeOK, StorageTypeOK, HkTypeOK, Dates
<1>2. CASE NextDay
  BY <1>1, <1>2, CalendarAssumption
     DEF NextDay, CutoffNotAhead, PruneCutoffDate, hkVars, Dates
<1>3. CASE HkBegin /\ today' = today
  BY <1>1, <1>3 DEF HkBegin, CutoffNotAhead, PruneCutoffDate
<1>4. CASE (hkCutoff' = Nil \/ hkCutoff' = hkCutoff) /\ today' = today
  BY <1>4 DEF CutoffNotAhead, PruneCutoffDate
<1>5. \/ NextDay
      \/ HkBegin /\ today' = today
      \/ (hkCutoff' = Nil \/ hkCutoff' = hkCutoff) /\ today' = today
  BY DEF Next, vars, Packet, FirstPacket, FirstPacketRace, FlushStep, FlushFinish,
         LoopStep, HkStep, HkTick, HkPrune, HkFail, HkExit, HkLoopExit, SvcStart,
         MainStep, StartFlush, StartHkBegin, StartHkEnd, StartFail, StopFlush,
         FinalFlush, SvcStop, Signal, HkCloseStop, Crash, ProcessGone, HkGone, hkVars
<1> QED BY <1>2, <1>3, <1>4, <1>5

LEMMA CutoffInvariant == Spec => []CutoffNotAhead
<1>1. Init => CutoffNotAhead
  BY DEF Init, HkInit, CutoffNotAhead
<1>2. AccountingInv /\ CutoffNotAhead /\ [Next]_vars => CutoffNotAhead'
  BY CutoffStep DEF AccountingInv
<1> QED BY <1>1, <1>2, AccountingInvariant, PTL DEF Spec

(* A block never shrinks when something is added to it, or when it is left *)
(* alone.                                                                  *)
LEMMA AtLeastFacts ==
  ASSUME NEW a \in [Fields -> Nat]
  PROVE  /\ AtLeast(a, a)
         /\ \A b \in [Fields -> Nat] : AtLeast(Plus(a, b), a)
  BY DEF AtLeast, Plus

(***************************************************************************)
(* The days within the retention never shrink: a cutoff that midnight has  *)
(* made out of date is too early and prunes less, and a Flush only adds.   *)
(***************************************************************************)
THEOREM KeptDaysNeverShrink == Spec => RetentionHonoured
<1> DEFINE Kept ==
      \A k \in Keys, d \in Dates :
        d >= PruneCutoffDate => AtLeast(daily'[k][d], daily[k][d])
<1>1. AccountingInv /\ CutoffNotAhead /\ [Next]_vars => [Kept]_vars
  <2> SUFFICES ASSUME AccountingInv, CutoffNotAhead, [Next]_vars,
                      NEW k \in Keys, NEW d \in Dates, d >= PruneCutoffDate
               PROVE  AtLeast(daily'[k][d], daily[k][d])
    OBVIOUS
  <2>1. TypeOK /\ PruneCutoffDate \in Dates /\ daily[k][d] \in [Fields -> Nat]
    BY CutoffType DEF AccountingInv, TypeOK, StorageTypeOK
  <2>2. CASE daily' = daily
    BY <2>1, <2>2, AtLeastFacts
  <2>3. ASSUME HkPrune PROVE daily'[k][d] = daily[k][d]
    BY <2>1, <2>3 DEF HkPrune, PruneDaily, CutoffNotAhead, TypeOK, HkTypeOK, Dates
  <2>4. ASSUME NEW c \in Callers, FlushPersist(c)
        PROVE  AtLeast(daily'[k][d], daily[k][d])
    <3> DEFINE date == currentDateUTC[c]
    <3>1. key[c] \in Keys /\ date \in Dates /\ CurrentDelta(c) \in [Fields -> Nat]
      BY <2>1, <2>4, DeltaType, CounterIsNat
         DEF AccountingInv, FlushLocalsOK, FlushPersist, CurrentDelta, TypeOK, FlushTypeOK
    <3>2. \/ daily' = daily
          \/ daily' = [daily EXCEPT ![key[c]][date] = Plus(@, CurrentDelta(c))]
      BY <2>4 DEF FlushPersist, PersistAll, UpsertDaily
    <3>3. \/ daily'[k][d] = daily[k][d]
          \/ daily'[k][d] = Plus(daily[k][d], CurrentDelta(c))
      <4>1. daily \in [Keys -> [Dates -> [Fields -> Nat]]]
        BY <2>1 DEF TypeOK, StorageTypeOK
      <4>2. CASE k = key[c] /\ d = date
        BY <3>1, <3>2, <4>1, <4>2
      <4>3. CASE k # key[c] \/ d # date
        BY <3>1, <3>2, <4>1, <4>3
      <4> QED BY <4>2, <4>3
    <3> QED BY <2>1, <3>1, <3>3, AtLeastFacts
  <2>5. daily' = daily \/ HkPrune \/ \E c \in Callers : FlushPersist(c)
    BY DEF Next, vars, Packet, FirstPacket, FirstPacketRace, NextDay, FlushStep,
         FlushNext, FlushGetCheckpoint, FlushFinish, FlushEnd, FlushFail, LoopStep,
         HkStep, HkTick, HkBegin, HkFail, HkExit, SvcStart, MainStep, StartFlush,
         StartHkBegin, StartHkEnd, StartFail, StopFlush, FinalFlush, SvcStop,
         Signal, Crash, ProcessGone, storageVars
  <2> QED BY <2>1, <2>2, <2>3, <2>4, <2>5, AtLeastFacts
<1>2. Spec => []AccountingInv
  BY AccountingInvariant
<1>3. Spec => []CutoffNotAhead
  BY CutoffInvariant
<1>4. Spec => [][Next]_vars
  BY DEF Spec
<1> QED BY <1>1, <1>2, <1>3, <1>4, PTL DEF RetentionHonoured

-------------------------------------------------------------------------------
(* The ledger. *)

(* The transaction of a Flush is a credit, or no change when there was no  *)
(* new traffic.                                                            *)
LEMMA PersistIsCredit ==
  ASSUME AccountingInv, NEW c \in Callers, FlushPersist(c), today' = today
  PROVE  [L!LedgerNext]_(L!ledger)
<1> DEFINE k == key[c]
           date == currentDateUTC[c]
           delta == CurrentDelta(c)
<1>1. k \in Keys /\ counters[c] \in Counter /\ date \in Dates /\ date <= today
  BY DEF AccountingInv, FlushLocalsOK, FlushPersist, DatesInOrder
<1>2. delta \in Counter /\ Bindable(delta)
  <2>1. cp[c] \in Checkpoint \union {Nil}
    BY DEF AccountingInv, TypeOK, FlushTypeOK
  <2> QED BY <1>1, <2>1, DeltaType DEF CurrentDelta, FlushPersist, Accepted
<1>3. CASE delta = Zero
  BY <1>3 DEF FlushPersist, L!ledger
<1>4. CASE delta # Zero
  <2>1. delta \in L!Amounts
    BY <1>2, <1>4 DEF L!Amounts, L!Counter, L!Uint, L!Word, L!Bindable, L!Zero,
       Counter, Uint, Word, Bindable, Zero
  <2>2. /\ totals' = [totals EXCEPT ![k] = Plus(@, delta)]
        /\ daily' = [daily EXCEPT ![k][date] = Plus(@, delta)]
    BY <1>4 DEF FlushPersist, PersistAll, UpsertTotal, UpsertDaily
  <2>3. L!Credit(k, date, delta)
    BY <1>1, <2>2 DEF L!Credit, L!Plus, Plus
  <2> QED BY <1>1, <2>1, <2>3 DEF L!LedgerNext, L!Dates, Dates
<1> QED BY <1>3, <1>4

(* The DELETE of a prune forgets days that the retention lets go, or none. *)
LEMMA PruneIsForget ==
  ASSUME TypeOK, CutoffNotAhead, HkPrune, today' = today
  PROVE  [L!LedgerNext]_(L!ledger)
<1>1. hkCutoff \in Dates /\ hkCutoff <= PruneCutoffDate /\ today \in Dates
  BY DEF TypeOK, HkTypeOK, StorageTypeOK, HkPrune, CutoffNotAhead
<1>2. /\ daily' = [k \in Keys |-> [d \in Dates |->
                     IF d < hkCutoff THEN Zero ELSE daily[k][d]]]
      /\ totals' = totals
  BY DEF HkPrune, PruneDaily
<1>3. CASE today >= Retention
  <2>1. L!Forget(hkCutoff)
    BY <1>1, <1>2, <1>3 DEF L!Forget, L!Zero, L!Dates, Zero, Dates, PruneCutoffDate
  <2> QED BY <1>1, <2>1 DEF L!LedgerNext, L!Dates, Dates
<1>4. CASE ~(today >= Retention)
  <2>1. \A d \in Dates : ~(d < hkCutoff)
    BY <1>1, <1>4 DEF PruneCutoffDate, Dates
  <2>2. daily \in [Keys -> [Dates -> [Fields -> Nat]]]
    BY DEF TypeOK, StorageTypeOK
  <2>3. daily' = [k \in Keys |-> [d \in Dates |-> daily[k][d]]]
    BY <1>2, <2>1
  <2>4. daily' = daily
    BY <2>2, <2>3
  <2> QED BY <1>2, <2>4 DEF L!ledger
<1> QED BY <1>3, <1>4

LEMMA LedgerStep ==
  ASSUME AccountingInv, CutoffNotAhead, [Next]_vars
  PROVE  [L!LedgerNext]_(L!ledger)
<1>1. CASE \E c \in Callers : FlushPersist(c) /\ today' = today
  BY <1>1, PersistIsCredit
<1>2. CASE HkPrune /\ today' = today
  BY <1>2, PruneIsForget DEF AccountingInv
<1>3. CASE NextDay
  BY <1>3 DEF NextDay, storageVars, L!LedgerNext, L!Midnight
<1>4. CASE UNCHANGED <<totals, daily, today>>
  BY <1>4 DEF L!ledger
<1>5. \/ \E c \in Callers : FlushPersist(c) /\ today' = today
      \/ HkPrune /\ today' = today
      \/ NextDay
      \/ UNCHANGED <<totals, daily, today>>
  BY DEF Next, vars, Packet, FirstPacket, FirstPacketRace, FlushStep, FlushNext,
         FlushGetCheckpoint, FlushFinish, FlushEnd, FlushFail, LoopStep, HkStep,
         HkTick, HkBegin, HkFail, HkExit, SvcStart, MainStep, StartFlush,
         StartHkBegin, StartHkEnd, StartFail, StopFlush, FinalFlush, SvcStop,
         Signal, Crash, ProcessGone, storageVars
<1> QED BY <1>1, <1>2, <1>3, <1>4, <1>5

(***************************************************************************)
(* The daemon implements the abstract ledger, for every set of keys and    *)
(* fields and every combination of faults, restarts and midnights: totals  *)
(* and days move together, and only by what a transaction adds or the      *)
(* retention lets go.                                                      *)
(***************************************************************************)
THEOREM DaemonImplementsLedger == Spec => ImplementsLedger
<1>1. Init => L!LedgerInit
  BY DEF Init, StorageInit, L!LedgerInit, L!Zero, L!Dates, Zero, Dates
<1>2. AccountingInv /\ CutoffNotAhead /\ [Next]_vars => [L!LedgerNext]_(L!ledger)
  BY LedgerStep
<1>3. Spec => []AccountingInv
  BY AccountingInvariant
<1>4. Spec => []CutoffNotAhead
  BY CutoffInvariant
<1> QED BY <1>1, <1>2, <1>3, <1>4, PTL DEF Spec, ImplementsLedger, L!LedgerSpec

==============================================================================
