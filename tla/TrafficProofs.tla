----------------------------- MODULE TrafficProofs -----------------------------
(***************************************************************************)
(* Proofs about what Daemon stores of the traffic: in a row no more than   *)
(* was counted (RowsWithinTraffic), no less than a reported success says   *)
(* (ReportedFlushIsComplete), and in the totals no less than in the days   *)
(* (TotalsCoverDaily).                                                     *)
(***************************************************************************)
EXTENDS DaemonProofs, SumsProofs

(* The phases in which main's own Flush is under way or over. *)
LastPhases == {"finalFlush", "detach"}

(* What a step of the daemon may do to the map, the tables and the Flushes. *)
LEMMA StepKinds ==
  ASSUME [Next]_vars
  PROVE  \/ Packet \/ FirstPacket \/ FirstPacketRace \/ NextDay
         \/ \E c \in Callers :
              /\ FlushBegin(c)
              /\ IF c = "loop" THEN loop = "select" /\ main' = main
                               ELSE loop = "exited" /\ main' = "finalFlush"
              /\ UNCHANGED <<mapVars, storageVars, today>>
         \/ \E c \in Callers :
              /\ \/ \E k \in Keys : FlushNext(c, k)
                 \/ FlushGetCheckpoint(c)
                 \/ FlushPersist(c)
              /\ UNCHANGED <<mapVars, today, main>>
         \/ \E c \in Callers : FlushFinish(c)
         \/ /\ HkPrune
            /\ UNCHANGED <<mapVars, today, flushVars>>
            /\ main' \notin LastPhases => main \notin LastPhases
         \/ ProcessGone
         \/ /\ UNCHANGED <<mapVars, storageVars, today, pc, flushLocals, lastFlush,
                           flushErr, owed>>
            /\ main' \notin LastPhases => main \notin LastPhases
<1>1. ASSUME NEW c \in Callers, FlushStep(c)
      PROVE  /\ \/ \E k \in Keys : FlushNext(c, k)
                \/ FlushGetCheckpoint(c)
                \/ FlushPersist(c)
             /\ UNCHANGED <<mapVars, today, main>>
  BY <1>1 DEF FlushStep
<1> DEFINE Begins(c) ==
             /\ FlushBegin(c)
             /\ IF c = "loop" THEN loop = "select" /\ main' = main
                              ELSE loop = "exited" /\ main' = "finalFlush"
             /\ UNCHANGED <<mapVars, storageVars, today>>
           Prunes ==
             /\ HkPrune
             /\ UNCHANGED <<mapVars, today, flushVars>>
             /\ main' \notin LastPhases => main \notin LastPhases
           Rest ==
             /\ UNCHANGED <<mapVars, storageVars, today, pc, flushLocals, lastFlush,
                            flushErr, owed>>
             /\ main' \notin LastPhases => main \notin LastPhases
<1>2. LoopStep => (\E c \in Callers : Begins(c)) \/ Rest
  BY DEF LoopStep, Tick, LoopExit, Callers
<1>3. FinalFlush => \E c \in Callers : Begins(c)
  BY DEF FinalFlush, FlushStopWait, Callers
<1>4. HkStep \/ StartHkBegin \/ StartHkEnd \/ HkExit => Prunes \/ Rest
  BY DEF HkStep, HkTick, HkBegin, HkFail, StartHkBegin, StartHkEnd, HkExit,
         flushVars, LastPhases
<1>5. StartFlush \/ StopFlush \/ SvcStart \/ Signal => Rest
  BY DEF StartFlush, FlushStart, StopFlush, FlushCloseStop, SvcStart, Signal,
         flushVars, LastPhases
<1>6. StartFail \/ SvcStop \/ Crash => ProcessGone
  BY DEF StartFail, SvcStop, Crash
<1>7. UNCHANGED vars => Rest
  BY DEF vars, flushVars
<1> HIDE DEF Begins, Prunes, Rest
<1>8. \/ Packet \/ FirstPacket \/ FirstPacketRace \/ NextDay
      \/ \E c \in Callers : Begins(c)
      \/ \E c \in Callers : FlushStep(c)
      \/ \E c \in Callers : FlushFinish(c)
      \/ Prunes
      \/ ProcessGone
      \/ Rest
  BY <1>2, <1>3, <1>4, <1>5, <1>6, <1>7 DEF Next, MainStep
<1> QED BY <1>1, <1>8 DEF Begins, Prunes, Rest

-------------------------------------------------------------------------------
(* Nothing is stored that was not counted. *)

LEMMA AtLeastTrans ==
  ASSUME NEW a \in [Fields -> Nat], NEW b \in [Fields -> Nat], NEW c \in [Fields -> Nat],
         AtLeast(a, b), AtLeast(b, c)
  PROVE  AtLeast(a, c)
  BY DEF AtLeast

LEMMA AtLeastZero ==
  ASSUME NEW a \in [Fields -> Nat]
  PROVE  AtLeast(a, Zero)
  BY DEF AtLeast, Zero

(* A packet adds to the history what it adds to the map, or less where the *)
(* word wraps.                                                             *)
LEMMA CountedGrows ==
  ASSUME MapTypeOK, NEW k \in Keys, NEW f \in Fields, Count(k, f, 1)
  PROVE  /\ \A j \in Keys : AtLeast(counted'[j], counted[j])
         /\ \A j \in Keys \ {k} : raw'[j] = raw[j]
         /\ AtLeast(counted[k], raw[k]) => AtLeast(counted'[k], raw'[k])
<1>1. /\ raw' = [raw EXCEPT ![k][f] = Add64(@, 1)]
      /\ counted' = [counted EXCEPT ![k][f] = @ + 1]
      /\ raw[k] \in Counter
  BY DEF Count, MapTypeOK
<1>2. counted \in [Keys -> [Fields -> Nat]] /\ raw \in [Keys -> Counter \union {Nil}]
  BY MapBounds DEF MapTypeOK
<1>3. \A j \in Keys : AtLeast(counted'[j], counted[j])
  BY <1>1, <1>2 DEF AtLeast
<1>4. \A j \in Keys \ {k} : raw'[j] = raw[j]
  BY <1>1, <1>2
<1>5. ASSUME AtLeast(counted[k], raw[k]) PROVE AtLeast(counted'[k], raw'[k])
  <2> SUFFICES ASSUME NEW g \in Fields PROVE counted'[k][g] >= raw'[k][g]
    BY DEF AtLeast
  <2>1. counted[k][g] >= raw[k][g] /\ counted[k][g] \in Nat /\ raw[k][g] \in Uint
    BY <1>1, <1>2, <1>5 DEF AtLeast, Counter
  <2>2. CASE g = f
    <3>1. raw'[k][g] = Add64(raw[k][g], 1) /\ counted'[k][g] = counted[k][g] + 1
      BY <1>1, <1>2, <2>2 DEF Counter
    <3> QED BY <2>1, <3>1, HalfAssumption DEF Add64, Uint, Word
  <2>3. CASE g # f
    <3>1. raw'[k][g] = raw[k][g] /\ counted'[k][g] = counted[k][g]
      BY <1>1, <1>2, <2>3 DEF Counter
    <3> QED BY <2>1, <3>1
  <2> QED BY <2>2, <2>3
<1> QED BY <1>3, <1>4, <1>5

LEMMA NothingInventedStep ==
  ASSUME AccountingInv, NothingInvented, [Next]_vars
  PROVE  NothingInvented'
<1> USE DEF NothingInvented, AtHand
<1>1. /\ counted \in [Keys -> [Fields -> Nat]]
      /\ raw \in [Keys -> Counter \union {Nil}]
      /\ pc \in [Callers -> {"idle", "next", "checkpoint", "persist"}]
      /\ DOMAIN key = Callers /\ DOMAIN counters = Callers
  BY MapBounds DEF AccountingInv, TypeOK, MapTypeOK, FlushTypeOK
<1>2. CASE Packet
  <2>1. PICK k \in Keys, f \in Fields : Count(k, f, 1)
    BY <1>2 DEF Packet
  <2>2. UNCHANGED <<checkpoints, pc, key, counters>>
    BY <1>2 DEF Packet, storageVars, flushVars, flushLocals
  <2>3. counted' \in [Keys -> [Fields -> Nat]]
    BY <1>1, <2>1 DEF Count
  <2>4. \A j \in Keys : checkpoints[j] # Nil => checkpoints[j].last \in [Fields -> Nat]
    BY CheckpointLast, CounterIsNat DEF AccountingInv, TypeOK, StorageTypeOK
  <2>5. \A j \in Keys, c \in Callers : AtHand(c, j) => counters[c] \in [Fields -> Nat]
    BY CounterIsNat DEF AccountingInv, FlushLocalsOK
  <2>6. \A j \in Keys : raw[j] # Nil => raw[j] \in [Fields -> Nat]
    BY <1>1, CounterIsNat
  <2>7. /\ \A j \in Keys : AtLeast(counted'[j], counted[j])
        /\ \A j \in Keys \ {k} : raw'[j] = raw[j]
        /\ AtLeast(counted[k], raw[k]) => AtLeast(counted'[k], raw'[k])
    BY <2>1, CountedGrows DEF AccountingInv, TypeOK
  <2>8. raw[k] # Nil
    BY <2>1 DEF Count
  <2> SUFFICES ASSUME NEW j \in Keys
               PROVE  /\ raw'[j] # Nil => AtLeast(counted'[j], raw'[j])
                      /\ checkpoints[j] # Nil => AtLeast(counted'[j], checkpoints[j].last)
                      /\ \A c \in Callers :
                           AtHand(c, j) => AtLeast(counted'[j], counters[c])
    BY <2>2
  <2>9. counted[j] \in [Fields -> Nat] /\ counted'[j] \in [Fields -> Nat]
    BY <1>1, <2>3
  <2>10. raw'[j] # Nil => AtLeast(counted'[j], raw'[j])
    <3>1. CASE j = k
      BY <2>7, <2>8, <3>1
    <3>2. CASE j # k
      BY <2>6, <2>7, <2>9, <3>2, AtLeastTrans
    <3> QED BY <3>1, <3>2
  <2>11. checkpoints[j] # Nil => AtLeast(counted'[j], checkpoints[j].last)
    BY <2>4, <2>7, <2>9, AtLeastTrans
  <2>12. \A c \in Callers : AtHand(c, j) => AtLeast(counted'[j], counters[c])
    BY <2>5, <2>7, <2>9, AtLeastTrans
  <2> QED BY <2>10, <2>11, <2>12
<1>3. CASE FirstPacket \/ FirstPacketRace
  <2>1. PICK k \in Keys : raw' = [raw EXCEPT ![k] = Zero]
    BY <1>3 DEF FirstPacket, FirstPacketRace, Insert, Overwrite
  <2>2. UNCHANGED <<counted, checkpoints, pc, key, counters>>
    BY <1>3 DEF FirstPacket, FirstPacketRace, Insert, Overwrite, storageVars,
                flushVars, flushLocals
  <2> QED BY <1>1, <2>1, <2>2, AtLeastZero
<1>4. ASSUME NEW c \in Callers, FlushBegin(c), UNCHANGED <<mapVars, storageVars>>
      PROVE  NothingInvented'
  BY <1>1, <1>4 DEF FlushBegin, mapVars, storageVars
<1>5. ASSUME NEW c \in Callers, NEW k \in Keys, FlushNext(c, k), UNCHANGED mapVars
      PROVE  NothingInvented'
  BY <1>1, <1>5 DEF FlushNext, IterNext, mapVars, storageVars, Present
<1>6. ASSUME NEW c \in Callers, FlushGetCheckpoint(c), UNCHANGED mapVars
      PROVE  NothingInvented'
  BY <1>1, <1>6 DEF FlushGetCheckpoint, mapVars, storageVars
<1>7. ASSUME NEW c \in Callers, FlushPersist(c), UNCHANGED mapVars
      PROVE  NothingInvented'
  <2>1. checkpoints' = [checkpoints EXCEPT ![key[c]] =
                          [date |-> currentDateUTC[c], last |-> counters[c]]]
    BY <1>7, PersistEffect
  <2>2. key[c] \in Keys /\ AtLeast(counted[key[c]], counters[c])
    BY <1>7 DEF AccountingInv, FlushLocalsOK, FlushPersist
  <2>3. DOMAIN checkpoints = Keys
    BY DEF AccountingInv, TypeOK, StorageTypeOK
  <2>4. \A j \in Keys : checkpoints'[j] # Nil => AtLeast(counted[j], checkpoints'[j].last)
    BY <2>1, <2>2, <2>3
  <2>5. \A j \in Keys, b \in Callers : AtHand(b, j)' => AtHand(b, j) /\ counters'[b] = counters[b]
    BY <1>1, <1>7 DEF FlushPersist
  <2> QED BY <1>7, <2>4, <2>5 DEF mapVars
<1>8. ASSUME NEW c \in Callers, FlushFinish(c) PROVE NothingInvented'
  <2>1. FlushReturn(c) /\ UNCHANGED <<mapVars, storageVars>>
    BY <1>8 DEF FlushFinish, FlushEnd, FlushFail
  <2> QED BY <1>1, <2>1 DEF FlushReturn, mapVars, storageVars
<1>9. CASE ProcessGone
  BY <1>9 DEF ProcessGone, FlushGone, EmptyMap, storageVars
<1>10. CASE UNCHANGED <<mapVars, checkpoints, pc, key, counters>>
  BY <1>10 DEF mapVars
<1>11. NextDay \/ (HkPrune /\ UNCHANGED <<mapVars, flushVars>>) =>
         UNCHANGED <<mapVars, checkpoints, pc, key, counters>>
  BY DEF NextDay, HkPrune, PruneDaily, storageVars, flushVars, flushLocals
<1>12. UNCHANGED <<mapVars, storageVars, pc, flushLocals>> =>
         UNCHANGED <<mapVars, checkpoints, pc, key, counters>>
  BY DEF storageVars, flushLocals
<1> HIDE DEF NothingInvented
<1> QED
  BY <1>2, <1>3, <1>4, <1>5, <1>6, <1>7, <1>8, <1>9, <1>10, <1>11, <1>12, StepKinds

(* On the first day a Flush adds to the totals and to that day, and the    *)
(* cutoff of a prune is that day too, so that nothing is deleted.          *)
LEMMA FirstDayStep ==
  ASSUME AccountingInv, CutoffNotAhead, FirstDayTotals, [Next]_vars
  PROVE  FirstDayTotals'
<1> USE DEF FirstDayTotals
<1>1. /\ totals \in [Keys -> [Fields -> Nat]]
      /\ daily \in [Keys -> [Dates -> [Fields -> Nat]]]
      /\ today \in Nat /\ 0 \in Dates /\ pruneCut \in Dates
  BY CalendarAssumption DEF AccountingInv, TypeOK, StorageTypeOK, Dates
<1>2. ASSUME NEW c \in Callers, FlushPersist(c), today' = today
      PROVE  FirstDayTotals'
  <2> SUFFICES ASSUME today = 0
               PROVE  pruneCut' = 0 /\ \A k \in Keys : totals'[k] = daily'[k][0]
    BY <1>2
  <2> DEFINE delta == CurrentDelta(c)
  <2>1. key[c] \in Keys /\ currentDateUTC[c] = 0
    BY <1>2 DEF AccountingInv, FlushLocalsOK, FlushPersist, DatesInOrder, Dates
  <2>2. \/ totals' = totals /\ daily' = daily
        \/ /\ totals' = [totals EXCEPT ![key[c]] = Plus(@, delta)]
           /\ daily' = [daily EXCEPT ![key[c]][0] = Plus(@, delta)]
    BY <1>2, <2>1 DEF FlushPersist, PersistAll, UpsertTotal, UpsertDaily
  <2>3. pruneCut' = 0
    BY <1>2 DEF FlushPersist
  <2> HIDE DEF delta
  <2>4. ASSUME NEW k \in Keys PROVE totals'[k] = daily'[k][0]
    <3>1. totals[k] = daily[k][0]
      OBVIOUS
    <3>2. CASE k = key[c]
      BY <1>1, <2>1, <2>2, <3>1, <3>2
    <3>3. CASE k # key[c]
      BY <1>1, <2>1, <2>2, <3>1, <3>3
    <3> QED BY <3>2, <3>3
  <2> QED BY <2>3, <2>4
<1>3. ASSUME HkPrune, today' = today PROVE FirstDayTotals'
  <2> SUFFICES ASSUME today = 0
               PROVE  pruneCut' = 0 /\ \A k \in Keys : totals'[k] = daily'[k][0]
    BY <1>3
  <2>1. hkCutoff = 0
    BY <1>3, CalendarAssumption
       DEF AccountingInv, TypeOK, HkTypeOK, HkPrune, CutoffNotAhead, PruneCutoffDate, Dates
  <2> QED BY <1>1, <1>3, <2>1 DEF HkPrune, PruneDaily
<1>4. CASE NextDay
  BY <1>1, <1>4 DEF NextDay
<1>5. CASE UNCHANGED <<totals, daily, pruneCut, today>>
  BY <1>5
<1>6. \/ Packet \/ FirstPacket \/ FirstPacketRace \/ ProcessGone
      \/ UNCHANGED <<storageVars, today>>
      => UNCHANGED <<totals, daily, pruneCut, today>>
  BY DEF Packet, FirstPacket, FirstPacketRace, ProcessGone, storageVars
<1>7. ASSUME NEW c \in Callers,
             FlushFinish(c) \/ (FlushGetCheckpoint(c) /\ today' = today)
      PROVE  UNCHANGED <<totals, daily, pruneCut, today>>
  BY <1>7 DEF FlushFinish, FlushEnd, FlushFail, FlushGetCheckpoint, storageVars
<1>8. ASSUME NEW c \in Callers, NEW k \in Keys, FlushNext(c, k), today' = today
      PROVE  UNCHANGED <<totals, daily, pruneCut, today>>
  BY <1>8 DEF FlushNext, storageVars
<1> HIDE DEF FirstDayTotals
<1> QED BY <1>2, <1>3, <1>4, <1>5, <1>6, <1>7, <1>8, StepKinds

(* A Flush leaves the row of its day within the new checkpoint: a delta    *)
(* that is accepted is what the entry has grown by, or the whole entry     *)
(* where the row is empty.                                                 *)
LEMMA PersistRow ==
  ASSUME AccountingInv, RowsBounded, NEW c \in Callers, FlushPersist(c)
  PROVE  AtLeast(counters[c], daily'[key[c]][currentDateUTC[c]])
<1> DEFINE k == key[c]
           r == counters[c]
           date == currentDateUTC[c]
           row == checkpoints[k]
           delta == CurrentDelta(c)
<1>1. k \in Keys /\ r \in Counter /\ date \in Dates
  BY DEF AccountingInv, FlushLocalsOK, FlushPersist
<1>2. cp[c] = row /\ row \in Checkpoint \union {Nil}
  BY <1>1 DEF AccountingInv, CheckpointIsFresh, FlushPersist, TypeOK, StorageTypeOK
<1>3. daily[k][date] \in [Fields -> Nat] /\ daily \in [Keys -> [Dates -> [Fields -> Nat]]]
  BY <1>1 DEF AccountingInv, TypeOK, StorageTypeOK
<1>4. \/ delta = Zero /\ daily' = daily
      \/ daily' = [daily EXCEPT ![k][date] = Plus(@, delta)]
  BY DEF FlushPersist, PersistAll, UpsertDaily
<1>5. \/ daily'[k][date] = daily[k][date] /\ delta = Zero
      \/ daily'[k][date] = Plus(daily[k][date], delta)
  BY <1>1, <1>3, <1>4
<1>6. Bindable(r) /\ Bindable(delta)
  BY DEF FlushPersist, Accepted
<1>7. CASE row # Nil /\ row.date = date
  <2>1. row.last \in Counter /\ Bindable(row.last)
    BY <1>2, <1>7, CheckpointLast
  <2>2. delta = Sub(r, row.last)
    BY <1>2, <1>7 DEF CurrentDelta, Delta
  <2>3. AtLeast(row.last, daily[k][date])
    BY <1>1, <1>7 DEF RowsBounded
  <2>4. Plus(row.last, delta) = r /\ (delta = Zero => r = row.last)
    BY <1>1, <1>6, <2>1, <2>2, AcceptedDelta
  <2>5. delta \in [Fields -> Nat] /\ row.last \in [Fields -> Nat]
    BY <1>1, <2>1, <2>2, SubType, CounterIsNat
  <2> HIDE DEF k, r, date, row, delta
  <2>6. AtLeast(Plus(row.last, delta), Plus(daily[k][date], delta))
    BY <1>3, <2>3, <2>5 DEF AtLeast, Plus
  <2> QED BY <1>5, <2>3, <2>4, <2>6 DEF k, r, date
<1>8. CASE ~(row # Nil /\ row.date = date)
  <2>1. delta = r
    BY <1>2, <1>8 DEF CurrentDelta, Delta
  <2>2. row # Nil => row.date \in Dates /\ row.date <= date
    BY <1>1, <1>2, CheckpointLast DEF AccountingInv, DatesInOrder, FlushPersist
  <2>3. daily[k][date] = Zero
    BY <1>1, <1>8, <2>2 DEF AccountingInv, LaterDaysEmpty, Dates
  <2>4. r \in [Fields -> Nat]
    BY <1>1, CounterIsNat
  <2> HIDE DEF k, r, date, row, delta
  <2>5. AtLeast(r, Zero) /\ AtLeast(r, Plus(Zero, r))
    BY <2>4 DEF AtLeast, Plus, Zero
  <2> QED BY <1>5, <2>1, <2>3, <2>5 DEF k, r, date
<1> QED BY <1>7, <1>8

(* Only a Flush makes a row larger, and a prune makes it Zero. *)
LEMMA RowsBoundedStep ==
  ASSUME AccountingInv, NothingInvented, RowsBounded, [Next]_vars
  PROVE  RowsBounded'
<1>1. /\ counted \in [Keys -> [Fields -> Nat]]
      /\ checkpoints \in [Keys -> Checkpoint \union {Nil}]
      /\ daily \in [Keys -> [Dates -> [Fields -> Nat]]]
  BY MapBounds DEF AccountingInv, TypeOK, MapTypeOK, StorageTypeOK
<1>2. \A k \in Keys : checkpoints[k] # Nil =>
        checkpoints[k].date \in Dates /\ checkpoints[k].last \in [Fields -> Nat]
  BY <1>1, CheckpointLast, CounterIsNat
<1>3. CASE Packet
  <2>1. PICK k \in Keys, f \in Fields : Count(k, f, 1)
    BY <1>3 DEF Packet
  <2>2. \A j \in Keys : AtLeast(counted'[j], counted[j])
    BY <2>1, CountedGrows DEF AccountingInv, TypeOK
  <2>3. counted' \in [Keys -> [Fields -> Nat]]
    BY <1>1, <2>1 DEF Count
  <2>4. \A j \in Keys, d \in Dates : AtLeast(counted'[j], daily[j][d])
    <3> SUFFICES ASSUME NEW j \in Keys, NEW d \in Dates
                 PROVE  AtLeast(counted'[j], daily[j][d])
      OBVIOUS
    <3>1. /\ counted[j] \in [Fields -> Nat] /\ counted'[j] \in [Fields -> Nat]
          /\ daily[j][d] \in [Fields -> Nat]
      BY <1>1, <2>3
    <3>2. AtLeast(counted'[j], counted[j]) /\ AtLeast(counted[j], daily[j][d])
      BY <2>2 DEF RowsBounded
    <3> QED BY <3>1, <3>2, AtLeastTrans
  <2>5. UNCHANGED <<checkpoints, daily>>
    BY <1>3 DEF Packet, storageVars
  <2> QED BY <2>4, <2>5 DEF RowsBounded
<1>4. ASSUME NEW c \in Callers, FlushPersist(c), UNCHANGED mapVars
      PROVE  RowsBounded'
  <2>1. /\ key[c] \in Keys /\ currentDateUTC[c] \in Dates /\ counters[c] \in [Fields -> Nat]
        /\ AtLeast(counted[key[c]], counters[c])
    BY <1>4, CounterIsNat
       DEF AccountingInv, FlushLocalsOK, FlushPersist, NothingInvented, AtHand
  <2>2. /\ checkpoints' = [checkpoints EXCEPT ![key[c]] =
                              [date |-> currentDateUTC[c], last |-> counters[c]]]
        /\ \A k \in Keys, d \in Dates :
             (k # key[c] \/ d # currentDateUTC[c]) => daily'[k][d] = daily[k][d]
    BY <1>4, PersistEffect
  <2>3. AtLeast(counters[c], daily'[key[c]][currentDateUTC[c]])
    BY <1>4, PersistRow
  <2>4. daily' \in [Keys -> [Dates -> [Fields -> Nat]]]
    BY <1>4, TypeStep DEF AccountingInv, TypeOK, StorageTypeOK
  <2>5. AtLeast(counted[key[c]], daily'[key[c]][currentDateUTC[c]])
    <3>1. /\ counted[key[c]] \in [Fields -> Nat]
          /\ daily'[key[c]][currentDateUTC[c]] \in [Fields -> Nat]
      BY <1>1, <2>1, <2>4
    <3> QED BY <2>1, <2>3, <3>1, AtLeastTrans
  <2>6. counted' = counted
    BY <1>4 DEF mapVars
  <2> SUFFICES ASSUME NEW k \in Keys
               PROVE  /\ checkpoints'[k] # Nil =>
                           AtLeast(checkpoints'[k].last, daily'[k][checkpoints'[k].date])
                      /\ \A d \in Dates : AtLeast(counted'[k], daily'[k][d])
    BY DEF RowsBounded
  <2>7. CASE k = key[c]
    <3>1. checkpoints'[k].date = currentDateUTC[c] /\ checkpoints'[k].last = counters[c]
      BY <1>1, <2>1, <2>2, <2>7
    <3> QED BY <2>2, <2>3, <2>5, <2>6, <2>7, <3>1 DEF RowsBounded
  <2>8. CASE k # key[c]
    <3>1. checkpoints'[k] = checkpoints[k]
      BY <1>1, <2>1, <2>2, <2>8
    <3> QED BY <1>2, <2>2, <2>6, <2>8, <3>1 DEF RowsBounded
  <2> QED BY <2>7, <2>8
<1>5. ASSUME HkPrune, UNCHANGED mapVars PROVE RowsBounded'
  <2>1. /\ UNCHANGED <<checkpoints, counted>>
        /\ \A k \in Keys, d \in Dates : daily'[k][d] \in {Zero, daily[k][d]}
    BY <1>1, <1>5 DEF HkPrune, PruneDaily, mapVars
  <2> QED BY <1>1, <1>2, <2>1, AtLeastZero DEF RowsBounded
<1>6. CASE UNCHANGED <<counted, checkpoints, daily>>
  BY <1>6 DEF RowsBounded
<1>7. \/ FirstPacket \/ FirstPacketRace \/ NextDay \/ ProcessGone
      \/ UNCHANGED <<mapVars, storageVars>>
      => UNCHANGED <<counted, checkpoints, daily>>
  BY DEF FirstPacket, FirstPacketRace, Insert, Overwrite, NextDay, ProcessGone,
         mapVars, storageVars
<1>8. ASSUME NEW c \in Callers,
             \/ FlushFinish(c)
             \/ FlushGetCheckpoint(c) /\ UNCHANGED mapVars
             \/ (\E k \in Keys : FlushNext(c, k)) /\ UNCHANGED mapVars
      PROVE  UNCHANGED <<mapVars, storageVars>>
  BY <1>8 DEF FlushFinish, FlushEnd, FlushFail, FlushGetCheckpoint, FlushNext
<1> QED BY <1>3, <1>4, <1>5, <1>6, <1>7, <1>8, StepKinds

(***************************************************************************)
(* The inductive invariant of the traffic: whatever is replaced, wraps,    *)
(* fails or restarts, no entry, no value in the hands of a Flush, no       *)
(* checkpoint and no daily row exceeds what was counted.                   *)
(***************************************************************************)
THEOREM TrafficInvariant == Spec => []TrafficInv
<1>1. Init => TrafficInv
  <2> SUFFICES ASSUME Init PROVE TrafficInv
    OBVIOUS
  <2>1. NothingInvented
    BY DEF Init, MapInit, EmptyMap, StorageInit, FlushInit, NothingInvented, AtHand
  <2>2. FirstDayTotals
    BY CalendarAssumption DEF Init, StorageInit, FirstDayTotals, Dates
  <2>3. RowsBounded
    <3>1. /\ \A k \in Keys : checkpoints[k] = Nil /\ counted[k] = Zero
          /\ \A k \in Keys, d \in Dates : daily[k][d] = Zero
      BY DEF Init, MapInit, StorageInit
    <3>2. AtLeast(Zero, Zero)
      BY DEF AtLeast, Zero
    <3> QED BY <3>1, <3>2 DEF RowsBounded
  <2> QED BY <2>1, <2>2, <2>3 DEF TrafficInv
<1>2. AccountingInv /\ CutoffNotAhead /\ TrafficInv /\ [Next]_vars => TrafficInv'
  BY NothingInventedStep, FirstDayStep, RowsBoundedStep DEF TrafficInv
<1> QED BY <1>1, <1>2, AccountingInvariant, CutoffInvariant, PTL DEF Spec

(***************************************************************************)
(* However often the process fails, dies and starts again with empty       *)
(* counters, no daily row exceeds what was ever counted for its key, and   *)
(* on the first day of the database neither does the total, which is that  *)
(* day's row.                                                              *)
(***************************************************************************)
THEOREM RowsBoundedByTraffic == Spec => []RowsWithinTraffic
<1>1. TrafficInv => RowsWithinTraffic
  <2> SUFFICES ASSUME TrafficInv, NEW k \in Keys
               PROVE  /\ \A d \in Dates : AtLeast(counted[k], daily[k][d])
                      /\ today = 0 => AtLeast(counted[k], totals[k])
    BY DEF RowsWithinTraffic
  <2>1. \A d \in Dates : AtLeast(counted[k], daily[k][d])
    BY DEF TrafficInv, RowsBounded
  <2>2. today = 0 => totals[k] = daily[k][0]
    BY DEF TrafficInv, FirstDayTotals
  <2> QED BY <2>1, <2>2, CalendarAssumption DEF Dates
<1> QED BY <1>1, TrafficInvariant, PTL

-------------------------------------------------------------------------------
(* A reported success is complete. *)

(* An entry that is not replaced only grows, as long as its words do not   *)
(* wrap.                                                                   *)
LEMMA EntryGrows ==
  ASSUME MapTypeOK, NothingInvented, MaxCounted < Word,
         NEW k \in Keys, NEW f \in Fields, Count(k, f, 1),
         NEW j \in Keys, raw[j] # Nil
  PROVE  raw'[j] \in Counter /\ AtLeast(raw'[j], raw[j])
<1>1. /\ raw' = [raw EXCEPT ![k][f] = Add64(@, 1)]
      /\ raw[k] \in Counter /\ raw[j] \in Counter
      /\ AtLeast(counted[k], raw[k])
      /\ counted[k][f] + 1 <= MaxCounted
      /\ raw \in [Keys -> Counter \union {Nil}]
      /\ counted[k][f] \in Nat
  BY MapBounds DEF Count, MapTypeOK, NothingInvented
<1>2. raw[k][f] \in Uint /\ counted[k][f] >= raw[k][f]
  BY <1>1 DEF AtLeast, Counter
<1>3. Add64(raw[k][f], 1) = raw[k][f] + 1 /\ raw[k][f] + 1 \in Uint
  BY <1>1, <1>2, MapBounds, HalfAssumption DEF Add64, Uint, Word
<1>4. CASE j # k
  BY <1>1, <1>4, CounterIsNat, AtLeastFacts
<1>5. CASE j = k
  <2>1. raw'[k] = [raw[k] EXCEPT ![f] = raw[k][f] + 1]
    BY <1>1, <1>3
  <2>2. raw'[k] \in Counter
    BY <1>1, <1>3, <2>1 DEF Counter
  <2>3. \A g \in Fields : raw'[k][g] >= raw[k][g]
    BY <1>1, <1>3, <2>1, HalfAssumption DEF Counter, Uint, Word
  <2> QED BY <1>5, <2>2, <2>3 DEF AtLeast
<1> QED BY <1>4, <1>5

(* Steps that leave alone all that ReportInv speaks of, the map apart. *)
LEMMA ReportFrame ==
  ASSUME ReportInv, OwedIsInMap',
         UNCHANGED <<checkpoints, pc, todo, key, counters, lastFlush, flushErr, owed>>,
         main' \notin LastPhases => main \notin LastPhases
  PROVE  ReportInv'
<1>1. NoEntryForgotten'
  BY DEF ReportInv, NoEntryForgotten, AtHand, Stored
<1>2. SuccessIsComplete'
  BY DEF ReportInv, SuccessIsComplete, Stored, LastPhases
<1> QED BY <1>1, <1>2 DEF ReportInv

LEMMA PacketKeepsReport ==
  ASSUME AccountingInv, NothingInvented, MaxCounted < Word, ReportInv,
         Packet \/ FirstPacket \/ FirstPacketRace
  PROVE  ReportInv'
<1>1. /\ raw \in [Keys -> Counter \union {Nil}]
      /\ owed \in [Keys -> Counter \union {Nil}]
      /\ main' = main
      /\ UNCHANGED <<checkpoints, pc, todo, key, counters, lastFlush, flushErr>>
  BY DEF AccountingInv, TypeOK, MapTypeOK, FlushTypeOK, Packet, FirstPacket,
         FirstPacketRace, storageVars, flushVars, flushLocals
<1>2. CASE Packet
  <2>1. PICK k \in Keys, f \in Fields : Count(k, f, 1)
    BY <1>2 DEF Packet
  <2>2. owed' = owed
    BY <1>2 DEF Packet, flushVars
  <2>3. ASSUME NEW j \in Keys, owed[j] # Nil
        PROVE  raw'[j] # Nil /\ AtLeast(raw'[j], owed[j])
    <3>1. raw[j] \in Counter /\ AtLeast(raw[j], owed[j]) /\ owed[j] \in Counter
      BY <1>1, <2>3 DEF ReportInv, OwedIsInMap
    <3>2. raw'[j] \in Counter /\ AtLeast(raw'[j], raw[j])
      BY <2>1, <3>1, EntryGrows, NilIsNoCounter DEF AccountingInv, TypeOK
    <3> QED BY <3>1, <3>2, AtLeastTrans, CounterIsNat, NilIsNoCounter
  <2>4. OwedIsInMap'
    BY <2>2, <2>3 DEF OwedIsInMap
  <2> QED BY <1>1, <2>2, <2>4, ReportFrame
<1>3. CASE FirstPacket
  <2>1. PICK k \in Keys : raw[k] = Nil /\ raw' = [raw EXCEPT ![k] = Zero]
    BY <1>3 DEF FirstPacket, Insert
  <2>2. owed' = owed
    BY <1>3 DEF FirstPacket, flushVars
  <2>3. OwedIsInMap'
    BY <1>1, <2>1, <2>2 DEF ReportInv, OwedIsInMap
  <2> QED BY <1>1, <2>2, <2>3, ReportFrame
<1>4. CASE FirstPacketRace
  <2>1. PICK k \in Keys : /\ raw' = [raw EXCEPT ![k] = Zero]
                          /\ owed' = [owed EXCEPT ![k] = Nil]
    BY <1>4 DEF FirstPacketRace, Overwrite
  <2>2. OwedIsInMap'
    BY <1>1, <2>1 DEF ReportInv, OwedIsInMap
  <2>3. \A j \in Keys : owed'[j] # Nil => owed[j] = owed'[j]
    BY <1>1, <2>1
  <2>4. NoEntryForgotten'
    BY <1>1, <2>3 DEF ReportInv, NoEntryForgotten, AtHand, Stored
  <2>5. SuccessIsComplete'
    BY <1>1, <2>3 DEF ReportInv, SuccessIsComplete, Stored
  <2> QED BY <2>2, <2>4, <2>5 DEF ReportInv
<1> QED BY <1>2, <1>3, <1>4

(* A Flush begins: it owes the map as it is. *)
LEMMA BeginKeepsReport ==
  ASSUME AccountingInv, ReportInv, NEW c \in Callers, FlushBegin(c),
         IF c = "loop" THEN loop = "select" /\ main' = main
                       ELSE loop = "exited" /\ main' = "finalFlush",
         UNCHANGED <<mapVars, storageVars>>
  PROVE  ReportInv'
<1>1. /\ raw \in [Keys -> Counter \union {Nil}]
      /\ pc \in [Callers -> {"idle", "next", "checkpoint", "persist"}]
      /\ DOMAIN todo = Callers
  BY DEF AccountingInv, TypeOK, MapTypeOK, FlushTypeOK
<1>2. /\ pc' = [pc EXCEPT ![c] = "next"]
      /\ todo' = [todo EXCEPT ![c] = Present]
      /\ owed' = raw /\ raw' = raw
  BY DEF FlushBegin, mapVars
<1>3. OwedIsInMap'
  BY <1>1, <1>2, AtLeastFacts, CounterIsNat DEF OwedIsInMap
<1>4. \A b \in Callers : b # c => pc[b] = "idle"
  BY DEF AccountingInv, FlushOwner, Callers
<1>5. NoEntryForgotten'
  BY <1>1, <1>2, <1>4 DEF NoEntryForgotten, AtHand, Present
<1>6. SuccessIsComplete'
  BY <1>1, <1>2 DEF SuccessIsComplete, Callers
<1> QED BY <1>3, <1>5, <1>6 DEF ReportInv

(* A Flush goes on: an entry that leaves todo is at hand, and one that is  *)
(* no longer at hand is stored.                                            *)
LEMMA FlushKeepsReport ==
  ASSUME AccountingInv, ReportInv, NEW c \in Callers,
         UNCHANGED <<mapVars, main>>,
         \/ \E k \in Keys : FlushNext(c, k)
         \/ FlushGetCheckpoint(c)
         \/ FlushPersist(c)
  PROVE  ReportInv'
<1>1. /\ raw \in [Keys -> Counter \union {Nil}]
      /\ pc \in [Callers -> {"idle", "next", "checkpoint", "persist"}]
      /\ DOMAIN todo = Callers /\ DOMAIN key = Callers /\ DOMAIN counters = Callers
      /\ checkpoints \in [Keys -> Checkpoint \union {Nil}]
  BY DEF AccountingInv, TypeOK, MapTypeOK, FlushTypeOK, StorageTypeOK
<1>2. owed' = owed /\ pc[c] # "idle" /\ pc'[c] # "idle"
  BY <1>1 DEF FlushNext, FlushGetCheckpoint, FlushPersist
<1>3. OwedIsInMap'
  BY <1>2 DEF ReportInv, OwedIsInMap, mapVars
<1>4. SuccessIsComplete'
  BY <1>1, <1>2 DEF AccountingInv, FlushOwner, SuccessIsComplete, Callers
<1>5. \A b \in Callers : b # c => pc[b] = "idle"
  BY <1>2, OneFlush DEF AccountingInv
<1>6. \A b \in Callers : pc'[b] # "idle" => b = c
  BY <1>1, <1>5 DEF FlushNext, FlushGetCheckpoint, FlushPersist
<1> SUFFICES ASSUME NEW k \in Keys, owed[k] # Nil
             PROVE  /\ AtHand(c, k)' => AtLeast(counters'[c], owed[k])
                    /\ k \in todo'[c] \/ AtHand(c, k)' \/ Stored(k)'
  BY <1>2, <1>3, <1>4, <1>6 DEF ReportInv, NoEntryForgotten
<1>7. /\ AtHand(c, k) => AtLeast(counters[c], owed[k])
      /\ k \in todo[c] \/ AtHand(c, k) \/ Stored(k)
      /\ AtLeast(raw[k], owed[k])
  BY <1>2 DEF ReportInv, NoEntryForgotten, OwedIsInMap
<1>8. ASSUME NEW j \in Keys, FlushNext(c, j)
      PROVE  /\ AtHand(c, k)' => AtLeast(counters'[c], owed[k])
             /\ k \in todo'[c] \/ AtHand(c, k)' \/ Stored(k)'
  <2>1. /\ pc[c] = "next" /\ pc'[c] = "checkpoint"
        /\ key'[c] = j /\ counters'[c] = raw[j] /\ todo'[c] = todo[c] \ {j}
        /\ checkpoints' = checkpoints
    BY <1>1, <1>8 DEF FlushNext, storageVars
  <2> QED BY <1>2, <1>7, <2>1 DEF AtHand, Stored
<1>9. CASE FlushGetCheckpoint(c)
  <2>1. /\ pc[c] = "checkpoint" /\ pc'[c] = "persist"
        /\ UNCHANGED <<key, counters, todo, checkpoints>>
    BY <1>1, <1>9 DEF FlushGetCheckpoint, storageVars
  <2> QED BY <1>2, <1>7, <2>1 DEF AtHand, Stored
<1>10. CASE FlushPersist(c)
  <2> DEFINE row == [date |-> currentDateUTC[c], last |-> counters[c]]
  <2>1. /\ pc[c] = "persist" /\ pc'[c] = "next" /\ todo' = todo
        /\ checkpoints' = [checkpoints EXCEPT ![key[c]] = row]
    BY <1>1, <1>10, PersistEffect DEF FlushPersist
  <2>2. row \in Checkpoint
    BY <1>10, HalfAssumption DEF AccountingInv, FlushLocalsOK, FlushPersist,
       Accepted, Bindable, Counter, Uint, Word, Checkpoint
  <2>3. CASE key[c] = k
    <3>1. checkpoints'[k] = row /\ row # Nil /\ AtLeast(row.last, owed[k])
      BY <1>1, <1>7, <2>1, <2>2, <2>3, NilIsNoCheckpoint DEF AtHand
    <3> QED BY <1>2, <2>1, <3>1 DEF AtHand, Stored
  <2>4. CASE key[c] # k
    <3>1. checkpoints'[k] = checkpoints[k]
      BY <1>1, <2>1, <2>4
    <3> QED BY <1>2, <1>7, <2>1, <2>4, <3>1 DEF AtHand, Stored
  <2> QED BY <2>3, <2>4
<1> QED BY <1>8, <1>9, <1>10

(* A Flush returns: a success has visited everything, a failure of the     *)
(* loop's sets flushErr, and main's own leads to the end of the process.   *)
LEMMA FinishKeepsReport ==
  ASSUME AccountingInv, ReportInv, "iter" \notin Faults,
         NEW c \in Callers, FlushFinish(c)
  PROVE  ReportInv'
<1>1. /\ pc \in [Callers -> {"idle", "next", "checkpoint", "persist"}]
      /\ DOMAIN todo = Callers /\ DOMAIN key = Callers /\ DOMAIN counters = Callers
  BY DEF AccountingInv, TypeOK, FlushTypeOK
<1>2. /\ FlushReturn(c) /\ pc[c] # "idle"
      /\ UNCHANGED <<raw, checkpoints, owed>>
      /\ main' = IF c = "main" THEN "detach" ELSE main
  BY DEF FlushFinish, FlushEnd, FlushFail, FlushCanFail, FlushReturn, mapVars,
         storageVars
<1>3. OwedIsInMap'
  BY <1>2 DEF ReportInv, OwedIsInMap
<1>4. \A b \in Callers : pc'[b] = "idle"
  BY <1>1, <1>2, OneFlush DEF FlushReturn, AccountingInv
<1>5. NoEntryForgotten'
  BY <1>4 DEF NoEntryForgotten
<1>6. SuccessIsComplete'
  <2>1. CASE c = "main"
    BY <1>2, <2>1 DEF SuccessIsComplete
  <2>2. CASE c # "main" /\ FlushFail(c)
    BY <2>2 DEF FlushFail, SuccessIsComplete, Callers
  <2>3. CASE FlushEnd(c)
    <3>1. pc[c] = "next" /\ todo[c] = {}
      BY <2>3 DEF FlushEnd, IterDone
    <3>2. \A k \in Keys : owed[k] # Nil => Stored(k)
      BY <3>1 DEF ReportInv, NoEntryForgotten, AtHand
    <3> QED BY <1>2, <3>2 DEF SuccessIsComplete, Stored
  <2> QED BY <2>1, <2>2, <2>3 DEF FlushFinish
<1> QED BY <1>3, <1>5, <1>6 DEF ReportInv

LEMMA ReportStep ==
  ASSUME AccountingInv, NothingInvented, ReportInv, [Next]_vars,
         "iter" \notin Faults, MaxCounted < Word
  PROVE  ReportInv'
<1>1. CASE ProcessGone
  BY <1>1 DEF ProcessGone, FlushGone, EmptyMap, ReportInv, OwedIsInMap,
              NoEntryForgotten, SuccessIsComplete
<1>2. ASSUME raw' = raw,
             UNCHANGED <<checkpoints, pc, todo, key, counters, lastFlush, flushErr, owed>>,
             main' \notin LastPhases => main \notin LastPhases
      PROVE  ReportInv'
  <2>1. OwedIsInMap'
    BY <1>2 DEF ReportInv, OwedIsInMap
  <2> QED BY <1>2, <2>1, ReportFrame
<1>3. CASE NextDay
  BY <1>2, <1>3 DEF NextDay, mapVars, storageVars, flushVars, flushLocals
<1>4. ASSUME HkPrune, UNCHANGED <<mapVars, flushVars>>,
             main' \notin LastPhases => main \notin LastPhases
      PROVE  ReportInv'
  BY <1>2, <1>4 DEF HkPrune, PruneDaily, mapVars, flushVars, flushLocals
<1>5. ASSUME UNCHANGED <<mapVars, storageVars, pc, flushLocals, lastFlush, flushErr, owed>>,
             main' \notin LastPhases => main \notin LastPhases
      PROVE  ReportInv'
  BY <1>2, <1>5 DEF mapVars, storageVars, flushLocals
<1> QED
  BY <1>1, <1>3, <1>4, <1>5, PacketKeepsReport, BeginKeepsReport, FlushKeepsReport,
     FinishKeepsReport, StepKinds

(***************************************************************************)
(* While the daemon runs and reports no error, everything that was in the  *)
(* map when the latest Flush began is in the database: no entry is skipped *)
(* by the iterator, by a failure of another key, or by packets, midnight   *)
(* and prunes in between.  Two conditions: the iterator does not fail      *)
(* (run iterator shows what happens if it does), and a field counts less   *)
(* than 2^64, so that the words of the map do not wrap.                    *)
(***************************************************************************)
THEOREM SuccessMeansStored ==
  ASSUME "iter" \notin Faults, MaxCounted < Word
  PROVE  Spec => []ReportedFlushIsComplete
<1>1. Init => ReportInv
  BY DEF Init, FlushInit, EmptyMap, ReportInv, OwedIsInMap, NoEntryForgotten,
         SuccessIsComplete
<1>2. AccountingInv /\ TrafficInv /\ ReportInv /\ [Next]_vars => ReportInv'
  BY ReportStep DEF TrafficInv
<1>3. ReportInv => ReportedFlushIsComplete
  BY DEF ReportInv, SuccessIsComplete, Stored, ReportedFlushIsComplete, FlushIdle, Callers
<1> QED BY <1>1, <1>2, <1>3, AccountingInvariant, TrafficInvariant, PTL DEF Spec

-------------------------------------------------------------------------------
(* The totals and the days. *)

LEMMA DaysType ==
  ASSUME StorageTypeOK, NEW k \in Keys, NEW f \in Fields
  PROVE  /\ IsFiniteSet(Dates)
         /\ DaysOf(k, f) \in [Dates -> Nat]
         /\ SumOver(DaysOf(k, f)) \in Nat
         /\ totals[k][f] \in Nat
<1>1. IsFiniteSet(Dates)
  BY FS_Interval, CalendarAssumption DEF Dates
<1>2. DaysOf(k, f) \in [Dates -> Nat] /\ totals[k][f] \in Nat
  BY DEF DaysOf, StorageTypeOK
<1> QED BY <1>1, <1>2, SumType

(* The transaction of a Flush adds the same to the total and to a day. *)
LEMMA PersistAddsToBoth ==
  ASSUME AccountingInv, AccountingInv', NEW c \in Callers, FlushPersist(c),
         NEW k \in Keys, NEW f \in Fields
  PROVE  \E n \in Nat : /\ totals'[k][f] = totals[k][f] + n
                        /\ SumOver(DaysOf(k, f)') = SumOver(DaysOf(k, f)) + n
<1>0. StorageTypeOK /\ StorageTypeOK'
  BY DEF AccountingInv, TypeOK
<1> DEFINE date == currentDateUTC[c]
           delta == CurrentDelta(c)
<1>1. key[c] \in Keys /\ date \in Dates
  BY DEF AccountingInv, FlushLocalsOK, FlushPersist
<1>2. totals[k][f] \in Nat
  BY <1>0, DaysType
<1>3. CASE totals' = totals /\ daily' = daily
  <2>1. DaysOf(k, f)' = DaysOf(k, f) /\ totals'[k][f] = totals[k][f] + 0
    BY <1>3, <1>2 DEF DaysOf
  <2>2. SumOver(DaysOf(k, f)') = SumOver(DaysOf(k, f)) + 0
    BY <1>0, <2>1, DaysType
  <2> QED BY <2>1, <2>2
<1>4. CASE /\ totals' = [totals EXCEPT ![key[c]] = Plus(@, delta)]
           /\ daily' = [daily EXCEPT ![key[c]][date] = Plus(@, delta)]
  <2>1. CASE k # key[c]
    <3>1. totals'[k] = totals[k] /\ daily'[k] = daily[k]
      BY <1>0, <1>1, <1>4, <2>1 DEF StorageTypeOK
    <3>2. DaysOf(k, f)' = DaysOf(k, f) /\ totals'[k][f] = totals[k][f] + 0
      BY <1>2, <3>1 DEF DaysOf
    <3>3. SumOver(DaysOf(k, f)') = SumOver(DaysOf(k, f)) + 0
      BY <1>0, <3>2, DaysType
    <3> QED BY <3>2, <3>3
  <2>2. CASE k = key[c]
    <3>1. delta \in Counter /\ delta[f] \in Nat
      <4>1. cp[c] \in Checkpoint \union {Nil} /\ counters[c] \in Counter
        BY DEF AccountingInv, TypeOK, FlushTypeOK, FlushLocalsOK, FlushPersist
      <4>2. delta \in Counter
        BY <4>1, DeltaType DEF CurrentDelta
      <4> QED BY <4>2, CounterIsNat
    <3> HIDE DEF delta, date
    <3>2. totals'[k][f] = totals[k][f] + delta[f]
      BY <1>0, <1>1, <1>4, <2>2 DEF StorageTypeOK, Plus
    <3>3. /\ daily'[k][date][f] = daily[k][date][f] + delta[f]
          /\ \A d \in Dates \ {date} : daily'[k][d] = daily[k][d]
      BY <1>0, <1>1, <1>4, <2>2 DEF StorageTypeOK, Plus
    <3>4. /\ DaysOf(k, f)'[date] = DaysOf(k, f)[date] + delta[f]
          /\ \A d \in Dates \ {date} : DaysOf(k, f)'[d] = DaysOf(k, f)[d]
      BY <1>1, <3>3 DEF DaysOf
    <3>5. DaysOf(k, f) \in [Dates -> Nat] /\ DaysOf(k, f)' \in [Dates -> Nat]
      BY <1>0, DaysType DEF DaysOf, StorageTypeOK
    <3>6. SumOver(DaysOf(k, f)') = SumOver(DaysOf(k, f)) + delta[f]
      <4> DEFINE a == DaysOf(k, f)
                 b == DaysOf(k, f)'
      <4> HIDE DEF a, b
      <4> QED BY <1>0, <1>1, <3>1, <3>4, <3>5, DaysType, SumGrows DEF a, b
    <3> QED BY <3>1, <3>2, <3>6
  <2> QED BY <2>1, <2>2
<1> QED BY <1>3, <1>4 DEF FlushPersist, PersistAll, UpsertTotal, UpsertDaily

LEMMA PersistKeepsCover ==
  ASSUME AccountingInv, AccountingInv', TotalsCoverDaily,
         NEW c \in Callers, FlushPersist(c)
  PROVE  TotalsCoverDaily'
<1> SUFFICES ASSUME NEW k \in Keys, NEW f \in Fields
             PROVE  IF pruneCut' = 0 THEN totals'[k][f] = SumOver(DaysOf(k, f)')
                                     ELSE totals'[k][f] >= SumOver(DaysOf(k, f)')
  BY DEF TotalsCoverDaily
<1>1. pruneCut' = pruneCut /\ StorageTypeOK
  BY DEF FlushPersist, AccountingInv, TypeOK
<1>2. PICK n \in Nat : /\ totals'[k][f] = totals[k][f] + n
                       /\ SumOver(DaysOf(k, f)') = SumOver(DaysOf(k, f)) + n
  BY PersistAddsToBoth
<1>3. SumOver(DaysOf(k, f)) \in Nat /\ totals[k][f] \in Nat
  BY <1>1, DaysType
<1>4. IF pruneCut = 0 THEN totals[k][f] = SumOver(DaysOf(k, f))
                      ELSE totals[k][f] >= SumOver(DaysOf(k, f))
  BY DEF TotalsCoverDaily
<1> QED BY <1>1, <1>2, <1>3, <1>4

(* A prune only takes from the days, and nothing when its cutoff is zero. *)
LEMMA PruneTakesFromDays ==
  ASSUME AccountingInv, AccountingInv', HkPrune, NEW k \in Keys, NEW f \in Fields
  PROVE  /\ totals' = totals
         /\ SumOver(DaysOf(k, f)') \in Nat
         /\ SumOver(DaysOf(k, f)') <= SumOver(DaysOf(k, f))
         /\ pruneCut' = 0 => pruneCut = 0 /\ DaysOf(k, f)' = DaysOf(k, f)
<1>0. StorageTypeOK /\ StorageTypeOK' /\ hkCutoff \in Dates /\ pruneCut \in Dates
  BY DEF HkPrune, AccountingInv, TypeOK, HkTypeOK, StorageTypeOK
<1>1. /\ totals' = totals
      /\ pruneCut' = IF hkCutoff > pruneCut THEN hkCutoff ELSE pruneCut
      /\ \A d \in Dates : daily'[k][d] = IF d < hkCutoff THEN Zero ELSE daily[k][d]
  BY DEF HkPrune, PruneDaily
<1>2. DaysOf(k, f) \in [Dates -> Nat] /\ DaysOf(k, f)' \in [Dates -> Nat] /\ IsFiniteSet(Dates)
  <2>1. DaysOf(k, f)' \in [Dates -> Nat]
    BY <1>0 DEF DaysOf, StorageTypeOK
  <2> QED BY <1>0, <2>1, DaysType
<1>3. \A d \in Dates : DaysOf(k, f)'[d] <= DaysOf(k, f)[d]
  <2>1. \A d \in Dates : DaysOf(k, f)'[d] = IF d < hkCutoff THEN 0 ELSE DaysOf(k, f)[d]
    BY <1>1 DEF DaysOf, Zero
  <2> QED BY <1>2, <2>1
<1>4. SumOver(DaysOf(k, f)') <= SumOver(DaysOf(k, f))
  <2> DEFINE a == DaysOf(k, f)
             b == DaysOf(k, f)'
  <2> HIDE DEF a, b
  <2> QED BY <1>2, <1>3, SumMonotone DEF a, b
<1>5. ASSUME pruneCut' = 0 PROVE pruneCut = 0 /\ DaysOf(k, f)' = DaysOf(k, f)
  <2>1. hkCutoff = 0 /\ pruneCut = 0
    BY <1>0, <1>1, <1>5 DEF Dates
  <2>2. \A d \in Dates : daily'[k][d] = daily[k][d]
    BY <1>1, <2>1 DEF Dates
  <2> QED BY <2>1, <2>2 DEF DaysOf
<1>6. SumOver(DaysOf(k, f)') \in Nat
  <2> DEFINE b == DaysOf(k, f)'
  <2> HIDE DEF b
  <2> QED BY <1>2, SumType DEF b
<1> QED BY <1>1, <1>4, <1>5, <1>6

LEMMA PruneKeepsCover ==
  ASSUME AccountingInv, AccountingInv', TotalsCoverDaily, HkPrune
  PROVE  TotalsCoverDaily'
<1> SUFFICES ASSUME NEW k \in Keys, NEW f \in Fields
             PROVE  IF pruneCut' = 0 THEN totals'[k][f] = SumOver(DaysOf(k, f)')
                                     ELSE totals'[k][f] >= SumOver(DaysOf(k, f)')
  BY DEF TotalsCoverDaily
<1>1. StorageTypeOK
  BY DEF AccountingInv, TypeOK
<1>2. /\ totals' = totals /\ SumOver(DaysOf(k, f)') \in Nat
      /\ SumOver(DaysOf(k, f)') <= SumOver(DaysOf(k, f))
      /\ pruneCut' = 0 => pruneCut = 0 /\ DaysOf(k, f)' = DaysOf(k, f)
  BY PruneTakesFromDays
<1>3. SumOver(DaysOf(k, f)) \in Nat /\ totals[k][f] \in Nat
  BY <1>1, DaysType
<1>4. IF pruneCut = 0 THEN totals[k][f] = SumOver(DaysOf(k, f))
                      ELSE totals[k][f] >= SumOver(DaysOf(k, f))
  BY DEF TotalsCoverDaily
<1> QED BY <1>2, <1>3, <1>4

(***************************************************************************)
(* The all-time totals cover the days, for ever, and equal their sum until *)
(* housekeeping deletes a day: there is no way to fail, die or be          *)
(* restarted that leaves an amount in one table and not in the other.      *)
(***************************************************************************)
THEOREM TotalsCoverDays == Spec => []TotalsCoverDaily
<1>1. Init => TotalsCoverDaily
  <2> SUFFICES ASSUME Init, NEW k \in Keys, NEW f \in Fields
               PROVE  pruneCut = 0 /\ totals[k][f] = SumOver(DaysOf(k, f))
    BY DEF TotalsCoverDaily
  <2>1. DaysOf(k, f) \in [Dates -> Nat] /\ \A d \in Dates : DaysOf(k, f)[d] = 0
    BY DEF Init, StorageInit, DaysOf, Zero
  <2>2. SumOver(DaysOf(k, f)) = 0
    BY <2>1, SumOfZeros
  <2> QED BY <2>2 DEF Init, StorageInit, Zero
<1>2. AccountingInv /\ AccountingInv' /\ TotalsCoverDaily /\ [Next]_vars
        => TotalsCoverDaily'
  <2> SUFFICES ASSUME AccountingInv, AccountingInv', TotalsCoverDaily, [Next]_vars
               PROVE  TotalsCoverDaily'
    OBVIOUS
  <2>1. CASE UNCHANGED <<totals, daily, pruneCut>>
    BY <2>1 DEF TotalsCoverDaily, DaysOf
  <2>2. \/ \E c \in Callers : FlushPersist(c)
        \/ HkPrune
        \/ UNCHANGED <<totals, daily, pruneCut>>
    BY StepKinds DEF Packet, FirstPacket, FirstPacketRace, NextDay, FlushNext,
       FlushGetCheckpoint, FlushFinish, FlushEnd, FlushFail, ProcessGone, storageVars
  <2> QED BY <2>1, <2>2, PersistKeepsCover, PruneKeepsCover
<1> QED BY <1>1, <1>2, AccountingInvariant, PTL DEF Spec

==============================================================================
