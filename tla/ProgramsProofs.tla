---------------------------- MODULE ProgramsProofs ----------------------------
(***************************************************************************)
(* Proofs about TrafficPrograms, for every number of CPUs, keys and map    *)
(* entries and every length of a packet.                                   *)
(***************************************************************************)
EXTENDS TrafficPrograms, SumsProofs, FiniteSetTheorems, TLAPS

LEMMA ZeroIsCounter == Zero \in Counter
  BY HalfAssumption DEF Zero, Counter, Uint, Word

LEMMA Add64Type ==
  ASSUME NEW x \in Uint, NEW n \in 1 .. MaxLen
  PROVE  Add64(x, n) \in Uint
  BY HalfAssumption, ProgramBounds DEF Add64, Uint, Word

(* The four adds of a packet. *)
LEMMA AddsAre ==
  ASSUME NEW p \in Packets
  PROVE  /\ p.len \in 1 .. MaxLen /\ 1 \in 1 .. MaxLen
         /\ Adds(p)[1][1] = "bytes" /\ Adds(p)[1][2] = p.len
         /\ Adds(p)[2][1] = "packets" /\ Adds(p)[2][2] = 1
         /\ Adds(p)[3][1] \in {"ingress_bytes", "egress_bytes"} /\ Adds(p)[3][2] = p.len
         /\ Adds(p)[4][1] \in {"ingress_packets", "egress_packets"} /\ Adds(p)[4][2] = 1
<1>0. 1 \in 1 .. MaxLen
  BY HalfAssumption, ProgramBounds DEF Word
<1>1. p.len \in 1 .. MaxLen
  <2>1. p.len \in Lens
    BY DEF Packets
  <2>2. \A l \in Lens : l \in 1 .. MaxLen
    BY ProgramBounds
  <2> QED BY <2>1, <2>2, Zenon
<1>2. /\ Adds(p)[1] = <<"bytes", p.len>> /\ Adds(p)[2] = <<"packets", 1>>
      /\ Adds(p)[3] = <<IF p.dir = "ingress" THEN "ingress_bytes" ELSE "egress_bytes", p.len>>
      /\ Adds(p)[4] = <<IF p.dir = "ingress" THEN "ingress_packets" ELSE "egress_packets", 1>>
  BY DEF Adds
<1> QED BY <1>0, <1>1, <1>2

(* A program adds to four different fields, the second time one packet. *)
LEMMA AddsFacts ==
  ASSUME NEW p \in Packets, NEW i \in 1 .. 4
  PROVE  /\ Adds(p)[i][1] \in Fields
         /\ Adds(p)[i][2] \in 1 .. MaxLen
         /\ \A j \in 1 .. 4 : Adds(p)[j][1] = Adds(p)[i][1] => j = i
         /\ Adds(p)[i][1] = "packets" <=> i = 2
         /\ i = 2 => Adds(p)[i][2] = 1
<1>1. i = 1 \/ i = 2 \/ i = 3 \/ i = 4
  OBVIOUS
<1>2. \A j \in 1 .. 4 : j = 1 \/ j = 2 \/ j = 3 \/ j = 4
  OBVIOUS
<1> QED BY <1>1, <1>2, AddsAre, FieldNames

(* The add a program is about to make. *)
LEMMA NextAdd ==
  ASSUME ProgramsInv, NEW c \in CPUs, pc[c] = "add"
  PROVE  /\ pkt[c] \in Packets /\ ptr[c] \in Elems /\ done[c] \in 0 .. 3
         /\ Adds(pkt[c])[done[c] + 1][1] \in Fields
         /\ Adds(pkt[c])[done[c] + 1][2] \in 1 .. MaxLen
<1>1. pkt[c] \in Packets /\ ptr[c] \in Elems /\ done[c] \in 0 .. 3
  BY DEF ProgramsInv, ProgramsTypeOK, ProgramPlace
<1>2. done[c] + 1 \in 1 .. 4
  BY <1>1
<1> QED BY <1>1, <1>2, AddsFacts

(* What adding n to field f of element e leaves in val and counted. *)
LEMMA AddToEffect ==
  ASSUME ProgramsTypeOK, NEW e \in Elems, NEW f \in Fields, NEW n \in 1 .. MaxLen,
         AddTo(e, f, n)
  PROVE  /\ val' \in [Elems -> Counter]
         /\ counted' \in [Keys -> [Fields -> Nat]]
         /\ \A d \in Elems : d # e => val'[d] = val[d]
         /\ val'[e] = [val[e] EXCEPT ![f] = Add64(@, n)]
         /\ \A k \in Keys : elem[k] # e => counted'[k] = counted[k]
         /\ \A k \in Keys : elem[k] = e => counted'[k] = [counted[k] EXCEPT ![f] = @ + n]
<1>1. val \in [Elems -> Counter] /\ counted \in [Keys -> [Fields -> Nat]] /\ n \in Nat
  BY ProgramBounds DEF ProgramsTypeOK
<1>2. val' = [val EXCEPT ![e] = [val[e] EXCEPT ![f] = Add64(val[e][f], n)]]
  BY DEF AddTo
<1>7. counted' = [k \in Keys |->
        IF elem[k] = e THEN [counted[k] EXCEPT ![f] = counted[k][f] + n] ELSE counted[k]]
  BY DEF AddTo
<1>3. Add64(val[e][f], n) \in Uint
  BY <1>1, Add64Type DEF Counter
<1>4. [val[e] EXCEPT ![f] = Add64(val[e][f], n)] \in Counter
  BY <1>1, <1>3 DEF Counter
<1>5. val' \in [Elems -> Counter]
  BY <1>1, <1>2, <1>4
<1>6. counted' \in [Keys -> [Fields -> Nat]]
  BY <1>1, <1>7
<1> QED BY <1>1, <1>2, <1>5, <1>6, <1>7

-------------------------------------------------------------------------------
LEMMA ProgramsTypeStep ==
  ASSUME ProgramsInv, [Next]_vars
  PROVE  ProgramsTypeOK' /\ ProgramPlace'
<1>0. ProgramsTypeOK /\ ProgramPlace /\ OneOwner
  BY DEF ProgramsInv
<1> USE DEF mapState, histVars, progVars
<1>1. ASSUME NEW c \in CPUs, NEW p \in Packets, Arrive(c, p)
      PROVE  ProgramsTypeOK' /\ ProgramPlace'
  <2>1. p.key \in Keys
    BY DEF Packets
  <2>2. sent' \in 0 .. MaxPackets /\ arrived' \in [Keys -> Nat]
    BY <1>0, <1>1, <2>1, ProgramBounds DEF Arrive, ProgramsTypeOK
  <2>3. pkt' \in [CPUs -> Packets \union {Nil}] /\ pkt' = [pkt EXCEPT ![c] = p]
    BY <1>0, <1>1 DEF Arrive, ProgramsTypeOK
  <2>4. CASE elem[p.key] # Nil
    <3>1. pc' = [pc EXCEPT ![c] = "add"] /\ ptr' = [ptr EXCEPT ![c] = elem[p.key]]
          /\ elem[p.key] \in Elems
      BY <1>0, <1>1, <2>1, <2>4 DEF Arrive, Found, ProgramsTypeOK
    <3> QED BY <1>0, <1>1, <2>2, <2>3, <3>1 DEF Arrive, ProgramsTypeOK, ProgramPlace
  <2>5. CASE elem[p.key] = Nil
    <3>1. pc' = [pc EXCEPT ![c] = "update"] /\ ptr' = ptr /\ pc[c] = "idle"
      BY <1>1, <2>5 DEF Arrive
    <3> QED BY <1>0, <1>1, <2>2, <2>3, <3>1 DEF Arrive, ProgramsTypeOK, ProgramPlace
  <2> QED BY <2>4, <2>5
<1>2. ASSUME NEW c \in CPUs, Update(c) PROVE ProgramsTypeOK' /\ ProgramPlace'
  <2>1. /\ pc[c] = "update" /\ pc' = [pc EXCEPT ![c] = "lookup"]
        /\ UNCHANGED <<pkt, ptr, done, counted, arrived, sent>>
    BY <1>2 DEF Update, UpdateWith
  <2>2. pkt[c].key \in Keys /\ spare[c] \in Elems
    BY <1>0, <2>1 DEF ProgramPlace, Packets, ProgramsTypeOK
  <2>3. /\ elem' \in [Keys -> Elems \union {Nil}] /\ val' \in [Elems -> Counter]
        /\ free' \subseteq Slots /\ spare' \in [CPUs -> Elems] /\ replaced' \subseteq Keys
    <3>1. CASE Replace(c, pkt[c].key, Zero)
      BY <1>0, <2>2, <3>1, ZeroIsCounter DEF Replace, PutElem, ProgramsTypeOK
    <3>2. ASSUME NEW e \in free, Create(pkt[c].key, e, Zero)
          PROVE  <2>3
      <4>1. e \in Elems
        BY <1>0 DEF ProgramsTypeOK, Elems
      <4> QED BY <1>0, <2>2, <3>2, <4>1, ZeroIsCounter DEF Create, PutElem, ProgramsTypeOK
    <3>3. CASE NoRoom(pkt[c].key)
      BY <1>0, <3>3 DEF NoRoom, ProgramsTypeOK
    <3> QED BY <1>2, <3>1, <3>2, <3>3 DEF Update, UpdateWith
  <2> QED BY <1>0, <2>1, <2>3 DEF ProgramsTypeOK, ProgramPlace
<1>3. ASSUME NEW c \in CPUs, LookupAgain(c) PROVE ProgramsTypeOK' /\ ProgramPlace'
  <2>1. /\ pc[c] = "lookup" /\ UNCHANGED <<mapState, histVars>>
        /\ pkt[c] \in Packets /\ pkt[c].key \in Keys
    BY <1>0, <1>3 DEF LookupAgain, ProgramPlace, Packets
  <2>2. CASE elem[pkt[c].key] # Nil
    <3>1. /\ pc' = [pc EXCEPT ![c] = "add"] /\ ptr' = [ptr EXCEPT ![c] = elem[pkt[c].key]]
          /\ elem[pkt[c].key] \in Elems /\ UNCHANGED <<pkt, done>>
      BY <1>0, <1>3, <2>1, <2>2 DEF LookupAgain, Found, ProgramsTypeOK
    <3> QED BY <1>0, <2>1, <3>1 DEF ProgramsTypeOK, ProgramPlace
  <2>3. CASE elem[pkt[c].key] = Nil
    BY <1>0, <1>3, <2>1, <2>3 DEF LookupAgain, Return, ProgramsTypeOK, ProgramPlace
  <2> QED BY <2>2, <2>3
<1>4. ASSUME NEW c \in CPUs, Add(c) PROVE ProgramsTypeOK' /\ ProgramPlace'
  <2>1. pc[c] = "add" /\ UNCHANGED <<elem, free, spare, arrived, sent, replaced>>
    BY <1>4 DEF Add
  <2>2. val' \in [Elems -> Counter] /\ counted' \in [Keys -> [Fields -> Nat]]
    <3>1. AddTo(ptr[c], Adds(pkt[c])[done[c] + 1][1], Adds(pkt[c])[done[c] + 1][2])
      BY <1>4 DEF Add
    <3> QED BY <1>0, <2>1, <3>1, NextAdd, AddToEffect
  <2>3. CASE done[c] = 3
    <3>1. /\ pc' = [pc EXCEPT ![c] = "idle"] /\ pkt' = [pkt EXCEPT ![c] = Nil]
          /\ ptr' = [ptr EXCEPT ![c] = Nil] /\ done' = [done EXCEPT ![c] = 0]
      BY <1>4, <2>3 DEF Add, Return
    <3> QED BY <1>0, <2>1, <2>2, <3>1 DEF ProgramsTypeOK, ProgramPlace
  <2>4. CASE done[c] # 3
    <3>1. done' = [done EXCEPT ![c] = done[c] + 1] /\ UNCHANGED <<pc, pkt, ptr>>
      BY <1>4, <2>4 DEF Add
    <3>2. done[c] + 1 \in 0 .. 3
      BY <1>0, <2>4 DEF ProgramsTypeOK
    <3> QED BY <1>0, <2>1, <2>2, <3>1, <3>2 DEF ProgramsTypeOK, ProgramPlace
  <2> QED BY <2>3, <2>4
<1>5. CASE UNCHANGED vars
  BY <1>0, <1>5 DEF vars, ProgramsTypeOK, ProgramPlace
<1> QED BY <1>1, <1>2, <1>3, <1>4, <1>5 DEF Next

-------------------------------------------------------------------------------
(* The programs are the only ones to change the map, by an update. *)
LEMMA MapStep ==
  ASSUME [Next]_vars
  PROVE  UNCHANGED <<elem, free, spare>> \/ \E c \in CPUs : Update(c)
  BY DEF Next, Arrive, LookupAgain, Add, vars, mapState

(* The key, the spare element and the owners of an update. *)
LEMMA UpdateFacts ==
  ASSUME ProgramsInv, NEW c \in CPUs, Update(c)
  PROVE  /\ pc[c] = "update" /\ pkt[c] \in Packets /\ pkt[c].key \in Keys
         /\ spare[c] \in Elems /\ spare[c] # Nil
<1>1. pc[c] = "update"
  BY DEF Update, UpdateWith
<1>2. pkt[c] \in Packets
  BY <1>1 DEF ProgramsInv, ProgramPlace
<1>3. spare[c] \in Elems
  BY DEF ProgramsInv, ProgramsTypeOK
<1> QED BY <1>1, <1>2, <1>3, ElementNames DEF Packets, Elems

LEMMA OwnerStep ==
  ASSUME ProgramsInv, [Next]_vars
  PROVE  OneOwner' /\ RoomLeft'
<1>0. ProgramsTypeOK /\ OneOwner /\ RoomLeft
  BY DEF ProgramsInv
<1>1. CASE UNCHANGED <<elem, free, spare>>
  BY <1>0, <1>1 DEF OneOwner, RoomLeft, Entries
<1>2. ASSUME NEW c \in CPUs, Update(c) PROVE OneOwner' /\ RoomLeft'
  <2> DEFINE k == pkt[c].key
  <2>0. k \in Keys /\ spare[c] \in Elems /\ spare[c] # Nil
    BY <1>2, UpdateFacts
  <2>00. elem \in [Keys -> Elems \union {Nil}] /\ spare \in [CPUs -> Elems] /\ free \subseteq Slots
         /\ IsFiniteSet(free) /\ Cardinality(free) \in Nat /\ Cardinality(Entries) \in Nat
         /\ IsFiniteSet(Entries)
    <3>1. elem \in [Keys -> Elems \union {Nil}] /\ spare \in [CPUs -> Elems] /\ free \subseteq Slots
          /\ IsFiniteSet(Entries)
      BY <1>0 DEF ProgramsTypeOK, RoomLeft
    <3>2. IsFiniteSet(free)
      BY <3>1, ProgramBounds, FS_Subset
    <3> QED BY <3>1, <3>2, FS_CardinalityType
  <2> HIDE DEF k
  <2>1. CASE Replace(c, k, Zero)
    <3>1. /\ elem[k] # Nil /\ elem' = [elem EXCEPT ![k] = spare[c]]
          /\ spare' = [spare EXCEPT ![c] = elem[k]] /\ free' = free
      BY <2>1 DEF Replace, PutElem
    <3>2. Entries' = Entries
      BY <2>0, <2>00, <3>1 DEF Entries
    <3>3. RoomLeft'
      BY <1>0, <3>1, <3>2 DEF RoomLeft
    <3>4. OneOwner'
      BY <1>0, <2>0, <2>00, <3>1 DEF OneOwner
    <3> QED BY <3>3, <3>4
  <2>2. ASSUME NEW e \in free, Create(k, e, Zero) PROVE OneOwner' /\ RoomLeft'
    <3>1. /\ elem[k] = Nil /\ elem' = [elem EXCEPT ![k] = e]
          /\ free' = free \ {e} /\ spare' = spare
      BY <2>2 DEF Create, PutElem
    <3>2. e # Nil
      BY <2>00, ElementNames
    <3>3. Entries' = Entries \union {k} /\ k \notin Entries
      BY <2>0, <2>00, <3>1, <3>2 DEF Entries
    <3>4. Cardinality(Entries') = Cardinality(Entries) + 1 /\ IsFiniteSet(Entries')
      BY <2>00, <3>3, FS_AddElement
    <3>5. Cardinality(free') = Cardinality(free) - 1
      BY <2>00, <3>1, FS_RemoveElement
    <3>6. RoomLeft'
      BY <1>0, <2>00, <3>4, <3>5 DEF RoomLeft
    <3>7. OneOwner'
      BY <1>0, <2>0, <2>00, <3>1 DEF OneOwner
    <3> QED BY <3>6, <3>7
  <2>3. CASE NoRoom(k)
    BY <1>1, <2>3 DEF NoRoom, mapState
  <2> QED BY <1>2, <2>1, <2>2, <2>3 DEF Update, UpdateWith, k
<1> QED BY <1>1, <1>2, MapStep

-------------------------------------------------------------------------------
LEMMA Scale ==
  ASSUME NEW m \in Nat, NEW a \in Nat, NEW b \in Nat, b <= a
  PROVE  m * b <= m * a
  OBVIOUS

LEMMA ScaleNext ==
  ASSUME NEW m \in Nat, NEW a \in Nat
  PROVE  m * (a + 1) = m * a + m /\ m * a \in Nat
  OBVIOUS

(* The cardinalities of sets of CPUs. *)
LEMMA CPUSets ==
  ASSUME NEW S \in SUBSET CPUs
  PROVE  /\ IsFiniteSet(S) /\ Cardinality(S) \in Nat
         /\ \A T \in SUBSET S : Cardinality(T) <= Cardinality(S)
         /\ \A c : Cardinality(S \union {c}) <= Cardinality(S) + 1
         /\ \A c \in CPUs \ S : Cardinality(S \union {c}) = Cardinality(S) + 1
         /\ \A c \in S : Cardinality(S \ {c}) = Cardinality(S) - 1
<1>1. IsFiniteSet(S)
  BY ProgramBounds, FS_Subset
<1>2. Cardinality(S) \in Nat
  BY <1>1, FS_CardinalityType
<1>3. ASSUME NEW T \in SUBSET S PROVE Cardinality(T) <= Cardinality(S)
  BY <1>1, FS_Subset
<1>4. ASSUME NEW c PROVE Cardinality(S \union {c}) = IF c \in S THEN Cardinality(S)
                                                     ELSE Cardinality(S) + 1
  BY <1>1, FS_AddElement
<1>5. ASSUME NEW c \in S PROVE Cardinality(S \ {c}) = Cardinality(S) - 1
  BY <1>1, FS_RemoveElement
<1> QED BY <1>1, <1>2, <1>3, <1>4, <1>5

LEMMA CountBoundedStep ==
  ASSUME ProgramsInv, [Next]_vars
  PROVE  CountBounded'
<1>0. ProgramsTypeOK /\ ProgramPlace /\ CountBounded
  BY DEF ProgramsInv
<1>1. MaxLen \in Nat /\ sent \in Nat
  BY <1>0, HalfAssumption, ProgramBounds DEF ProgramsTypeOK, Word
<1> SUFFICES ASSUME NEW k \in Keys, NEW f \in Fields
             PROVE  counted'[k][f] + MaxLen * Cardinality(StillAdds(f)') <= MaxLen * sent'
  BY DEF CountBounded
<1> DEFINE S == StillAdds(f)
           T == StillAdds(f)'
<1>2. S \in SUBSET CPUs /\ T \in SUBSET CPUs
  BY DEF StillAdds
<1>3. /\ Cardinality(S) \in Nat /\ Cardinality(T) \in Nat
      /\ T \subseteq S => Cardinality(T) <= Cardinality(S)
      /\ \A c : T \subseteq S \union {c} => Cardinality(T) <= Cardinality(S) + 1
      /\ \A c \in S : T \subseteq S \ {c} => Cardinality(T) <= Cardinality(S) - 1
  <2>1. Cardinality(S) \in Nat /\ Cardinality(T) \in Nat
    BY <1>2, CPUSets
  <2>2. T \subseteq S => Cardinality(T) <= Cardinality(S)
    BY <1>2, CPUSets
  <2>3. ASSUME NEW c, T \subseteq S \union {c} PROVE Cardinality(T) <= Cardinality(S) + 1
    <3>1. IsFiniteSet(S \union {c}) /\ Cardinality(S \union {c}) <= Cardinality(S) + 1
      BY <1>2, CPUSets, FS_AddElement
    <3>2. Cardinality(T) <= Cardinality(S \union {c})
      BY <2>3, <3>1, FS_Subset
    <3>3. Cardinality(S \union {c}) \in Nat
      BY <3>1, FS_CardinalityType
    <3> QED BY <2>1, <3>1, <3>2, <3>3
  <2>4. ASSUME NEW c \in S, T \subseteq S \ {c} PROVE Cardinality(T) <= Cardinality(S) - 1
    <3>1. Cardinality(S \ {c}) = Cardinality(S) - 1 /\ S \ {c} \in SUBSET CPUs
      BY <1>2, CPUSets
    <3>2. Cardinality(T) <= Cardinality(S \ {c})
      BY <2>4, <3>1, CPUSets
    <3> QED BY <3>1, <3>2
  <2> QED BY <2>1, <2>2, <2>3, <2>4
<1>4. counted[k][f] \in Nat /\ counted[k][f] + MaxLen * Cardinality(S) <= MaxLen * sent
  BY <1>0 DEF ProgramsTypeOK, CountBounded
<1>5. ASSUME T \subseteq S, counted'[k][f] = counted[k][f], sent' = sent
      PROVE  counted'[k][f] + MaxLen * Cardinality(T) <= MaxLen * sent'
  <2>1. MaxLen * Cardinality(T) <= MaxLen * Cardinality(S)
    BY <1>1, <1>3, <1>5, Scale
  <2>2. MaxLen * Cardinality(T) \in Nat /\ MaxLen * Cardinality(S) \in Nat /\ MaxLen * sent \in Nat
    BY <1>1, <1>3, ScaleNext
  <2> HIDE DEF S, T
  <2> QED BY <1>4, <1>5, <2>1, <2>2
<1>6. ASSUME NEW c \in CPUs, NEW p \in Packets, Arrive(c, p)
      PROVE  counted'[k][f] + MaxLen * Cardinality(T) <= MaxLen * sent'
  <2>1. sent' = sent + 1 /\ counted' = counted
    BY <1>6 DEF Arrive
  <2>2. T \subseteq S \union {c}
    <3>1. \A d \in CPUs : d # c => pc'[d] = pc[d] /\ pkt'[d] = pkt[d] /\ done'[d] = done[d]
      BY <1>0, <1>6 DEF Arrive, Found, ProgramsTypeOK
    <3> QED BY <3>1 DEF StillAdds
  <2>3. Cardinality(T) <= Cardinality(S) + 1
    BY <1>3, <2>2
  <2>4. MaxLen * Cardinality(T) <= MaxLen * (Cardinality(S) + 1)
    BY <1>1, <1>3, <2>3, Scale
  <2>5. /\ MaxLen * (Cardinality(S) + 1) = MaxLen * Cardinality(S) + MaxLen
        /\ MaxLen * (sent + 1) = MaxLen * sent + MaxLen
        /\ MaxLen * Cardinality(T) \in Nat /\ MaxLen * Cardinality(S) \in Nat /\ MaxLen * sent \in Nat
    BY <1>1, <1>3, ScaleNext
  <2> HIDE DEF S, T
  <2> QED BY <1>1, <1>4, <2>1, <2>4, <2>5
<1>7. ASSUME NEW c \in CPUs, Update(c) \/ LookupAgain(c)
      PROVE  counted'[k][f] + MaxLen * Cardinality(T) <= MaxLen * sent'
  <2>1. sent' = sent /\ counted' = counted
    BY <1>7 DEF Update, UpdateWith, LookupAgain, histVars
  <2>2. /\ \A d \in CPUs : d # c => pc'[d] = pc[d] /\ pkt'[d] = pkt[d] /\ done'[d] = done[d]
        /\ pc[c] \in {"update", "lookup"}
    BY <1>0, <1>7 DEF Update, UpdateWith, LookupAgain, Found, Return, ProgramsTypeOK
  <2>3. T \subseteq S
    BY <2>2 DEF StillAdds
  <2> QED BY <1>5, <2>1, <2>3
<1>8. ASSUME NEW c \in CPUs, Add(c)
      PROVE  counted'[k][f] + MaxLen * Cardinality(T) <= MaxLen * sent'
  <2> DEFINE g == Adds(pkt[c])[done[c] + 1][1]
             n == Adds(pkt[c])[done[c] + 1][2]
  <2>1. /\ pc[c] = "add" /\ sent' = sent /\ AddTo(ptr[c], g, n)
        /\ \A d \in CPUs : d # c => pc'[d] = pc[d] /\ pkt'[d] = pkt[d] /\ done'[d] = done[d]
    BY <1>0, <1>8 DEF Add, Return, ProgramsTypeOK
  <2>2. \/ pc'[c] = "idle"
        \/ pc'[c] = "add" /\ pkt'[c] = pkt[c] /\ done'[c] = done[c] + 1
    BY <1>0, <1>8 DEF Add, Return, ProgramsTypeOK
  <2>3. /\ pkt[c] \in Packets /\ ptr[c] \in Elems /\ done[c] \in 0 .. 3
        /\ g \in Fields /\ n \in 1 .. MaxLen
    BY <2>1, NextAdd
  <2>4. /\ elem[k] # ptr[c] => counted'[k] = counted[k]
        /\ elem[k] = ptr[c] => counted'[k] = [counted[k] EXCEPT ![g] = @ + n]
    <3> HIDE DEF g, n
    <3> QED BY <2>1 DEF AddTo
  <2>5. T \subseteq S
    <3>1. ASSUME c \in T PROVE c \in S
      <4>1. PICK i \in (done[c] + 2) .. 4 : Adds(pkt[c])[i][1] = f
        BY <2>2, <2>3, <3>1 DEF StillAdds
      <4>2. i \in (done[c] + 1) .. 4
        BY <2>3
      <4> QED BY <2>1, <4>1, <4>2 DEF StillAdds
    <3>2. \A d \in CPUs : d # c /\ d \in T => d \in S
      BY <2>1 DEF StillAdds
    <3> QED BY <1>2, <3>1, <3>2
  <2>6. CASE f # g
    <3>1. counted'[k][f] = counted[k][f]
      BY <1>0, <2>3, <2>4, <2>6 DEF ProgramsTypeOK
    <3> QED BY <1>5, <2>1, <2>5, <3>1
  <2>7. CASE f = g
    <3>1. c \in S
      <4>1. done[c] + 1 \in (done[c] + 1) .. 4
        BY <2>3
      <4> QED BY <2>1, <2>7, <4>1 DEF StillAdds
    <3>2. c \notin T
      <4> SUFFICES ASSUME c \in T PROVE FALSE
        OBVIOUS
      <4>1. PICK i \in (done[c] + 2) .. 4 : Adds(pkt[c])[i][1] = f
        BY <2>2, <2>3 DEF StillAdds
      <4>2. i \in 1 .. 4 /\ done[c] + 1 \in 1 .. 4 /\ i # done[c] + 1
        BY <2>3
      <4> QED BY <2>3, <2>7, <4>1, <4>2, AddsFacts
    <3>3. Cardinality(T) <= Cardinality(S) - 1
      BY <1>3, <2>5, <3>1, <3>2
    <3>4. Cardinality(T) + 1 <= Cardinality(S)
      BY <1>3, <3>3
    <3>5. MaxLen * (Cardinality(T) + 1) <= MaxLen * Cardinality(S)
      BY <1>1, <1>3, <3>4, Scale
    <3>6. /\ MaxLen * (Cardinality(T) + 1) = MaxLen * Cardinality(T) + MaxLen
          /\ MaxLen * Cardinality(T) \in Nat /\ MaxLen * Cardinality(S) \in Nat /\ MaxLen * sent \in Nat
      BY <1>1, <1>3, ScaleNext
    <3>7. counted'[k][f] \in Nat /\ counted'[k][f] <= counted[k][f] + MaxLen
      BY <1>0, <1>1, <2>3, <2>4, <2>7 DEF ProgramsTypeOK
    <3> HIDE DEF S, T
    <3> QED BY <1>1, <1>4, <2>1, <3>5, <3>6, <3>7
  <2> QED BY <2>6, <2>7
<1>9. CASE UNCHANGED vars
  <2>1. T \subseteq S /\ counted'[k][f] = counted[k][f] /\ sent' = sent
    BY <1>9 DEF vars, histVars, progVars, StillAdds
  <2> QED BY <1>5, <2>1
<1> QED BY <1>6, <1>7, <1>8, <1>9 DEF Next

LEMMA ProgramsStep ==
  ASSUME ProgramsInv, [Next]_vars
  PROVE  ProgramsInv'
  BY ProgramsTypeStep, OwnerStep, CountBoundedStep DEF ProgramsInv

LEMMA ProgramsStart ==
  ASSUME Init
  PROVE  ProgramsInv
<1>0. MaxLen \in Nat /\ MaxPackets \in Nat /\ Zero \in [Fields -> Nat]
  BY HalfAssumption, ProgramBounds DEF Word, Zero
<1>1. ProgramsTypeOK /\ ProgramPlace
  BY <1>0, ZeroIsCounter DEF Init, ProgramsTypeOK, ProgramPlace, Elems
<1>2. OneOwner
  BY ElementNames DEF Init, OneOwner
<1>3. RoomLeft
  <2>1. Entries = {} /\ free = Slots
    BY DEF Init, Entries
  <2>2. Cardinality(Slots) \in Nat
    BY ProgramBounds, FS_CardinalityType
  <2> QED BY <2>1, <2>2, FS_EmptySet DEF RoomLeft
<1>4. CountBounded
  <2> SUFFICES ASSUME NEW k \in Keys, NEW f \in Fields
               PROVE  counted[k][f] + MaxLen * Cardinality(StillAdds(f)) <= MaxLen * sent
    BY DEF CountBounded
  <2>1. StillAdds(f) = {}
    BY DEF Init, StillAdds
  <2>2. counted[k][f] = 0 /\ sent = 0
    BY DEF Init, Zero
  <2>3. Cardinality(StillAdds(f)) = 0
    BY <2>1, FS_EmptySet
  <2> QED BY <1>0, <2>2, <2>3
<1> QED BY <1>1, <1>2, <1>3, <1>4 DEF ProgramsInv

(***************************************************************************)
(* The inductive invariant of the programs: types, the owners of the       *)
(* elements, the room in the map and the bound of what is counted.         *)
(***************************************************************************)
THEOREM ProgramsInvariant == Spec => []ProgramsInv
<1>1. Init => ProgramsInv
  BY ProgramsStart
<1>2. ProgramsInv /\ [Next]_vars => ProgramsInv'
  BY ProgramsStep
<1> QED BY <1>1, <1>2, PTL DEF Spec

-------------------------------------------------------------------------------
(* The view of user space, entry by entry. *)
LEMMA RawFacts ==
  ASSUME ProgramsTypeOK
  PROVE  /\ raw \in [Keys -> Counter \union {Nil}]
         /\ \A k \in Keys : elem[k] = Nil => raw[k] = Nil
         /\ \A k \in Keys : elem[k] # Nil => raw[k] = val[elem[k]] /\ raw[k] \in Counter
         /\ Map!Present = Entries
<1>1. \A k \in Keys : elem[k] # Nil => val[elem[k]] \in Counter
  BY DEF ProgramsTypeOK
<1>2. /\ raw \in [Keys -> Counter \union {Nil}]
      /\ \A k \in Keys : elem[k] = Nil => raw[k] = Nil
      /\ \A k \in Keys : elem[k] # Nil => raw[k] = val[elem[k]] /\ raw[k] \in Counter
  BY <1>1 DEF raw
<1>3. Map!Present = Entries
  BY <1>2, NilIsNoCounter DEF Map!Present, Entries
<1> QED BY <1>2, <1>3

(* An update creates an entry, replaces one by zeros, or does nothing. *)
LEMMA UpdateIsMapStep ==
  ASSUME ProgramsInv, ProgramsTypeOK', NEW c \in CPUs, Update(c)
  PROVE  [Map!MapNext]_(Map!mapVars)
<1> DEFINE k == pkt[c].key
<1>0. k \in Keys /\ spare[c] \in Elems /\ spare[c] # Nil /\ counted' = counted
  BY UpdateFacts DEF Update, UpdateWith
<1>1. /\ ProgramsTypeOK /\ OneOwner /\ RoomLeft
      /\ elem \in [Keys -> Elems \union {Nil}] /\ val \in [Elems -> Counter]
  BY DEF ProgramsInv, ProgramsTypeOK
<1>2. /\ raw \in [Keys -> Counter \union {Nil}]
      /\ \A l \in Keys : elem[l] = Nil => raw[l] = Nil
      /\ \A l \in Keys : elem[l] # Nil => raw[l] = val[elem[l]] /\ raw[l] # Nil
      /\ Map!Present = Entries
  BY <1>1, RawFacts, NilIsNoCounter
<1>3. /\ raw' \in [Keys -> Counter \union {Nil}]
      /\ \A l \in Keys : elem'[l] = Nil => raw'[l] = Nil
      /\ \A l \in Keys : elem'[l] # Nil => raw'[l] = val'[elem'[l]]
  BY DEF ProgramsTypeOK, raw
<1> HIDE DEF k
<1>4. ASSUME NEW e \in Elems, e # Nil, PutElem(k, e, Zero), \A l \in Keys : elem[l] # e
      PROVE  raw' = [raw EXCEPT ![k] = Zero]
  <2>1. /\ elem' = [elem EXCEPT ![k] = e] /\ val' = [val EXCEPT ![e] = Zero]
    BY <1>4 DEF PutElem
  <2>2. raw'[k] = Zero
    BY <1>0, <1>1, <1>3, <1>4, <2>1
  <2>3. ASSUME NEW l \in Keys, l # k PROVE raw'[l] = raw[l]
    <3>1. elem'[l] = elem[l]
      BY <1>1, <2>1, <2>3
    <3>2. elem[l] # Nil => val'[elem[l]] = val[elem[l]]
      BY <1>1, <1>4, <2>1
    <3> QED BY <1>2, <1>3, <3>1, <3>2
  <2> QED BY <1>0, <1>2, <1>3, <2>2, <2>3
<1>5. CASE Replace(c, k, Zero)
  <2>1. elem[k] # Nil /\ PutElem(k, spare[c], Zero)
    BY <1>5 DEF Replace
  <2>2. \A l \in Keys : elem[l] # spare[c]
    BY <1>1 DEF OneOwner
  <2>3. raw' = [raw EXCEPT ![k] = Zero] /\ raw[k] # Nil
    BY <1>0, <1>2, <1>4, <2>1, <2>2
  <2>4. Map!Overwrite(k)
    BY <1>0, <2>3 DEF Map!Overwrite, Map!Zero, Zero
  <2> QED BY <1>0, <2>4 DEF Map!MapNext
<1>6. ASSUME NEW e \in free, Create(k, e, Zero) PROVE [Map!MapNext]_(Map!mapVars)
  <2>1. /\ elem[k] = Nil /\ PutElem(k, e, Zero) /\ e \in Elems /\ e # Nil
    BY <1>1, <1>6, ElementNames DEF Create, ProgramsTypeOK, Elems
  <2>2. \A l \in Keys : elem[l] # e
    BY <1>1, <1>6 DEF OneOwner
  <2>3. raw' = [raw EXCEPT ![k] = Zero] /\ raw[k] = Nil
    BY <1>0, <1>2, <1>4, <2>1, <2>2
  <2>4. Cardinality(Map!Present) < Cardinality(Slots)
    <3>1. IsFiniteSet(free)
      BY <1>1, ProgramBounds, FS_Subset DEF ProgramsTypeOK
    <3>2. Cardinality(free) \in Nat /\ Cardinality(free) # 0
      BY <1>6, <3>1, FS_CardinalityType, FS_EmptySet
    <3>3. Cardinality(Entries) \in Nat /\ Cardinality(Entries) + Cardinality(free) = Cardinality(Slots)
      BY <1>1, FS_CardinalityType DEF RoomLeft
    <3> QED BY <1>2, <3>2, <3>3
  <2>6. Map!Cardinality(Map!Present) = Cardinality(Map!Present)
    BY DEF Map!Cardinality, Cardinality
  <2>5. Map!Insert(k)
    BY <1>0, <2>3, <2>4, <2>6 DEF Map!Insert, Map!Zero, Zero
  <2> QED BY <1>0, <2>5 DEF Map!MapNext
<1>7. CASE NoRoom(k)
  <2>1. raw' = raw
    BY <1>7 DEF NoRoom, mapState, raw
  <2> QED BY <1>0, <2>1 DEF Map!mapVars
<1> QED BY <1>5, <1>6, <1>7 DEF Update, UpdateWith, k

(* An add counts in the entry that has the element, if any has it still. *)
LEMMA AddIsMapStep ==
  ASSUME ProgramsInv, ProgramsTypeOK', CountBounded', NEW c \in CPUs, Add(c)
  PROVE  [Map!MapNext]_(Map!mapVars)
<1>1. PICK e \in Elems, f \in Fields, n \in 1 .. MaxLen : AddTo(e, f, n)
  <2>1. pc[c] = "add"
        /\ AddTo(ptr[c], Adds(pkt[c])[done[c] + 1][1], Adds(pkt[c])[done[c] + 1][2])
    BY DEF Add
  <2> QED BY <2>1, NextAdd
<1>0. AddTo(e, f, n) /\ elem' = elem /\ sent' = sent
  BY <1>1 DEF Add
<1>2. ProgramsTypeOK /\ OneOwner
  BY DEF ProgramsInv
<1>3. /\ \A d \in Elems : d # e => val'[d] = val[d]
      /\ val'[e] = [val[e] EXCEPT ![f] = Add64(@, n)]
      /\ \A k \in Keys : elem[k] # e => counted'[k] = counted[k]
      /\ \A k \in Keys : elem[k] = e => counted'[k] = [counted[k] EXCEPT ![f] = @ + n]
  BY <1>0, <1>1, <1>2, AddToEffect
<1>4. /\ elem \in [Keys -> Elems \union {Nil}]
      /\ counted \in [Keys -> [Fields -> Nat]] /\ counted' \in [Keys -> [Fields -> Nat]]
  BY <1>2 DEF ProgramsTypeOK
<1>5. /\ raw \in [Keys -> Counter \union {Nil}]
      /\ \A l \in Keys : elem[l] = Nil => raw[l] = Nil
      /\ \A l \in Keys : elem[l] # Nil => raw[l] = val[elem[l]] /\ raw[l] # Nil
  BY <1>2, RawFacts, NilIsNoCounter
<1>6. /\ raw' \in [Keys -> Counter \union {Nil}]
      /\ \A l \in Keys : elem[l] = Nil => raw'[l] = Nil
      /\ \A l \in Keys : elem[l] # Nil => raw'[l] = val'[elem[l]]
  BY <1>0 DEF ProgramsTypeOK, raw
<1>7. \A l \in Keys : elem[l] # e => raw'[l] = raw[l] /\ counted'[l] = counted[l]
  BY <1>3, <1>4, <1>5, <1>6
<1>8. CASE \A l \in Keys : elem[l] # e
  <2>1. raw' = raw /\ counted' = counted
    BY <1>4, <1>5, <1>6, <1>7, <1>8
  <2> QED BY <2>1 DEF Map!mapVars
<1>9. ASSUME NEW k \in Keys, elem[k] = e PROVE [Map!MapNext]_(Map!mapVars)
  <2>1. e # Nil
    BY <1>1, ElementNames DEF Elems
  <2>2. \A l \in Keys : l # k => elem[l] # e
    BY <1>2, <1>9, <2>1 DEF OneOwner
  <2>3. raw[k] # Nil /\ raw[k] = val[e] /\ raw'[k] = val'[e]
    BY <1>5, <1>6, <1>9, <2>1
  <2>4. raw' = [raw EXCEPT ![k][f] = Add64(@, n)]
    BY <1>3, <1>5, <1>6, <1>7, <2>2, <2>3
  <2>5. counted' = [counted EXCEPT ![k][f] = @ + n]
    BY <1>3, <1>4, <1>7, <1>9, <2>2
  <2>6. counted[k][f] + n <= MaxLen * MaxPackets /\ n \in 1 .. (MaxLen * MaxPackets)
    <3>1. MaxLen \in Nat /\ MaxPackets \in Nat /\ sent \in Nat /\ sent <= MaxPackets
      BY <1>2, HalfAssumption, ProgramBounds DEF ProgramsTypeOK, Word
    <3>2. Cardinality(StillAdds(f)') \in Nat
      <4>1. StillAdds(f)' \in SUBSET CPUs
        BY DEF StillAdds
      <4> QED BY <4>1, CPUSets
    <3>3. counted'[k][f] + MaxLen * Cardinality(StillAdds(f)') <= MaxLen * sent
      BY <1>0, <1>1 DEF CountBounded
    <3>4. MaxLen * Cardinality(StillAdds(f)') \in Nat /\ MaxLen * sent \in Nat
          /\ MaxLen * MaxPackets \in Nat
      BY <3>1, <3>2, ScaleNext
    <3>5. MaxLen * sent <= MaxLen * MaxPackets
      BY <3>1, Scale
    <3>6. counted'[k][f] = counted[k][f] + n /\ counted[k][f] \in Nat
      BY <1>1, <1>4, <2>5
    <3>7. n \in Nat /\ n >= 1
      BY <1>1, <3>1
    <3> QED BY <3>3, <3>4, <3>5, <3>6, <3>7
  <2>7. Map!Count(k, f, n)
    BY <2>3, <2>4, <2>5, <2>6 DEF Map!Count, Map!Add64, Map!Word, Add64, Word
  <2> QED BY <1>1, <2>6, <2>7 DEF Map!MapNext
<1> QED BY <1>8, <1>9

(***************************************************************************)
(* However many CPUs run the programs and however they interleave, user    *)
(* space sees the abstract map: zero entries that grow add by add, never   *)
(* more than max_entries of them.                                          *)
(***************************************************************************)
THEOREM ProgramsImplementMap == Spec => ImplementsTrafficMap
<1>1. Init => Map!MapInit
  BY DEF Init, Map!MapInit, Map!EmptyMap, Map!Zero, Zero, raw
<1>2. ProgramsInv /\ ProgramsInv' /\ [Next]_vars => [Map!MapNext]_(Map!mapVars)
  <2> SUFFICES ASSUME ProgramsInv, ProgramsInv', [Next]_vars
               PROVE  [Map!MapNext]_(Map!mapVars)
    OBVIOUS
  <2>1. ASSUME NEW c \in CPUs, NEW p \in Packets, Arrive(c, p)
        PROVE  raw' = raw /\ counted' = counted
    BY <2>1 DEF Arrive, mapState, raw
  <2>2. ASSUME NEW c \in CPUs, LookupAgain(c) PROVE raw' = raw /\ counted' = counted
    BY <2>2 DEF LookupAgain, mapState, histVars, raw
  <2>3. ASSUME NEW c \in CPUs, Update(c) PROVE [Map!MapNext]_(Map!mapVars)
    BY <2>3, UpdateIsMapStep DEF ProgramsInv
  <2>4. ASSUME NEW c \in CPUs, Add(c) PROVE [Map!MapNext]_(Map!mapVars)
    BY <2>4, AddIsMapStep DEF ProgramsInv
  <2>5. ASSUME UNCHANGED vars PROVE raw' = raw /\ counted' = counted
    BY <2>5 DEF vars, mapState, histVars, raw
  <2>6. ASSUME raw' = raw, counted' = counted PROVE [Map!MapNext]_(Map!mapVars)
    BY <2>6 DEF Map!mapVars
  <2> QED BY <2>1, <2>2, <2>3, <2>4, <2>5, <2>6 DEF Next
<1> QED BY <1>1, <1>2, ProgramsInvariant, PTL DEF Spec, ImplementsTrafficMap, Map!MapSpec

-------------------------------------------------------------------------------
(* A step of one CPU leaves the programs of the others alone. *)
LEMMA OthersStay ==
  ASSUME ProgramsTypeOK, NEW c \in CPUs,
         (\E p \in Packets : Arrive(c, p)) \/ Update(c) \/ LookupAgain(c) \/ Add(c)
  PROVE  \A d \in CPUs \ {c} :
           pc'[d] = pc[d] /\ pkt'[d] = pkt[d] /\ ptr'[d] = ptr[d] /\ done'[d] = done[d]
  BY DEF ProgramsTypeOK, Arrive, Update, UpdateWith, LookupAgain, Add, Found, Return

(* Where all other programs are, and the entry's element, decide whether   *)
(* the set changes: by the CPU that takes the step, or not at all.         *)
LEMMA UncountedStep ==
  ASSUME NEW c \in CPUs, NEW k \in Keys, elem'[k] = elem[k],
         \A d \in CPUs \ {c} :
           pc'[d] = pc[d] /\ pkt'[d] = pkt[d] /\ ptr'[d] = ptr[d] /\ done'[d] = done[d]
  PROVE  /\ (c \in Uncounted(k) <=> c \in Uncounted(k)') => Uncounted(k)' = Uncounted(k)
         /\ c \notin Uncounted(k) /\ c \in Uncounted(k)' =>
              Uncounted(k)' = Uncounted(k) \union {c}
         /\ c \in Uncounted(k) /\ c \notin Uncounted(k)' =>
              Uncounted(k)' = Uncounted(k) \ {c}
<1>1. Uncounted(k) \subseteq CPUs /\ Uncounted(k)' \subseteq CPUs
  BY DEF Uncounted
<1>2. \A d \in CPUs \ {c} : d \in Uncounted(k)' <=> d \in Uncounted(k)
  BY DEF Uncounted
<1> QED BY <1>1, <1>2

LEMMA ArriveKeepsPackets ==
  ASSUME PacketsInv, NEW c \in CPUs, NEW p \in Packets, Arrive(c, p),
         NEW k \in Keys \ replaced
  PROVE  IF elem'[k] # Nil
         THEN val'[elem'[k]]["packets"] + Cardinality(Uncounted(k)') = arrived'[k]
         ELSE free' # {} => Cardinality(Uncounted(k)') = arrived'[k]
<1>0. /\ ProgramsTypeOK /\ ProgramPlace /\ OneOwner /\ ProgramBounds
      /\ p.key \in Keys
  BY ProgramBounds DEF PacketsInv, ProgramsInv, Packets
<1>1. /\ pc[c] = "idle" /\ done[c] = 0
      /\ arrived' = [arrived EXCEPT ![p.key] = @ + 1]
      /\ UNCHANGED <<elem, val, free, done>>
      /\ pkt'[c] = p
  BY <1>0 DEF Arrive, mapState, ProgramPlace, ProgramsTypeOK
<1>2. \/ elem[p.key] # Nil /\ pc'[c] = "add" /\ ptr'[c] = elem[p.key]
      \/ elem[p.key] = Nil /\ pc'[c] = "update"
  BY <1>0 DEF Arrive, Found, ProgramsTypeOK
<1>3. c \notin Uncounted(k)
  BY <1>1 DEF Uncounted
<1>4. IF elem[k] # Nil
      THEN val[elem[k]]["packets"] + Cardinality(Uncounted(k)) = arrived[k]
      ELSE free # {} => Cardinality(Uncounted(k)) = arrived[k]
  BY DEF PacketsInv, PacketsAccountedFor
<1>5. /\ c \notin Uncounted(k)' => Uncounted(k)' = Uncounted(k)
      /\ c \in Uncounted(k)' => Uncounted(k)' = Uncounted(k) \union {c}
  BY <1>0, <1>1, <1>3, OthersStay, UncountedStep
<1>6. CASE p.key = k
  <2>1. c \in Uncounted(k)'
    BY <1>1, <1>2, <1>6 DEF Uncounted
  <2>2. Uncounted(k) \in SUBSET CPUs
    BY DEF Uncounted
  <2>3. Cardinality(Uncounted(k)) \in Nat
        /\ Cardinality(Uncounted(k)') = Cardinality(Uncounted(k)) + 1
    BY <1>3, <1>5, <2>1, <2>2, CPUSets
  <2>4. arrived'[k] = arrived[k] + 1 /\ arrived[k] \in Nat
    BY <1>0, <1>1, <1>6 DEF ProgramsTypeOK
  <2>5. elem[k] # Nil => val[elem[k]]["packets"] \in Nat
    BY <1>0, HalfAssumption, FieldNames DEF ProgramsTypeOK, Counter, Uint, Word
  <2> QED BY <1>1, <1>4, <2>3, <2>4, <2>5
<1>7. CASE p.key # k
  <2>1. c \notin Uncounted(k)'
    BY <1>0, <1>1, <1>2, <1>7 DEF Uncounted, OneOwner
  <2>2. arrived'[k] = arrived[k]
    BY <1>0, <1>1, <1>7 DEF ProgramsTypeOK
  <2> QED BY <1>1, <1>4, <1>5, <2>1, <2>2
<1> QED BY <1>6, <1>7

LEMMA UpdateKeepsPackets ==
  ASSUME PacketsInv, NEW c \in CPUs, Update(c), NEW k \in Keys \ replaced'
  PROVE  IF elem'[k] # Nil
         THEN val'[elem'[k]]["packets"] + Cardinality(Uncounted(k)') = arrived'[k]
         ELSE free' # {} => Cardinality(Uncounted(k)') = arrived'[k]
<1> DEFINE u == pkt[c].key
<1>0. /\ ProgramsTypeOK /\ ProgramPlace /\ OneOwner /\ FreeUntouched
      /\ u \in Keys /\ spare[c] \in Elems /\ pc[c] = "update"
  BY UpdateFacts DEF PacketsInv, ProgramsInv
<1>1. /\ elem \in [Keys -> Elems \union {Nil}] /\ val \in [Elems -> Counter]
      /\ UNCHANGED <<pkt, ptr, done, arrived>> /\ pc' = [pc EXCEPT ![c] = "lookup"]
      /\ replaced \subseteq replaced' /\ arrived[k] \in Nat
  BY <1>0 DEF Update, UpdateWith, ProgramsTypeOK, Replace, Create, NoRoom
<1>2. IF elem[k] # Nil
      THEN val[elem[k]]["packets"] + Cardinality(Uncounted(k)) = arrived[k]
      ELSE free # {} => Cardinality(Uncounted(k)) = arrived[k]
  BY <1>1 DEF PacketsInv, PacketsAccountedFor
<1>3. ASSUME elem'[k] = elem[k] PROVE Uncounted(k)' = Uncounted(k)
  BY <1>0, <1>1, <1>3 DEF Uncounted, ProgramsTypeOK
<1>4. ASSUME elem'[k] = elem[k], elem[k] # Nil => val'[elem[k]] = val[elem[k]],
             free' # {} => free # {}
      PROVE  IF elem'[k] # Nil
             THEN val'[elem'[k]]["packets"] + Cardinality(Uncounted(k)') = arrived'[k]
             ELSE free' # {} => Cardinality(Uncounted(k)') = arrived'[k]
  BY <1>1, <1>2, <1>3, <1>4
<1> HIDE DEF u
<1>5. CASE Replace(c, u, Zero)
  <2>1. /\ u # k /\ elem' = [elem EXCEPT ![u] = spare[c]]
        /\ val' = [val EXCEPT ![spare[c]] = Zero] /\ free' = free
    BY <1>5 DEF Replace, PutElem
  <2>2. elem[k] # spare[c]
    BY <1>0 DEF OneOwner
  <2>3. elem'[k] = elem[k] /\ (elem[k] # Nil => val'[elem[k]] = val[elem[k]])
    BY <1>1, <2>1, <2>2
  <2> QED BY <1>4, <2>1, <2>3
<1>6. ASSUME NEW e \in free, Create(u, e, Zero)
      PROVE  IF elem'[k] # Nil
             THEN val'[elem'[k]]["packets"] + Cardinality(Uncounted(k)') = arrived'[k]
             ELSE free' # {} => Cardinality(Uncounted(k)') = arrived'[k]
  <2>1. /\ elem[u] = Nil /\ elem' = [elem EXCEPT ![u] = e]
        /\ val' = [val EXCEPT ![e] = Zero] /\ free # {}
    BY <1>6 DEF Create, PutElem
  <2>2. elem[k] # e /\ e \in Elems /\ e # Nil
    BY <1>0, <1>6, ElementNames DEF OneOwner, ProgramsTypeOK, Elems
  <2>3. CASE u # k
    <3>1. elem'[k] = elem[k] /\ (elem[k] # Nil => val'[elem[k]] = val[elem[k]])
      BY <1>1, <2>1, <2>2, <2>3
    <3> QED BY <1>4, <2>1, <3>1
  <2>4. CASE u = k
    <3>1. elem[k] = Nil /\ elem'[k] = e /\ Cardinality(Uncounted(k)) = arrived[k]
      BY <1>0, <1>1, <1>2, <2>1, <2>4
    <3>2. val'[e]["packets"] = 0
      BY <1>1, <2>1, <2>2, FieldNames DEF Zero
    <3>3. Uncounted(k)' = Uncounted(k)
      <4>1. \A d \in CPUs : pc[d] = "add" => ptr[d] # e /\ ptr[d] # Nil
        BY <1>0, <1>6, ElementNames DEF FreeUntouched, ProgramPlace, Elems
      <4>2. \A d \in CPUs : d # c => pc'[d] = pc[d]
        BY <1>0, <1>1 DEF ProgramsTypeOK
      <4>3. pc'[c] = "lookup"
        BY <1>0, <1>1 DEF ProgramsTypeOK
      <4> QED BY <1>0, <1>1, <3>1, <4>1, <4>2, <4>3 DEF Uncounted
    <3> QED BY <1>1, <2>2, <3>1, <3>2, <3>3
  <2> QED BY <2>3, <2>4
<1>7. CASE NoRoom(u)
  BY <1>4, <1>7 DEF NoRoom, mapState
<1> QED BY <1>5, <1>6, <1>7 DEF Update, UpdateWith, u

LEMMA LookupKeepsPackets ==
  ASSUME PacketsInv, NEW c \in CPUs, LookupAgain(c), NEW k \in Keys \ replaced
  PROVE  IF elem'[k] # Nil
         THEN val'[elem'[k]]["packets"] + Cardinality(Uncounted(k)') = arrived'[k]
         ELSE free' # {} => Cardinality(Uncounted(k)') = arrived'[k]
<1>0. /\ ProgramsTypeOK /\ ProgramPlace /\ OneOwner
      /\ pc[c] = "lookup" /\ pkt[c].key \in Keys /\ done[c] = 0
      /\ UNCHANGED <<elem, val, free, arrived>>
  BY DEF PacketsInv, ProgramsInv, LookupAgain, ProgramPlace, Packets, mapState, histVars
<1>1. IF elem[k] # Nil
      THEN val[elem[k]]["packets"] + Cardinality(Uncounted(k)) = arrived[k]
      ELSE free # {} => Cardinality(Uncounted(k)) = arrived[k]
  BY DEF PacketsInv, PacketsAccountedFor
<1>2. c \in Uncounted(k) <=> pkt[c].key = k
  BY <1>0 DEF Uncounted
<1>3. CASE elem[pkt[c].key] # Nil
  <2>1. pc'[c] = "add" /\ ptr'[c] = elem[pkt[c].key] /\ done'[c] = 0
    BY <1>0, <1>3 DEF LookupAgain, Found, ProgramsTypeOK
  <2>2. c \in Uncounted(k)' <=> pkt[c].key = k
    BY <1>0, <1>3, <2>1 DEF Uncounted, OneOwner
  <2>3. Uncounted(k)' = Uncounted(k)
    BY <1>0, <1>2, <2>2, OthersStay, UncountedStep
  <2> QED BY <1>0, <1>1, <2>3
<1>4. CASE elem[pkt[c].key] = Nil
  <2>1. free = {}
    BY <1>0, <1>4 DEF PacketsInv, MissMeansFull
  <2>2. pc'[c] = "idle"
    BY <1>0, <1>4 DEF LookupAgain, Return, ProgramsTypeOK
  <2>3. CASE pkt[c].key = k
    BY <1>0, <1>4, <2>1, <2>3
  <2>4. CASE pkt[c].key # k
    <3>1. c \notin Uncounted(k)'
      BY <2>2 DEF Uncounted
    <3>2. Uncounted(k)' = Uncounted(k)
      BY <1>0, <1>2, <2>4, <3>1, OthersStay, UncountedStep
    <3> QED BY <1>0, <1>1, <3>2
  <2> QED BY <2>3, <2>4
<1> QED BY <1>3, <1>4

LEMMA AddKeepsPackets ==
  ASSUME PacketsInv, MaxPackets < Word, NEW c \in CPUs, Add(c), NEW k \in Keys \ replaced
  PROVE  IF elem'[k] # Nil
         THEN val'[elem'[k]]["packets"] + Cardinality(Uncounted(k)') = arrived'[k]
         ELSE free' # {} => Cardinality(Uncounted(k)') = arrived'[k]
<1>0. /\ ProgramsInv /\ ProgramsTypeOK /\ pc[c] = "add"
      /\ UNCHANGED <<elem, free, arrived>>
  BY DEF PacketsInv, ProgramsInv, Add
<1>1. PICK e \in Elems, f \in Fields, n \in 1 .. MaxLen :
        /\ AddTo(e, f, n) /\ e = ptr[c]
        /\ f = "packets" <=> done[c] = 1
        /\ f = "packets" => n = 1
  <2>1. AddTo(ptr[c], Adds(pkt[c])[done[c] + 1][1], Adds(pkt[c])[done[c] + 1][2])
    BY DEF Add
  <2>2. pkt[c] \in Packets /\ done[c] + 1 \in 1 .. 4 /\ done[c] \in 0 .. 3
    BY <1>0, NextAdd
  <2>3. /\ Adds(pkt[c])[done[c] + 1][1] = "packets" <=> done[c] = 1
        /\ done[c] = 1 => Adds(pkt[c])[done[c] + 1][2] = 1
    BY <2>2, AddsFacts
  <2> QED BY <1>0, <2>1, <2>3, NextAdd
<1>2. /\ \A d \in Elems : d # e => val'[d] = val[d]
      /\ val'[e] = [val[e] EXCEPT ![f] = Add64(@, n)]
  BY <1>0, <1>1, AddToEffect
<1>3. /\ done[c] \in 0 .. 3 /\ e # Nil
      /\ elem[k] # Nil => elem[k] \in Elems /\ val[elem[k]] \in [Fields -> Uint]
  BY <1>0, <1>1, ElementNames DEF ProgramsTypeOK, Elems, Counter
<1>4. IF elem[k] # Nil
      THEN val[elem[k]]["packets"] + Cardinality(Uncounted(k)) = arrived[k]
      ELSE free # {} => Cardinality(Uncounted(k)) = arrived[k]
  BY DEF PacketsInv, PacketsAccountedFor
<1>5. /\ c \in Uncounted(k) <=> e = elem[k] /\ done[c] < 2
      /\ c \in Uncounted(k)' <=> e = elem[k] /\ done[c] < 1
  <2>1. c \in Uncounted(k) <=> e = elem[k] /\ done[c] < 2
    BY <1>0, <1>1 DEF Uncounted
  <2>2. CASE done[c] = 3
    <3>1. pc'[c] = "idle"
      BY <1>0, <2>2 DEF Add, Return, ProgramsTypeOK
    <3> QED BY <2>1, <2>2, <3>1 DEF Uncounted
  <2>3. CASE done[c] # 3
    <3>1. pc'[c] = "add" /\ ptr'[c] = e /\ done'[c] = done[c] + 1
      BY <1>0, <1>1, <2>3 DEF Add, ProgramsTypeOK
    <3>2. done'[c] < 2 <=> done[c] < 1
      BY <1>3, <3>1
    <3> QED BY <1>0, <2>1, <3>1, <3>2 DEF Uncounted
  <2> QED BY <2>2, <2>3
<1>6. Uncounted(k) \in SUBSET CPUs
  BY DEF Uncounted
<1>7. CASE e = elem[k] /\ done[c] = 1
  <2>1. c \in Uncounted(k) /\ c \notin Uncounted(k)'
    BY <1>5, <1>7
  <2>2. Uncounted(k)' = Uncounted(k) \ {c}
    BY <1>0, <2>1, OthersStay, UncountedStep
  <2>3. Cardinality(Uncounted(k)) \in Nat /\ Cardinality(Uncounted(k)') \in Nat
        /\ Cardinality(Uncounted(k)') = Cardinality(Uncounted(k)) - 1
    <3>1. Uncounted(k)' \in SUBSET CPUs
      BY DEF Uncounted
    <3>2. Cardinality(Uncounted(k)') \in Nat
      BY <3>1, CPUSets
    <3> QED BY <1>6, <2>1, <2>2, <3>2, CPUSets
  <2>4. val[e]["packets"] \in Nat /\ Word \in Nat
    BY <1>3, <1>7, HalfAssumption, FieldNames DEF Uint, Word
  <2>5. arrived[k] \in Nat /\ arrived[k] < Word
    <3>1. arrived[k] \in Nat /\ arrived[k] <= sent /\ sent \in 0 .. MaxPackets
      BY <1>0 DEF PacketsInv, ProgramsTypeOK
    <3> QED BY <2>4, <3>1, ProgramBounds
  <2>6. val[e]["packets"] + Cardinality(Uncounted(k)) = arrived[k]
    BY <1>3, <1>4, <1>7
  <2>7. val[e]["packets"] + 1 < Word
    BY <2>3, <2>4, <2>5, <2>6
  <2>8. val'[e]["packets"] = val[e]["packets"] + 1
    <3>1. f = "packets" /\ n = 1
      BY <1>1, <1>7
    <3>2. val'[e]["packets"] = Add64(val[e]["packets"], 1)
      BY <1>2, <1>3, <1>7, <3>1
    <3> QED BY <2>4, <2>7, <3>2 DEF Add64
  <2> QED BY <1>0, <1>3, <1>7, <2>3, <2>4, <2>6, <2>8
<1>8. CASE ~(e = elem[k] /\ done[c] = 1)
  <2>1. c \in Uncounted(k) <=> c \in Uncounted(k)'
    BY <1>3, <1>5, <1>8
  <2>2. Uncounted(k)' = Uncounted(k)
    BY <1>0, <2>1, OthersStay, UncountedStep
  <2>3. elem[k] # Nil => val'[elem[k]]["packets"] = val[elem[k]]["packets"]
    <3>1. CASE e # elem[k]
      BY <1>2, <1>3, <3>1
    <3>2. CASE e = elem[k]
      <4>1. f # "packets"
        BY <1>1, <1>8, <3>2
      <4> QED BY <1>2, <1>3, <3>2, <4>1, FieldNames
    <3> QED BY <3>1, <3>2
  <2> QED BY <1>0, <1>4, <2>2, <2>3
<1> QED BY <1>7, <1>8

(* Pointers come from entries, and the free list only shrinks. *)
LEMMA FreeStep ==
  ASSUME PacketsInv, NEW c \in CPUs,
         (\E p \in Packets : Arrive(c, p)) \/ Update(c) \/ LookupAgain(c) \/ Add(c)
  PROVE  FreeUntouched' /\ MissMeansFull'
<1>0. /\ ProgramsTypeOK /\ ProgramPlace /\ OneOwner /\ FreeUntouched /\ MissMeansFull
      /\ ProgramsInv
  BY DEF PacketsInv, ProgramsInv
<1>1. \A d \in CPUs \ {c} :
        pc'[d] = pc[d] /\ pkt'[d] = pkt[d] /\ ptr'[d] = ptr[d] /\ done'[d] = done[d]
  BY <1>0, OthersStay
<1>2. ASSUME NEW p \in Packets, Arrive(c, p) PROVE FreeUntouched' /\ MissMeansFull'
  <2>1. elem' = elem /\ free' = free /\ p.key \in Keys
    BY <1>2 DEF Arrive, mapState, Packets
  <2>2. (pc'[c] = "add" /\ ptr'[c] = elem[p.key]) \/ pc'[c] = "update"
    BY <1>0, <1>2 DEF Arrive, Found, ProgramsTypeOK
  <2>3. elem[p.key] \notin free
    BY <1>0, <2>1 DEF OneOwner
  <2> QED BY <1>0, <1>1, <2>1, <2>2, <2>3 DEF FreeUntouched, MissMeansFull
<1>3. ASSUME LookupAgain(c) PROVE FreeUntouched' /\ MissMeansFull'
  <2>1. elem' = elem /\ free' = free /\ pkt[c].key \in Keys
    BY <1>0, <1>3 DEF LookupAgain, mapState, ProgramPlace, Packets
  <2>2. (pc'[c] = "add" /\ ptr'[c] = elem[pkt[c].key]) \/ pc'[c] = "idle"
    BY <1>0, <1>3 DEF LookupAgain, Found, Return, ProgramsTypeOK
  <2>3. elem[pkt[c].key] \notin free
    BY <1>0, <2>1 DEF OneOwner
  <2> QED BY <1>0, <1>1, <2>1, <2>2, <2>3 DEF FreeUntouched, MissMeansFull
<1>4. ASSUME Add(c) PROVE FreeUntouched' /\ MissMeansFull'
  <2>1. elem' = elem /\ free' = free /\ pc[c] = "add"
    BY <1>4 DEF Add
  <2>2. (pc'[c] = "add" /\ ptr'[c] = ptr[c]) \/ pc'[c] = "idle"
    BY <1>0, <1>4, <2>1 DEF Add, Return, ProgramsTypeOK
  <2> QED BY <1>0, <1>1, <2>1, <2>2 DEF FreeUntouched, MissMeansFull
<1>5. ASSUME Update(c) PROVE FreeUntouched' /\ MissMeansFull'
  <2>0. /\ pc'[c] = "lookup" /\ pkt[c].key \in Keys /\ pkt' = pkt
        /\ elem \in [Keys -> Elems \union {Nil}] /\ spare[c] # Nil
    BY <1>0, <1>5, UpdateFacts DEF Update, UpdateWith, ProgramsTypeOK
  <2>1. free' \subseteq free
    BY <1>5 DEF Update, UpdateWith, Replace, Create, NoRoom, mapState
  <2>2. FreeUntouched'
    BY <1>0, <1>1, <2>0, <2>1 DEF FreeUntouched
  <2>3. \A k \in Keys : elem[k] # Nil => elem'[k] # Nil
    <3>1. CASE Replace(c, pkt[c].key, Zero)
      BY <2>0, <3>1 DEF Replace, PutElem
    <3>2. ASSUME NEW e \in free, Create(pkt[c].key, e, Zero)
          PROVE  \A k \in Keys : elem[k] # Nil => elem'[k] # Nil
      BY <2>0, <3>2 DEF Create, PutElem
    <3>3. CASE NoRoom(pkt[c].key)
      BY <3>3 DEF NoRoom, mapState
    <3> QED BY <1>5, <3>1, <3>2, <3>3 DEF Update, UpdateWith
  <2>4. elem'[pkt[c].key] = Nil => free = {}
    <3>1. CASE Replace(c, pkt[c].key, Zero)
      BY <2>0, <3>1 DEF Replace, PutElem
    <3>2. ASSUME NEW e \in free, Create(pkt[c].key, e, Zero)
          PROVE  elem'[pkt[c].key] # Nil
      BY <1>0, <2>0, <3>2, ElementNames DEF Create, PutElem, ProgramsTypeOK
    <3>3. CASE NoRoom(pkt[c].key)
      BY <3>3 DEF NoRoom
    <3> QED BY <1>5, <3>1, <3>2, <3>3 DEF Update, UpdateWith
  <2>5. MissMeansFull'
    <3> SUFFICES ASSUME NEW d \in CPUs, pc'[d] = "lookup", elem'[pkt[d].key] = Nil
                 PROVE  free = {}
      BY <2>0, <2>1 DEF MissMeansFull
    <3>1. CASE d = c
      BY <2>4, <3>1
    <3>2. CASE d # c
      <4>1. pc[d] = "lookup" /\ pkt[d].key \in Keys
        BY <1>0, <1>1, <3>2 DEF ProgramPlace, Packets
      <4> QED BY <1>0, <2>3, <4>1 DEF MissMeansFull
    <3> QED BY <3>1, <3>2
  <2> QED BY <2>2, <2>5
<1> QED BY <1>2, <1>3, <1>4, <1>5

LEMMA PacketsStep ==
  ASSUME PacketsInv, [Next]_vars, MaxPackets < Word
  PROVE  PacketsInv'
<1>0. ProgramsInv /\ ProgramsTypeOK /\ ProgramsInv'
  BY ProgramsStep DEF PacketsInv, ProgramsInv
<1>1. CASE UNCHANGED vars
  <2>1. UNCHANGED <<elem, val, free, pc, pkt, ptr, done, arrived, sent, replaced>>
    BY <1>1 DEF vars, mapState, progVars, histVars
  <2> QED
    BY <1>0, <2>1 DEF PacketsInv, FreeUntouched, MissMeansFull, PacketsAccountedFor, Uncounted
<1>2. ASSUME NEW c \in CPUs,
             (\E p \in Packets : Arrive(c, p)) \/ Update(c) \/ LookupAgain(c) \/ Add(c)
      PROVE  PacketsInv'
  <2>1. FreeUntouched' /\ MissMeansFull'
    BY <1>2, FreeStep
  <2>2. \A k \in Keys : arrived'[k] <= sent'
    <3>1. \A k \in Keys : arrived[k] \in Nat /\ arrived[k] <= sent
      BY <1>0 DEF PacketsInv, ProgramsTypeOK
    <3>2. sent \in Nat /\ arrived \in [Keys -> Nat]
      BY <1>0 DEF ProgramsTypeOK
    <3>3. ASSUME NEW p \in Packets, Arrive(c, p) PROVE \A k \in Keys : arrived'[k] <= sent'
      BY <3>1, <3>2, <3>3 DEF Arrive
    <3>4. ASSUME Update(c) \/ LookupAgain(c) \/ Add(c)
          PROVE  \A k \in Keys : arrived'[k] <= sent'
      BY <3>1, <3>4 DEF Update, UpdateWith, LookupAgain, Add, histVars
    <3> QED BY <1>2, <3>3, <3>4
  <2>3. replaced \subseteq replaced'
    BY <1>2 DEF Arrive, Update, UpdateWith, Replace, Create, NoRoom, LookupAgain, Add, histVars
  <2>4. PacketsAccountedFor'
    <3> SUFFICES ASSUME NEW k \in Keys \ replaced'
                 PROVE  IF elem'[k] # Nil
                        THEN val'[elem'[k]]["packets"] + Cardinality(Uncounted(k)') = arrived'[k]
                        ELSE free' # {} => Cardinality(Uncounted(k)') = arrived'[k]
      BY DEF PacketsAccountedFor
    <3>1. k \in Keys \ replaced
      BY <2>3
    <3> QED
      BY <1>2, <3>1, ArriveKeepsPackets, UpdateKeepsPackets, LookupKeepsPackets,
         AddKeepsPackets
  <2> QED BY <1>0, <2>1, <2>2, <2>4 DEF PacketsInv
<1> QED BY <1>1, <1>2 DEF Next

LEMMA PacketsStart ==
  ASSUME Init
  PROVE  PacketsInv
<1>1. ProgramsInv
  BY ProgramsStart
<1>2. \A k \in Keys : Uncounted(k) = {} /\ elem[k] = Nil /\ arrived[k] = 0
  BY DEF Init, Uncounted
<1>3. PacketsAccountedFor
  BY <1>2, FS_EmptySet DEF PacketsAccountedFor
<1>4. (\A k \in Keys : arrived[k] <= sent) /\ FreeUntouched /\ MissMeansFull
  BY <1>2 DEF Init, FreeUntouched, MissMeansFull
<1> QED BY <1>1, <1>3, <1>4 DEF PacketsInv

(***************************************************************************)
(* With fewer than 2^64 packets the replacement of an entry is the only    *)
(* way to lose one, for every number of CPUs, keys and map entries, and    *)
(* however often elements are recycled.                                    *)
(***************************************************************************)
THEOREM LossOnlyByReplacement ==
  ASSUME MaxPackets < Word
  PROVE  Spec => []OnlyReplacementLoses
<1>1. Init => PacketsInv
  BY PacketsStart
<1>2. PacketsInv /\ [Next]_vars => PacketsInv'
  BY PacketsStep
<1>3. ASSUME PacketsInv PROVE OnlyReplacementLoses
  <2> SUFFICES ASSUME AllIdle, NEW k \in Keys \ replaced PROVE EveryPacketCounted(k)
    BY DEF OnlyReplacementLoses
  <2>1. Uncounted(k) = {}
    BY DEF AllIdle, Uncounted
  <2>2. Cardinality(Uncounted(k)) = 0
    BY <2>1, FS_EmptySet
  <2>3. IF elem[k] # Nil
        THEN val[elem[k]]["packets"] + Cardinality(Uncounted(k)) = arrived[k]
        ELSE free # {} => Cardinality(Uncounted(k)) = arrived[k]
    BY <1>3 DEF PacketsInv, PacketsAccountedFor
  <2>4. elem[k] # Nil => val[elem[k]]["packets"] \in Nat
    BY <1>3, HalfAssumption, FieldNames
       DEF PacketsInv, ProgramsInv, ProgramsTypeOK, Counter, Uint, Word
  <2> QED BY <2>2, <2>3, <2>4 DEF EveryPacketCounted
<1> QED BY <1>1, <1>2, <1>3, PTL DEF Spec

-------------------------------------------------------------------------------
(* The two directions of an entry make its total. *)

LEMMA ToComeTypes ==
  ASSUME ProgramsTypeOK, ProgramPlace, NEW e
  PROVE  BytesToCome(e) \in [CPUs -> Nat] /\ PacketsToCome(e) \in [CPUs -> Nat]
<1>1. \A c \in CPUs : pc[c] = "add" => pkt[c].len \in Nat
  <2> SUFFICES ASSUME NEW c \in CPUs, pc[c] = "add" PROVE pkt[c].len \in Nat
    OBVIOUS
  <2>1. pkt[c] \in Packets
    BY DEF ProgramPlace
  <2>2. pkt[c].len \in 1 .. MaxLen
    BY <2>1, AddsAre
  <2> QED BY <2>2
<1> QED BY <1>1 DEF BytesToCome, PacketsToCome

(* Only an add changes what is to come. *)
LEMMA ToComeStays ==
  ASSUME ProgramsTypeOK, ProgramPlace, NEW c \in CPUs, NEW e,
         (\E p \in Packets : Arrive(c, p)) \/ Update(c) \/ LookupAgain(c)
  PROVE  BytesToCome(e)' = BytesToCome(e) /\ PacketsToCome(e)' = PacketsToCome(e)
<1>1. \A d \in CPUs \ {c} :
        pc'[d] = pc[d] /\ pkt'[d] = pkt[d] /\ ptr'[d] = ptr[d] /\ done'[d] = done[d]
  BY OthersStay
<1>2. done[c] = 0 /\ done'[c] = 0
  BY DEF ProgramsTypeOK, ProgramPlace, Arrive, Update, UpdateWith, LookupAgain, Return
<1>3. ASSUME NEW d \in CPUs
      PROVE  /\ BytesToCome(e)'[d] = BytesToCome(e)[d]
             /\ PacketsToCome(e)'[d] = PacketsToCome(e)[d]
  BY <1>1, <1>2 DEF BytesToCome, PacketsToCome
<1> QED BY <1>3 DEF BytesToCome, PacketsToCome

(* A program that arrives or looks up changes no entry. *)
LEMMA LookKeepsDirections ==
  ASSUME DirectionsInv, NEW c \in CPUs, (\E p \in Packets : Arrive(c, p)) \/ LookupAgain(c)
  PROVE  EntryWithinCounted' /\ EntriesBalanced'
<1>1. UNCHANGED <<elem, val, counted, replaced>>
  BY DEF Arrive, LookupAgain, mapState, histVars
<1>2. ProgramsTypeOK /\ ProgramPlace /\ EntryWithinCounted /\ EntriesBalanced
  BY DEF DirectionsInv, PacketsInv, ProgramsInv
<1>3. EntryWithinCounted'
  BY <1>1, <1>2 DEF EntryWithinCounted
<1>4. ASSUME NEW k \in Keys \ replaced, NEW e \in Elems, elem[k] = e
      PROVE  Balanced(val[e], SumOver(BytesToCome(e)'), SumOver(PacketsToCome(e)'))
  <2>1. BytesToCome(e)' = BytesToCome(e) /\ PacketsToCome(e)' = PacketsToCome(e)
    BY <1>2, ToComeStays
  <2>2. Balanced(val[e], SumOver(BytesToCome(e)), SumOver(PacketsToCome(e)))
    BY <1>2, <1>4 DEF EntriesBalanced
  <2> QED BY <2>1, <2>2
<1>5. EntriesBalanced'
  BY <1>1, <1>4 DEF EntriesBalanced
<1> QED BY <1>3, <1>5

(* An entry that is created starts with nothing, and with nothing to come: *)
(* no program adds to an element of the free list.                         *)
LEMMA UpdateKeepsDirections ==
  ASSUME DirectionsInv, NEW c \in CPUs, Update(c)
  PROVE  EntryWithinCounted' /\ EntriesBalanced'
<1> DEFINE u == pkt[c].key
<1>0. /\ ProgramsTypeOK /\ ProgramPlace /\ OneOwner /\ FreeUntouched
      /\ EntryWithinCounted /\ EntriesBalanced
      /\ u \in Keys /\ spare[c] \in Elems /\ counted' = counted
  BY UpdateFacts DEF DirectionsInv, PacketsInv, ProgramsInv, Update, UpdateWith
<1>1. /\ elem \in [Keys -> Elems \union {Nil}] /\ val \in [Elems -> Counter]
      /\ counted \in [Keys -> [Fields -> Nat]]
  BY <1>0 DEF ProgramsTypeOK
<1> HIDE DEF u
(* The element g takes key u. *)
<1>2. ASSUME NEW g \in Elems, PutElem(u, g, Zero), \A l \in Keys : elem[l] # g,
             replaced \subseteq replaced',
             u \in replaced' \/ \A d \in CPUs : pc[d] = "add" => ptr[d] # g
      PROVE  EntryWithinCounted' /\ EntriesBalanced'
  <2>1. elem' = [elem EXCEPT ![u] = g] /\ val' = [val EXCEPT ![g] = Zero]
    BY <1>2 DEF PutElem
  <2>2. /\ elem'[u] = g /\ val'[g] = Zero
        /\ \A l \in Keys \ {u} : elem'[l] = elem[l]
        /\ \A e \in Elems \ {g} : val'[e] = val[e]
    BY <1>0, <1>1, <1>2, <2>1
  <2>3. EntryWithinCounted'
    <3> SUFFICES ASSUME NEW l \in Keys, NEW f \in Fields, elem'[l] # Nil
                 PROVE  val'[elem'[l]][f] <= counted[l][f]
      BY <1>0 DEF EntryWithinCounted
    <3>1. CASE l = u
      <4>1. val'[elem'[l]][f] = 0 /\ counted[l][f] \in Nat
        BY <1>1, <2>2, <3>1 DEF Zero
      <4> QED BY <4>1
    <3>2. CASE l # u
      <4>1. elem'[l] = elem[l] /\ val'[elem[l]] = val[elem[l]]
        BY <1>1, <1>2, <2>2, <3>2
      <4> QED BY <1>0, <4>1 DEF EntryWithinCounted
    <3> QED BY <3>1, <3>2
  <2>4. ASSUME NEW l \in Keys \ replaced', NEW e \in Elems, elem'[l] = e
        PROVE  Balanced(val'[e], SumOver(BytesToCome(e)'), SumOver(PacketsToCome(e)'))
    <3>1. BytesToCome(e)' = BytesToCome(e) /\ PacketsToCome(e)' = PacketsToCome(e)
      BY <1>0, ToComeStays
    <3>2. CASE l = u
      <4>1. e = g /\ \A d \in CPUs : pc[d] = "add" => ptr[d] # g
        BY <1>2, <2>2, <2>4, <3>2
      <4>2. \A d \in CPUs : BytesToCome(e)[d] = 0 /\ PacketsToCome(e)[d] = 0
        BY <4>1 DEF BytesToCome, PacketsToCome
      <4>3. BytesToCome(e) \in [CPUs -> Nat] /\ PacketsToCome(e) \in [CPUs -> Nat]
        BY <1>0, ToComeTypes
      <4>4. SumOver(BytesToCome(e)) = 0 /\ SumOver(PacketsToCome(e)) = 0
        BY <4>2, <4>3, SumOfZeros
      <4> QED BY <2>2, <3>1, <4>1, <4>4, FieldNames DEF Balanced, Zero
    <3>3. CASE l # u
      <4>1. elem[l] = e /\ val'[e] = val[e] /\ l \in Keys \ replaced
        BY <1>2, <2>2, <2>4, <3>3
      <4>2. Balanced(val[e], SumOver(BytesToCome(e)), SumOver(PacketsToCome(e)))
        BY <1>0, <4>1 DEF EntriesBalanced
      <4> QED BY <3>1, <4>1, <4>2
    <3> QED BY <3>2, <3>3
  <2>5. EntriesBalanced'
    BY <2>4 DEF EntriesBalanced
  <2> QED BY <2>3, <2>5
<1>3. CASE Replace(c, u, Zero)
  <2>1. /\ PutElem(u, spare[c], Zero) /\ \A l \in Keys : elem[l] # spare[c]
        /\ u \in replaced' /\ replaced \subseteq replaced'
    BY <1>0, <1>3 DEF Replace, OneOwner
  <2> QED BY <1>0, <1>2, <2>1
<1>4. ASSUME NEW g \in free, Create(u, g, Zero) PROVE EntryWithinCounted' /\ EntriesBalanced'
  <2>1. /\ PutElem(u, g, Zero) /\ \A l \in Keys : elem[l] # g
        /\ replaced \subseteq replaced' /\ g \in Elems
        /\ \A d \in CPUs : pc[d] = "add" => ptr[d] # g
    BY <1>0, <1>4 DEF Create, OneOwner, FreeUntouched, ProgramsTypeOK, Elems
  <2> QED BY <1>2, <2>1
<1>5. CASE NoRoom(u)
  <2>1. UNCHANGED <<elem, val, counted, replaced>>
    BY <1>0, <1>5 DEF NoRoom, mapState
  <2>2. EntryWithinCounted'
    BY <1>0, <2>1 DEF EntryWithinCounted
  <2>3. ASSUME NEW l \in Keys \ replaced, NEW e \in Elems, elem[l] = e
        PROVE  Balanced(val[e], SumOver(BytesToCome(e)'), SumOver(PacketsToCome(e)'))
    <3>1. BytesToCome(e)' = BytesToCome(e) /\ PacketsToCome(e)' = PacketsToCome(e)
      BY <1>0, ToComeStays
    <3>2. Balanced(val[e], SumOver(BytesToCome(e)), SumOver(PacketsToCome(e)))
      BY <1>0, <2>3 DEF EntriesBalanced
    <3> QED BY <3>1, <3>2
  <2>4. EntriesBalanced'
    BY <2>1, <2>3 DEF EntriesBalanced
  <2> QED BY <2>2, <2>4
<1> QED BY <1>3, <1>4, <1>5 DEF Update, UpdateWith, u

(* An add to the element of an entry does not wrap around. *)
LEMMA AddStaysBelowWord ==
  ASSUME DirectionsInv, CountBounded', MaxLen * MaxPackets < Word,
         NEW c \in CPUs, Add(c), NEW k \in Keys, elem[k] = ptr[c],
         NEW f, f = Adds(pkt[c])[done[c] + 1][1], NEW n, n = Adds(pkt[c])[done[c] + 1][2]
  PROVE  /\ val'[ptr[c]] = [val[ptr[c]] EXCEPT ![f] = @ + n]
         /\ counted'[k] = [counted[k] EXCEPT ![f] = @ + n]
<1>0. /\ ProgramsInv /\ ProgramsTypeOK /\ EntryWithinCounted
      /\ pc[c] = "add" /\ AddTo(ptr[c], f, n) /\ sent' = sent
  BY DEF DirectionsInv, PacketsInv, ProgramsInv, Add
<1>1. ptr[c] \in Elems /\ f \in Fields /\ n \in 1 .. MaxLen /\ ptr[c] # Nil
  BY <1>0, NextAdd, ElementNames DEF Elems
<1>2. /\ val'[ptr[c]] = [val[ptr[c]] EXCEPT ![f] = Add64(@, n)]
      /\ counted'[k] = [counted[k] EXCEPT ![f] = @ + n]
  BY <1>0, <1>1, AddToEffect
<1>3. /\ counted[k] \in [Fields -> Nat] /\ val[ptr[c]][f] \in Nat
      /\ val[ptr[c]][f] <= counted[k][f]
  BY <1>0, <1>1, HalfAssumption DEF ProgramsTypeOK, EntryWithinCounted, Counter, Uint, Word
<1>4. counted[k][f] + n <= MaxLen * MaxPackets /\ MaxLen * MaxPackets \in Nat
  <2>1. MaxLen \in Nat /\ MaxPackets \in Nat /\ sent \in Nat /\ sent <= MaxPackets
    BY <1>0, HalfAssumption, ProgramBounds DEF ProgramsTypeOK, Word
  <2>2. Cardinality(StillAdds(f)') \in Nat
    <3>1. StillAdds(f)' \in SUBSET CPUs
      BY DEF StillAdds
    <3> QED BY <3>1, CPUSets
  <2>3. counted'[k][f] + MaxLen * Cardinality(StillAdds(f)') <= MaxLen * sent
    BY <1>0, <1>1 DEF CountBounded
  <2>4. MaxLen * Cardinality(StillAdds(f)') \in Nat /\ MaxLen * sent \in Nat
        /\ MaxLen * MaxPackets \in Nat
    BY <2>1, <2>2, ScaleNext
  <2>5. MaxLen * sent <= MaxLen * MaxPackets
    BY <2>1, Scale
  <2>6. counted'[k][f] = counted[k][f] + n /\ counted[k][f] \in Nat /\ n \in Nat
    BY <1>1, <1>2, <1>3
  <2> QED BY <2>3, <2>4, <2>5, <2>6
<1>5. Word \in Nat /\ n \in Nat /\ val[ptr[c]][f] + n < Word
  BY <1>1, <1>3, <1>4, HalfAssumption DEF Word
<1>6. Add64(val[ptr[c]][f], n) = val[ptr[c]][f] + n
  BY <1>3, <1>5 DEF Add64
<1> QED BY <1>2, <1>6

LEMMA AddKeepsWithin ==
  ASSUME DirectionsInv, CountBounded', MaxLen * MaxPackets < Word, NEW c \in CPUs, Add(c)
  PROVE  EntryWithinCounted'
<1> DEFINE f == Adds(pkt[c])[done[c] + 1][1]
           n == Adds(pkt[c])[done[c] + 1][2]
<1>0. /\ ProgramsInv /\ ProgramsTypeOK /\ OneOwner /\ EntryWithinCounted
      /\ pc[c] = "add" /\ AddTo(ptr[c], f, n) /\ elem' = elem
  BY DEF DirectionsInv, PacketsInv, ProgramsInv, Add
<1>1. ptr[c] \in Elems /\ f \in Fields /\ n \in 1 .. MaxLen
  BY <1>0, NextAdd
<1>2. /\ \A d \in Elems : d # ptr[c] => val'[d] = val[d]
      /\ \A k \in Keys : elem[k] # ptr[c] => counted'[k] = counted[k]
  BY <1>0, <1>1, AddToEffect
<1>3. /\ elem \in [Keys -> Elems \union {Nil}]
      /\ val \in [Elems -> [Fields -> Nat]] /\ counted \in [Keys -> [Fields -> Nat]]
  BY <1>0, HalfAssumption DEF ProgramsTypeOK, Counter, Uint, Word
<1>4. \A k \in Keys : elem[k] = ptr[c] =>
        /\ val'[ptr[c]] = [val[ptr[c]] EXCEPT ![f] = @ + n]
        /\ counted'[k] = [counted[k] EXCEPT ![f] = @ + n]
  BY AddStaysBelowWord
<1> HIDE DEF f, n
<1> SUFFICES ASSUME NEW k \in Keys, NEW g \in Fields, elem[k] # Nil
             PROVE  val'[elem[k]][g] <= counted'[k][g]
  BY <1>0 DEF EntryWithinCounted
<1>5. val[elem[k]][g] <= counted[k][g]
  BY <1>0 DEF EntryWithinCounted
<1>6. CASE elem[k] = ptr[c]
  <2>1. n \in Nat /\ val[ptr[c]][g] \in Nat /\ counted[k][g] \in Nat
    BY <1>1, <1>3
  <2>2. /\ val'[ptr[c]][g] = IF g = f THEN val[ptr[c]][g] + n ELSE val[ptr[c]][g]
        /\ counted'[k][g] = IF g = f THEN counted[k][g] + n ELSE counted[k][g]
    <3>1. /\ val[ptr[c]] \in [Fields -> Nat] /\ counted[k] \in [Fields -> Nat]
          /\ val'[ptr[c]] = [val[ptr[c]] EXCEPT ![f] = val[ptr[c]][f] + n]
          /\ counted'[k] = [counted[k] EXCEPT ![f] = counted[k][f] + n]
      BY <1>1, <1>3, <1>4, <1>6
    <3> QED BY <1>1, <3>1
  <2> QED BY <1>5, <1>6, <2>1, <2>2
<1>7. CASE elem[k] # ptr[c]
  BY <1>2, <1>3, <1>5, <1>7
<1> QED BY <1>6, <1>7

(* What one add leaves to come for the element it adds to. *)
LEMMA ToComeAfterAdd ==
  ASSUME ProgramsInv, NEW c \in CPUs, Add(c), NEW e \in Elems
  PROVE  /\ \A d \in CPUs \ {c} : /\ BytesToCome(e)'[d] = BytesToCome(e)[d]
                                  /\ PacketsToCome(e)'[d] = PacketsToCome(e)[d]
         /\ ptr[c] # e => /\ BytesToCome(e)'[c] = BytesToCome(e)[c]
                          /\ PacketsToCome(e)'[c] = PacketsToCome(e)[c]
         /\ ptr[c] = e =>
              /\ BytesToCome(e)[c] = IF done[c] \in {1, 2} THEN pkt[c].len ELSE 0
              /\ BytesToCome(e)'[c] = IF done[c] \in {0, 1} THEN pkt[c].len ELSE 0
              /\ PacketsToCome(e)[c] = IF done[c] \in {2, 3} THEN 1 ELSE 0
              /\ PacketsToCome(e)'[c] = IF done[c] \in {1, 2} THEN 1 ELSE 0
<1>0. ProgramsTypeOK /\ pc[c] = "add" /\ done[c] \in 0 .. 3 /\ e # Nil
  BY NextAdd, ElementNames DEF ProgramsInv, Add, Elems
<1>1. \A d \in CPUs \ {c} : /\ BytesToCome(e)'[d] = BytesToCome(e)[d]
                            /\ PacketsToCome(e)'[d] = PacketsToCome(e)[d]
  <2>1. \A d \in CPUs \ {c} :
          pc'[d] = pc[d] /\ pkt'[d] = pkt[d] /\ ptr'[d] = ptr[d] /\ done'[d] = done[d]
    BY <1>0, OthersStay
  <2> QED BY <2>1 DEF BytesToCome, PacketsToCome
<1>2. CASE done[c] = 3
  <2>1. pc'[c] = "idle"
    BY <1>0, <1>2 DEF Add, Return, ProgramsTypeOK
  <2> QED BY <1>0, <1>1, <1>2, <2>1 DEF BytesToCome, PacketsToCome
<1>3. CASE done[c] # 3
  <2>1. pc'[c] = "add" /\ pkt'[c] = pkt[c] /\ ptr'[c] = ptr[c] /\ done'[c] = done[c] + 1
    BY <1>0, <1>3 DEF Add, ProgramsTypeOK
  <2>2. /\ done'[c] \in {1, 2} <=> done[c] \in {0, 1}
        /\ done'[c] \in {2, 3} <=> done[c] \in {1, 2}
    BY <1>0, <1>3, <2>1
  <2> QED BY <1>0, <1>1, <2>1, <2>2 DEF BytesToCome, PacketsToCome
<1> QED BY <1>2, <1>3

(* The first add owes the bytes of a direction and the second its packet;  *)
(* the third and the fourth pay them.                                      *)
LEMMA AddKeepsBalance ==
  ASSUME DirectionsInv, ProgramsInv', MaxLen * MaxPackets < Word, NEW c \in CPUs, Add(c),
         NEW k \in Keys \ replaced, NEW e \in Elems, elem[k] = e
  PROVE  Balanced(val'[e], SumOver(BytesToCome(e)'), SumOver(PacketsToCome(e)'))
<1> DEFINE f == Adds(pkt[c])[done[c] + 1][1]
           n == Adds(pkt[c])[done[c] + 1][2]
           B == BytesToCome(e)
           C == BytesToCome(e)'
           P == PacketsToCome(e)
           Q == PacketsToCome(e)'
<1>0. /\ ProgramsInv /\ ProgramsTypeOK /\ ProgramPlace /\ CountBounded'
      /\ pc[c] = "add" /\ AddTo(ptr[c], f, n)
      /\ Balanced(val[e], SumOver(B), SumOver(P))
  BY DEF DirectionsInv, PacketsInv, ProgramsInv, Add, EntriesBalanced
<1>1. /\ pkt[c] \in Packets /\ ptr[c] \in Elems /\ done[c] \in 0 .. 3
      /\ f \in Fields /\ n \in 1 .. MaxLen
  BY <1>0, NextAdd
<1>2. B \in [CPUs -> Nat] /\ P \in [CPUs -> Nat]
  BY <1>0, ToComeTypes
<1>3. C \in [CPUs -> Nat] /\ Q \in [CPUs -> Nat]
  <2>1. ProgramsTypeOK' /\ ProgramPlace'
    BY DEF ProgramsInv
  <2>2. \A d \in CPUs : pc'[d] = "add" => pkt'[d].len \in Nat
    <3> SUFFICES ASSUME NEW d \in CPUs, pc'[d] = "add" PROVE pkt'[d].len \in Nat
      OBVIOUS
    <3>1. pkt'[d] \in Packets
      BY <2>1 DEF ProgramPlace
    <3>2. pkt'[d].len \in 1 .. MaxLen
      BY <3>1, AddsAre
    <3> QED BY <3>2
  <2> QED BY <2>2 DEF BytesToCome, PacketsToCome
<1>4. /\ \A d \in CPUs \ {c} : C[d] = B[d] /\ Q[d] = P[d]
      /\ ptr[c] # e => C[c] = B[c] /\ Q[c] = P[c]
      /\ ptr[c] = e =>
           /\ B[c] = IF done[c] \in {1, 2} THEN pkt[c].len ELSE 0
           /\ C[c] = IF done[c] \in {0, 1} THEN pkt[c].len ELSE 0
           /\ P[c] = IF done[c] \in {2, 3} THEN 1 ELSE 0
           /\ Q[c] = IF done[c] \in {1, 2} THEN 1 ELSE 0
  BY <1>0, ToComeAfterAdd
<1>5. val[e] \in [Fields -> Nat] /\ pkt[c].len \in Nat
  <2>1. pkt[c].len \in 1 .. MaxLen
    BY <1>1, AddsAre
  <2> QED BY <1>0, <2>1, HalfAssumption DEF ProgramsTypeOK, Counter, Uint, Word
<1>6. ASSUME ptr[c] = e PROVE val'[e] = [val[e] EXCEPT ![f] = val[e][f] + n]
  <2>1. CountBounded'
    BY <1>0
  <2>2. \A l \in Keys : elem[l] = ptr[c] =>
          /\ val'[ptr[c]] = [val[ptr[c]] EXCEPT ![f] = @ + n]
          /\ counted'[l] = [counted[l] EXCEPT ![f] = @ + n]
    BY <2>1, AddStaysBelowWord
  <2> QED BY <1>6, <2>2
<1>7. ptr[c] # e => val'[e] = val[e]
  BY <1>0, <1>1, AddToEffect
<1>8. /\ done[c] = 0 => f = "bytes" /\ n = pkt[c].len
      /\ done[c] = 1 => f = "packets" /\ n = 1
      /\ done[c] = 2 => f \in {"ingress_bytes", "egress_bytes"} /\ n = pkt[c].len
      /\ done[c] = 3 => f \in {"ingress_packets", "egress_packets"} /\ n = 1
  <2>1. /\ done[c] = 0 => done[c] + 1 = 1
        /\ done[c] = 1 => done[c] + 1 = 2
        /\ done[c] = 2 => done[c] + 1 = 3
        /\ done[c] = 3 => done[c] + 1 = 4
    OBVIOUS
  <2> QED BY <1>1, <2>1, AddsAre
<1> HIDE DEF f, n, B, C, P, Q
<1>9. /\ SumOver(B) \in Nat /\ SumOver(C) \in Nat
      /\ SumOver(P) \in Nat /\ SumOver(Q) \in Nat
      /\ SumOver(C) + B[c] = SumOver(B) + C[c]
      /\ SumOver(Q) + P[c] = SumOver(P) + Q[c]
  <2>1. /\ SumOver(B) \in Nat /\ SumOver(C) \in Nat
        /\ SumOver(P) \in Nat /\ SumOver(Q) \in Nat
    BY <1>2, <1>3, ProgramBounds, SumType
  <2>2. SumOver(C) + B[c] = SumOver(B) + C[c]
    BY <1>2, <1>3, <1>4, ProgramBounds, SumChanges
  <2>3. SumOver(Q) + P[c] = SumOver(P) + Q[c]
    BY <1>2, <1>3, <1>4, ProgramBounds, SumChanges
  <2> QED BY <2>1, <2>2, <2>3
<1>10. /\ val[e]["bytes"] = val[e]["ingress_bytes"] + val[e]["egress_bytes"] + SumOver(B)
       /\ val[e]["packets"]
            = val[e]["ingress_packets"] + val[e]["egress_packets"] + SumOver(P)
  BY <1>0 DEF Balanced
<1>11. \A g \in Fields : val[e][g] \in Nat
  BY <1>5
<1>12. CASE ptr[c] # e
  <2>1. B[c] \in Nat /\ P[c] \in Nat /\ C[c] = B[c] /\ Q[c] = P[c]
    BY <1>2, <1>4, <1>12
  <2>2. SumOver(C) = SumOver(B) /\ SumOver(Q) = SumOver(P)
    BY <1>9, <2>1
  <2> QED BY <1>0, <1>7, <1>12, <2>2 DEF B, C, P, Q
<1>13. CASE ptr[c] = e
  <2> DEFINE w == val'[e]
  <2>1. \A g \in Fields : w[g] = IF g = f THEN val[e][g] + n ELSE val[e][g]
    BY <1>1, <1>5, <1>6, <1>13
  <2>2. /\ w["bytes"] = w["ingress_bytes"] + w["egress_bytes"] + SumOver(C)
        /\ w["packets"] = w["ingress_packets"] + w["egress_packets"] + SumOver(Q)
    <3> HIDE DEF w
    <3>1. CASE done[c] = 0
      BY <1>4, <1>5, <1>8, <1>9, <1>10, <1>11, <1>13, <2>1, <3>1, FieldNames
    <3>2. CASE done[c] = 1
      BY <1>4, <1>5, <1>8, <1>9, <1>10, <1>11, <1>13, <2>1, <3>2, FieldNames
    <3>3. CASE done[c] = 2
      BY <1>4, <1>5, <1>8, <1>9, <1>10, <1>11, <1>13, <2>1, <3>3, FieldNames
    <3>4. CASE done[c] = 3
      BY <1>4, <1>5, <1>8, <1>9, <1>10, <1>11, <1>13, <2>1, <3>4, FieldNames
    <3> QED BY <1>1, <3>1, <3>2, <3>3, <3>4
  <2> QED BY <2>2 DEF Balanced, C, Q
<1> QED BY <1>12, <1>13

LEMMA DirectionsStep ==
  ASSUME DirectionsInv, [Next]_vars, MaxLen * MaxPackets < Word, MaxPackets < Word
  PROVE  DirectionsInv'
<1>1. PacketsInv' /\ ProgramsInv' /\ CountBounded'
  <2>1. PacketsInv'
    BY PacketsStep DEF DirectionsInv
  <2> QED BY <2>1 DEF PacketsInv, ProgramsInv
<1>2. CASE UNCHANGED vars
  <2>1. UNCHANGED <<elem, val, pc, pkt, ptr, done, counted, replaced>>
    BY <1>2 DEF vars, mapState, progVars, histVars
  <2>2. EntryWithinCounted'
    BY <2>1 DEF DirectionsInv, EntryWithinCounted
  <2>3. ASSUME NEW k \in Keys \ replaced, NEW e \in Elems, elem[k] = e
        PROVE  Balanced(val[e], SumOver(BytesToCome(e)'), SumOver(PacketsToCome(e)'))
    <3>1. BytesToCome(e)' = BytesToCome(e) /\ PacketsToCome(e)' = PacketsToCome(e)
      BY <2>1 DEF BytesToCome, PacketsToCome
    <3>2. Balanced(val[e], SumOver(BytesToCome(e)), SumOver(PacketsToCome(e)))
      BY <2>3 DEF DirectionsInv, EntriesBalanced
    <3> QED BY <3>1, <3>2
  <2>4. EntriesBalanced'
    BY <2>1, <2>3 DEF EntriesBalanced
  <2> QED BY <1>1, <2>2, <2>4 DEF DirectionsInv
<1>3. ASSUME NEW c \in CPUs, (\E p \in Packets : Arrive(c, p)) \/ LookupAgain(c)
      PROVE  DirectionsInv'
  BY <1>1, <1>3, LookKeepsDirections DEF DirectionsInv
<1>4. ASSUME NEW c \in CPUs, Update(c) PROVE DirectionsInv'
  BY <1>1, <1>4, UpdateKeepsDirections DEF DirectionsInv
<1>5. ASSUME NEW c \in CPUs, Add(c) PROVE DirectionsInv'
  <2>1. EntryWithinCounted'
    BY <1>1, <1>5, AddKeepsWithin
  <2>2. elem' = elem /\ replaced' = replaced
    BY <1>5 DEF Add
  <2>3. ASSUME NEW k \in Keys \ replaced, NEW e \in Elems, elem[k] = e
        PROVE  Balanced(val'[e], SumOver(BytesToCome(e)'), SumOver(PacketsToCome(e)'))
    BY <1>1, <1>5, <2>3, AddKeepsBalance
  <2>4. EntriesBalanced'
    BY <2>2, <2>3 DEF EntriesBalanced
  <2> QED BY <1>1, <2>1, <2>4 DEF DirectionsInv
<1> QED BY <1>2, <1>3, <1>4, <1>5 DEF Next

(***************************************************************************)
(* As long as no counter can wrap, an entry that was never replaced has    *)
(* the same bytes and packets in total as in its two directions whenever   *)
(* no program is under way, for every number of CPUs, keys and entries.    *)
(***************************************************************************)
THEOREM DirectionsBalance ==
  ASSUME MaxLen * MaxPackets < Word
  PROVE  Spec => []DirectionsAddUp
<1>0. MaxPackets < Word
  <2>1. MaxLen \in Nat /\ 1 <= MaxLen /\ MaxPackets \in Nat /\ Word \in Nat
    BY HalfAssumption, ProgramBounds DEF Word
  <2>2. MaxPackets * 1 <= MaxPackets * MaxLen
    BY <2>1, Scale
  <2>3. MaxPackets * MaxLen = MaxLen * MaxPackets /\ MaxLen * MaxPackets \in Nat
    BY <2>1
  <2> QED BY <2>1, <2>2, <2>3
<1>1. Init => DirectionsInv
  <2> SUFFICES ASSUME Init PROVE DirectionsInv
    OBVIOUS
  <2>1. PacketsInv
    BY PacketsStart
  <2>2. \A k \in Keys : elem[k] = Nil
    BY DEF Init
  <2>3. EntryWithinCounted
    BY <2>2 DEF EntryWithinCounted
  <2>4. EntriesBalanced
    BY <2>2, ElementNames DEF EntriesBalanced, Elems
  <2> QED BY <2>1, <2>3, <2>4 DEF DirectionsInv
<1>2. DirectionsInv /\ [Next]_vars => DirectionsInv'
  BY <1>0, DirectionsStep
<1>3. ASSUME DirectionsInv PROVE DirectionsAddUp
  <2> SUFFICES ASSUME AllIdle, NEW k \in Keys \ replaced, raw[k] # Nil
               PROVE  /\ raw[k]["bytes"] = raw[k]["ingress_bytes"] + raw[k]["egress_bytes"]
                      /\ raw[k]["packets"]
                           = raw[k]["ingress_packets"] + raw[k]["egress_packets"]
    BY DEF DirectionsAddUp
  <2>0. ProgramsTypeOK /\ ProgramPlace /\ EntriesBalanced
    BY <1>3 DEF DirectionsInv, PacketsInv, ProgramsInv
  <2>1. elem[k] # Nil /\ raw[k] = val[elem[k]]
    BY <2>0, RawFacts
  <2>2. PICK e \in Elems : e = elem[k]
    BY <2>0, <2>1 DEF ProgramsTypeOK
  <2>3. \A c \in CPUs : BytesToCome(e)[c] = 0 /\ PacketsToCome(e)[c] = 0
    BY DEF AllIdle, BytesToCome, PacketsToCome
  <2>4. BytesToCome(e) \in [CPUs -> Nat] /\ PacketsToCome(e) \in [CPUs -> Nat]
    BY <2>0, ToComeTypes
  <2>5. SumOver(BytesToCome(e)) = 0 /\ SumOver(PacketsToCome(e)) = 0
    BY <2>3, <2>4, SumOfZeros
  <2>6. Balanced(val[e], SumOver(BytesToCome(e)), SumOver(PacketsToCome(e)))
    BY <2>0, <2>2 DEF EntriesBalanced
  <2>7. \A g \in Fields : val[e][g] \in Nat
    BY <2>0, HalfAssumption DEF ProgramsTypeOK, Counter, Uint, Word
  <2>8. Balanced(val[e], 0, 0)
    BY <2>5, <2>6
  <2> QED BY <2>1, <2>2, <2>7, <2>8, FieldNames DEF Balanced
<1> QED BY <1>1, <1>2, <1>3, PTL DEF Spec

==============================================================================
