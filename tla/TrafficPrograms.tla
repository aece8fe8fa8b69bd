---------------------------- MODULE TrafficPrograms ----------------------------
(***************************************************************************)
(* bpf/ingress.c and bpf/egress.c: the programs that count one packet      *)
(* each, on several CPUs at once, over one hash map.  A program is not     *)
(* atomic: it looks the key up, creates the entry if the lookup missed,    *)
(* looks it up again, and adds to four fields through the pointer it got,  *)
(* one atomic add after the other.                                         *)
(*                                                                         *)
(* The kernel's preallocated hash map (external) has one element for every *)
(* entry it may hold and a spare one per CPU.  An update of a key that has *)
(* an entry does not write into it: the CPU's spare element takes its      *)
(* place and the old one becomes the spare, while a program on another CPU *)
(* may still be adding to it.                                              *)
(***************************************************************************)
EXTENDS TrafficCounters, FiniteSets, Sums

CONSTANTS
  CPUs,
  Slots,        \* the elements for max_entries entries
  Lens,         \* the values of skb->len
  MaxLen,       \* a bound of skb->len, a __u32
  MaxPackets    \* bound: how many packets arrive in a behaviour

ASSUME ProgramBounds ==
  /\ IsFiniteSet(CPUs) /\ IsFiniteSet(Slots)
  /\ MaxLen \in 1 .. (Word - 1) /\ Lens \subseteq 1 .. MaxLen
  /\ MaxPackets \in Nat

(* The CPUs also name the spare elements. *)
ASSUME ElementNames == Slots \intersect CPUs = {} /\ Nil \notin Slots \union CPUs

ASSUME FieldNames ==
  Fields = {"bytes", "packets", "ingress_bytes", "ingress_packets",
            "egress_bytes", "egress_packets"}

VARIABLES
  elem,      \* the hash map: key -> element, or Nil
  val,       \* element -> counter block
  free,      \* elements on the free list
  spare,     \* CPU -> its spare element
  pc,        \* CPU -> where its program is
  pkt,       \* CPU -> the packet its program counts
  ptr,       \* CPU -> the element its program adds to
  done,      \* CPU -> how many of the adds are done
  counted,   \* history: key -> what was added to its entry, field by field
  arrived,   \* history: key -> how many packets of it arrived
  sent,      \* history: how many packets arrived
  replaced   \* history: the keys whose entry another update has replaced

mapState == <<elem, val, free, spare>>

progVars == <<pc, pkt, ptr, done>>

histVars == <<counted, arrived, sent, replaced>>

vars == <<mapState, progVars, histVars>>

Elems == Slots \union CPUs

Directions == {"ingress", "egress"}

Packets == [key : Keys, dir : Directions, len : Lens]

AllIdle == \A c \in CPUs : pc[c] = "idle"

Init ==
  /\ elem = [k \in Keys |-> Nil]
  /\ val = [e \in Elems |-> Zero]
  /\ free = Slots
  /\ spare = [c \in CPUs |-> c]
  /\ pc = [c \in CPUs |-> "idle"]
  /\ pkt = [c \in CPUs |-> Nil]
  /\ ptr = [c \in CPUs |-> Nil]
  /\ done = [c \in CPUs |-> 0]
  /\ counted = [k \in Keys |-> Zero]
  /\ arrived = [k \in Keys |-> 0]
  /\ sent = 0
  /\ replaced = {}

-------------------------------------------------------------------------------
(* The egress program adds to the wrong one of its two fields. *)
MutAdds(p) ==
  <<<<"bytes", p.len>>, <<"packets", 1>>,
    <<IF p.dir = "ingress" THEN "ingress_bytes" ELSE "egress_packets", p.len>>,
    <<IF p.dir = "ingress" THEN "ingress_packets" ELSE "egress_packets", 1>>>>

(* The adds of handle_ingress and handle_egress, in their order. *)
Adds(p) ==
  <<<<"bytes", p.len>>, <<"packets", 1>>,
    <<IF p.dir = "ingress" THEN "ingress_bytes" ELSE "egress_bytes", p.len>>,
    <<IF p.dir = "ingress" THEN "ingress_packets" ELSE "egress_packets", 1>>>>

(* The program of CPU c has found the element e of its key. *)
Found(c, e) ==
  /\ pc' = [pc EXCEPT ![c] = "add"]
  /\ ptr' = [ptr EXCEPT ![c] = e]

(* The program of CPU c returns. *)
Return(c) ==
  /\ pc' = [pc EXCEPT ![c] = "idle"]
  /\ pkt' = [pkt EXCEPT ![c] = Nil]
  /\ ptr' = [ptr EXCEPT ![c] = Nil]
  /\ done' = [done EXCEPT ![c] = 0]

(* A frame with a whole Ethernet header arrives; the first lookup. *)
Arrive(c, p) ==
  /\ pc[c] = "idle"
  /\ sent < MaxPackets
  /\ sent' = sent + 1
  /\ arrived' = [arrived EXCEPT ![p.key] = @ + 1]
  /\ pkt' = [pkt EXCEPT ![c] = p]
  /\ IF elem[p.key] # Nil
       THEN Found(c, elem[p.key])
       ELSE pc' = [pc EXCEPT ![c] = "update"] /\ UNCHANGED ptr
  /\ UNCHANGED <<mapState, done, counted, replaced>>

(* The element e becomes the entry of key k. *)
PutElem(k, e, block) ==
  /\ elem' = [elem EXCEPT ![k] = e]
  /\ val' = [val EXCEPT ![e] = block]

(* Another CPU created the entry meanwhile: it is replaced. *)
Replace(c, k, block) ==
  /\ elem[k] # Nil
  /\ PutElem(k, spare[c], block)
  /\ spare' = [spare EXCEPT ![c] = elem[k]]
  /\ replaced' = replaced \union {k}
  /\ UNCHANGED free

(* There is room: the entry is created. *)
Create(k, e, block) ==
  /\ elem[k] = Nil
  /\ e \in free
  /\ PutElem(k, e, block)
  /\ free' = free \ {e}
  /\ UNCHANGED <<spare, replaced>>

(* E2BIG, which the program ignores. *)
NoRoom(k) ==
  /\ elem[k] = Nil /\ free = {}
  /\ UNCHANGED <<mapState, replaced>>

(* bpf_map_update_elem with BPF_ANY. *)
UpdateWith(c, block) ==
  /\ pc[c] = "update"
  /\ \/ Replace(c, pkt[c].key, block)
     \/ \E e \in free : Create(pkt[c].key, e, block)
     \/ NoRoom(pkt[c].key)
  /\ pc' = [pc EXCEPT ![c] = "lookup"]
  /\ UNCHANGED <<pkt, ptr, done, counted, arrived, sent>>

(* new_counter without its "= {}": whatever the stack held. *)
MutUpdate(c) == UpdateWith(c, [f \in Fields |-> 1])

Update(c) == UpdateWith(c, Zero)

(* The program returns after it created the entry. *)
MutLookupAgain(c) ==
  /\ pc[c] = "lookup"
  /\ Return(c)
  /\ UNCHANGED <<mapState, histVars>>

(* The second lookup; without an entry the packet is not counted. *)
LookupAgain(c) ==
  /\ pc[c] = "lookup"
  /\ IF elem[pkt[c].key] # Nil
       THEN Found(c, elem[pkt[c].key]) /\ UNCHANGED <<pkt, done>>
       ELSE Return(c)
  /\ UNCHANGED <<mapState, histVars>>

(* __sync_fetch_and_add through the pointer, wherever the element is now. *)
AddTo(e, f, n) ==
  /\ val' = [val EXCEPT ![e][f] = Add64(@, n)]
  /\ counted' = [k \in Keys |->
       IF elem[k] = e THEN [counted[k] EXCEPT ![f] = @ + n] ELSE counted[k]]

Add(c) ==
  /\ pc[c] = "add"
  /\ LET a == Adds(pkt[c])[done[c] + 1] IN AddTo(ptr[c], a[1], a[2])
  /\ IF done[c] = 3
       THEN Return(c)
       ELSE done' = [done EXCEPT ![c] = @ + 1] /\ UNCHANGED <<pc, pkt, ptr>>
  /\ UNCHANGED <<elem, free, spare, arrived, sent, replaced>>

Next ==
  \E c \in CPUs :
    \/ \E p \in Packets : Arrive(c, p)
    \/ Update(c)
    \/ LookupAgain(c)
    \/ Add(c)

Spec == Init /\ [][Next]_vars

-------------------------------------------------------------------------------
(* The map as user space sees it. *)
raw == [k \in Keys |-> IF elem[k] = Nil THEN Nil ELSE val[elem[k]]]

Map == INSTANCE TrafficMap
         WITH MaxEntries <- Cardinality(Slots),
              MaxCounted <- MaxLen * MaxPackets

(***************************************************************************)
(* The programs implement TrafficMap: whatever they do on however many     *)
(* CPUs, user space sees entries that start at zero, grow one add at a     *)
(* time, are never deleted and never exceed max_entries; the one other     *)
(* thing that happens to an entry is that a zero block replaces it.        *)
(***************************************************************************)
ImplementsTrafficMap == Map!MapSpec

(***************************************************************************)
(* When no program is under way, the bytes and packets of an entry that    *)
(* was never replaced are the sums of its two directions: the two programs *)
(* agree on the fields, an entry has all four adds of a packet or none,    *)
(* and no add meant for another key ends up in it.                         *)
(***************************************************************************)
DirectionsAddUp ==
  AllIdle => \A k \in Keys \ replaced : raw[k] # Nil =>
    /\ raw[k]["bytes"] = raw[k]["ingress_bytes"] + raw[k]["egress_bytes"]
    /\ raw[k]["packets"] = raw[k]["ingress_packets"] + raw[k]["egress_packets"]

(* The entry of key k has counted every packet that arrived; without an    *)
(* entry, the map was full.                                                *)
EveryPacketCounted(k) ==
  \/ elem[k] # Nil /\ val[elem[k]]["packets"] = arrived[k]
  \/ elem[k] = Nil /\ (arrived[k] > 0 => free = {})

(***************************************************************************)
(* The replacement of an entry is the only way to lose a packet, however   *)
(* the programs interleave and even though elements are recycled while     *)
(* another CPU still adds to them: every other entry has counted every     *)
(* packet of its key, the first one included.                              *)
(***************************************************************************)
OnlyReplacementLoses == AllIdle => \A k \in Keys \ replaced : EveryPacketCounted(k)

(***************************************************************************)
(* docs/zh/README.md calls the adds safe on multiple cores: an entry has   *)
(* counted every packet of its key.                                        *)
(***************************************************************************)
NothingLost == AllIdle => \A k \in Keys : EveryPacketCounted(k)

-------------------------------------------------------------------------------
(* The inductive invariants behind ImplementsTrafficMap (ProgramsInv),     *)
(* OnlyReplacementLoses (PacketsInv) and DirectionsAddUp (DirectionsInv).  *)

ProgramsTypeOK ==
  /\ elem \in [Keys -> Elems \union {Nil}]
  /\ val \in [Elems -> Counter]
  /\ free \subseteq Slots
  /\ spare \in [CPUs -> Elems]
  /\ pc \in [CPUs -> {"idle", "update", "lookup", "add"}]
  /\ pkt \in [CPUs -> Packets \union {Nil}]
  /\ ptr \in [CPUs -> Elems \union {Nil}]
  /\ done \in [CPUs -> 0 .. 3]
  /\ counted \in [Keys -> [Fields -> Nat]]
  /\ arrived \in [Keys -> Nat]
  /\ sent \in 0 .. MaxPackets
  /\ replaced \subseteq Keys

(* A program under way has a packet, and one that adds has an element. *)
ProgramPlace ==
  \A c \in CPUs :
    /\ pc[c] # "idle" => pkt[c] \in Packets
    /\ pc[c] = "add" => ptr[c] \in Elems
    /\ pc[c] # "add" => done[c] = 0

(* An element belongs to one key, to one CPU or to the free list. *)
OneOwner ==
  /\ \A k, l \in Keys : elem[k] = elem[l] /\ elem[k] # Nil => k = l
  /\ \A c, d \in CPUs : spare[c] = spare[d] => c = d
  /\ \A k \in Keys : elem[k] \notin free
  /\ \A c \in CPUs : spare[c] \notin free
  /\ \A k \in Keys, c \in CPUs : elem[k] # spare[c]

Entries == {k \in Keys : elem[k] # Nil}

(* Replacements leave the number of entries alone. *)
RoomLeft ==
  /\ IsFiniteSet(Entries)
  /\ Cardinality(Entries) + Cardinality(free) = Cardinality(Slots)

(* The CPUs that may yet add to field f, of whatever entry. *)
StillAdds(f) ==
  {c \in CPUs : \/ pc[c] \in {"update", "lookup"}
                \/ pc[c] = "add" /\ \E i \in (done[c] + 1) .. 4 : Adds(pkt[c])[i][1] = f}

(* A packet adds to a field at most once, and at most its length. *)
CountBounded ==
  \A k \in Keys, f \in Fields :
    counted[k][f] + MaxLen * Cardinality(StillAdds(f)) <= MaxLen * sent

ProgramsInv ==
  /\ ProgramsTypeOK
  /\ ProgramPlace
  /\ OneOwner
  /\ RoomLeft
  /\ CountBounded

(* No program adds to an element of the free list, so that an entry which  *)
(* is created gets no adds meant for another key.                          *)
FreeUntouched == \A c \in CPUs : pc[c] = "add" => ptr[c] \notin free

(* A second lookup misses only if the map is full. *)
MissMeansFull ==
  \A c \in CPUs : pc[c] = "lookup" /\ elem[pkt[c].key] = Nil => free = {}

(* The CPUs with a packet that the entry of key k has yet to count. *)
Uncounted(k) ==
  {c \in CPUs : \/ pc[c] \in {"update", "lookup"} /\ pkt[c].key = k
                \/ pc[c] = "add" /\ ptr[c] = elem[k] /\ done[c] < 2}

(* Where no entry was replaced, a packet is counted or under way. *)
PacketsAccountedFor ==
  \A k \in Keys \ replaced :
    IF elem[k] # Nil
    THEN val[elem[k]]["packets"] + Cardinality(Uncounted(k)) = arrived[k]
    ELSE free # {} => Cardinality(Uncounted(k)) = arrived[k]

PacketsInv ==
  /\ ProgramsInv
  /\ \A k \in Keys : arrived[k] <= sent
  /\ FreeUntouched
  /\ MissMeansFull
  /\ PacketsAccountedFor

(* What the adds after the first one have yet to bring to the directions'  *)
(* bytes of element e, CPU by CPU.                                         *)
BytesToCome(e) ==
  [c \in CPUs |-> IF pc[c] = "add" /\ ptr[c] = e /\ done[c] \in {1, 2}
                    THEN pkt[c].len ELSE 0]

(* The same for the packets, which the second add counts. *)
PacketsToCome(e) ==
  [c \in CPUs |-> IF pc[c] = "add" /\ ptr[c] = e /\ done[c] \in {2, 3}
                    THEN 1 ELSE 0]

(* The directions of a block, and what is yet to come, make its total. *)
Balanced(b, bytes, packets) ==
  /\ b["bytes"] = b["ingress_bytes"] + b["egress_bytes"] + bytes
  /\ b["packets"] = b["ingress_packets"] + b["egress_packets"] + packets

EntriesBalanced ==
  \A k \in Keys \ replaced, e \in Elems : elem[k] = e =>
    Balanced(val[e], SumOver(BytesToCome(e)), SumOver(PacketsToCome(e)))

(* An entry never holds more than was added to the entries of its key. *)
EntryWithinCounted ==
  \A k \in Keys, f \in Fields : elem[k] # Nil => val[elem[k]][f] <= counted[k][f]

DirectionsInv ==
  /\ PacketsInv
  /\ EntryWithinCounted
  /\ EntriesBalanced

==============================================================================
