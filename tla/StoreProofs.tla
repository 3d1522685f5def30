----------------------------- MODULE StoreProofs -----------------------------
(****************************************************************************)
(* Proofs about what messages and memory are kept in: the ring of Queue.c   *)
(* and the block map of malloc.c.                                           *)
(****************************************************************************)
EXTENDS InterQueue, MyMalloc, SequenceTheorems, TLAPS

(****************************************************************************)
(* The ring, for every capacity and every set of messages: its indices stay *)
(* consistent, and it implements LossyFifo.                                 *)
(****************************************************************************)
(* The inductive invariant: neither conjunct is inductive alone when the    *)
(* capacity is one, and RingConsistent needs the ranges of TypeOK.          *)
RingInv == TypeOK /\ RingConsistent

LEMMA InitRingInv == Init => RingInv
BY MaxCountAssumption DEF Init, RingInv, TypeOK, RingConsistent, Slots, Slot

LEMMA WrapInSlots == ASSUME NEW k \in Slots PROVE Wrap(k) \in Slots
BY MaxCountAssumption DEF Wrap, Slots

(* Every call keeps the invariant. *)
LEMMA NextRingInv == RingInv /\ [Next]_vars => RingInv'
<1> SUFFICES ASSUME RingInv, [Next]_vars PROVE RingInv'
  OBVIOUS
<1> USE MaxCountAssumption DEF RingInv, TypeOK, RingConsistent
<1>1. CASE InitQueueinter
  BY <1>1 DEF InitQueueinter, Slots, Slot
<1>2. ASSUME NEW m \in Msgs, EnQueueRoom(m) PROVE RingInv'
  BY <1>2 DEF EnQueueRoom, Slots, Slot, Wrap
<1>3. ASSUME NEW m \in Msgs, EnQueueFull(m) PROVE RingInv'
  BY <1>3 DEF EnQueueFull, Slots, Slot, Wrap
<1>4. CASE GetAndDelQueueinter
  BY <1>4 DEF GetAndDelQueueinter, Slots, Slot, Wrap
<1>5. CASE GetQueueinter
  BY <1>5 DEF GetQueueinter, Slots, Slot
<1>6. CASE DelQueueinter
  BY <1>6 DEF DelQueueinter, Slots, Slot, Wrap
<1>7. CASE QueueEmptyErr
  BY <1>7 DEF QueueEmptyErr
<1>8. CASE UNCHANGED vars
  BY <1>8 DEF vars
<1> QED
  BY <1>1, <1>2, <1>3, <1>4, <1>5, <1>6, <1>7, <1>8 DEF Next, EnQueueinter

(* The fields of struct interQueue stay in range, so no memcpy of Queue.c   *)
(* leaves the array, when calls do not overlap.                             *)
THEOREM TypeCorrect == Spec => []TypeOK
<1>1. RingInv => TypeOK
  BY DEF RingInv
<1> QED
  BY InitRingInv, NextRingInv, <1>1, PTL DEF Spec

(* front, rear and QueueCount always describe the same segment of the ring. *)
THEOREM RingAlwaysConsistent == Spec => []RingConsistent
<1>1. RingInv => RingConsistent
  BY DEF RingInv
<1> QED
  BY InitRingInv, NextRingInv, <1>1, PTL DEF Spec
-----------------------------------------------------------------------------
Items == Msgs \cup {Blank}

(* Walking n <= MaxCount slots from front never leaves the array. *)
LEMMA SlotInRange ==
  ASSUME NEW f \in 0 .. MaxCount - 1, NEW n \in 0 .. MaxCount, NEW k \in 1 .. n
  PROVE  Slot(f + k - 1) \in 0 .. MaxCount - 1
BY MaxCountAssumption DEF Slot

(* The segment of the ring the count describes is a sequence of that length. *)
LEMMA ContentsIsSeq ==
  ASSUME TypeOK
  PROVE  /\ Contents \in Seq(Items)
         /\ Len(Contents) = QueueCount
         /\ \A k \in 1 .. QueueCount : Contents[k] = QNode[Slot(front + k - 1)]
<1>1. \A k \in 1 .. QueueCount : QNode[Slot(front + k - 1)] \in Items
  BY MaxCountAssumption DEF TypeOK, Slots, Slot, Items
<1>2. QueueCount \in Nat
  BY MaxCountAssumption DEF TypeOK
<1> QED
  BY <1>1, <1>2 DEF Contents

LEMMA ContentsIsSeqNext ==
  ASSUME TypeOK'
  PROVE  /\ Contents' \in Seq(Items)
         /\ Len(Contents') = QueueCount'
         /\ \A k \in 1 .. QueueCount' : Contents'[k] = QNode'[Slot(front' + k - 1)]
<1>1. \A k \in 1 .. QueueCount' : QNode'[Slot(front' + k - 1)] \in Items
  <2>1. /\ front' \in 0 .. MaxCount - 1 /\ QueueCount' \in 0 .. MaxCount
        /\ QNode' \in [0 .. MaxCount - 1 -> Items]
    BY DEF TypeOK, Slots, Items
  <2>2. \A k \in 1 .. QueueCount' : Slot(front' + k - 1) \in 0 .. MaxCount - 1
    BY <2>1, SlotInRange
  <2> QED
    BY <2>1, <2>2
<1>2. QueueCount' \in Nat
  BY MaxCountAssumption DEF TypeOK
<1> QED
  BY <1>1, <1>2 DEF Contents, Slot

(* Writing the slot at rear and counting it appends to the contents: no     *)
(* queued message sits in the slot at rear while there is room.             *)
LEMMA RoomAppends ==
  ASSUME RingInv, RingInv', NEW m \in Msgs, EnQueueRoom(m)
  PROVE  Contents' = Append(Contents, m)
<1> DEFINE A == Append(Contents, m)
<1>1. /\ Contents \in Seq(Items) /\ Len(Contents) = QueueCount
      /\ \A k \in 1 .. QueueCount : Contents[k] = QNode[Slot(front + k - 1)]
  BY ContentsIsSeq DEF RingInv
<1>2. /\ Contents' \in Seq(Items) /\ Len(Contents') = QueueCount'
      /\ \A k \in 1 .. QueueCount' : Contents'[k] = QNode'[Slot(front' + k - 1)]
  BY ContentsIsSeqNext DEF RingInv
<1>3. A \in Seq(Items) /\ Len(A) = QueueCount + 1
      /\ A[QueueCount + 1] = m /\ \A k \in 1 .. QueueCount : A[k] = Contents[k]
  BY <1>1 DEF Items
<1>4. QueueCount' = QueueCount + 1 /\ front' = front /\ QueueCount \in Nat
  BY DEF EnQueueRoom, RingInv, TypeOK
<1>5. ASSUME NEW k \in 1 .. QueueCount + 1 PROVE Contents'[k] = A[k]
  <2>1. Contents'[k] = QNode'[Slot(front + k - 1)]
    BY <1>2, <1>4
  <2>2. CASE k = QueueCount + 1
    <3>1. Slot(front + k - 1) = rear
      BY <2>2 DEF RingInv, TypeOK, RingConsistent, Slots
    <3> QED
      BY <3>1, <2>1, <2>2, <1>3 DEF EnQueueRoom, RingInv, TypeOK
  <2>3. CASE k \in 1 .. QueueCount
    <3>1. Slot(front + k - 1) # rear /\ Slot(front + k - 1) \in Slots
      BY <2>3, MaxCountAssumption
      DEF RingInv, TypeOK, RingConsistent, Slots, Slot, EnQueueRoom
    <3> QED
      BY <3>1, <2>1, <2>3, <1>1, <1>3 DEF EnQueueRoom, RingInv, TypeOK
  <2>4. k = QueueCount + 1 \/ k \in 1 .. QueueCount
    BY <1>4
  <2> QED
    BY <2>2, <2>3, <2>4
<1>6. \A k \in 1 .. Len(Contents') : Contents'[k] = A[k]
  BY <1>2, <1>4, <1>5
<1>7. Len(Contents') = Len(A)
  BY <1>2, <1>3, <1>4
<1> QED
  BY <1>2, <1>3, <1>6, <1>7, SeqEqual

(* After a flush the new message is the only one. *)
LEMMA FullStartsOver ==
  ASSUME RingInv, RingInv', NEW m \in Msgs, EnQueueFull(m)
  PROVE  Contents' = <<m>>
<1>1. /\ Contents' \in Seq(Items) /\ Len(Contents') = 1
      /\ Contents'[1] = QNode'[Slot(0)]
  <2>1. QueueCount' = 1 /\ front' = 0
    BY DEF EnQueueFull
  <2> QED
    BY <2>1, ContentsIsSeqNext DEF RingInv
<1>2. QNode'[Slot(0)] = m
  BY MaxCountAssumption DEF EnQueueFull, RingInv, TypeOK, Slot, Slots
<1>3. <<m>> \in Seq(Items) /\ Len(<<m>>) = 1 /\ <<m>>[1] = m
  BY DEF Items
<1> QED
  BY <1>1, <1>2, <1>3, SeqEqual

(* Advancing front and uncounting removes the head of the contents. *)
LEMMA AdvanceIsTail ==
  ASSUME RingInv, RingInv', QueueCount > 0, front' = Wrap(front),
         QueueCount' = QueueCount - 1, QNode' = QNode
  PROVE  Contents # <<>> /\ Head(Contents) = QNode[front] /\ Contents' = Tail(Contents)
<1>1. /\ Contents \in Seq(Items) /\ Len(Contents) = QueueCount
      /\ \A k \in 1 .. QueueCount : Contents[k] = QNode[Slot(front + k - 1)]
  BY ContentsIsSeq DEF RingInv
<1>2. /\ Contents' \in Seq(Items) /\ Len(Contents') = QueueCount'
      /\ \A k \in 1 .. QueueCount' : Contents'[k] = QNode'[Slot(front' + k - 1)]
  BY ContentsIsSeqNext DEF RingInv
<1>3. QueueCount \in Nat /\ front \in Slots
  BY DEF RingInv, TypeOK
<1>4. Contents # <<>>
  BY <1>1, <1>3
<1>5. Head(Contents) = QNode[front]
  <2>1. Head(Contents) = Contents[1]
    BY <1>1, <1>4
  <2>2. Slot(front + 1 - 1) = front
    BY <1>3, MaxCountAssumption DEF Slot, Slots
  <2> QED
    BY <2>1, <2>2, <1>1, <1>3
<1>6. /\ Tail(Contents) \in Seq(Items) /\ Len(Tail(Contents)) = QueueCount - 1
      /\ \A k \in 1 .. QueueCount - 1 : Tail(Contents)[k] = Contents[k + 1]
  BY <1>1, <1>4, HeadTailProperties
<1>7. ASSUME NEW k \in 1 .. QueueCount - 1 PROVE Contents'[k] = Tail(Contents)[k]
  <2>1. Slot(front' + k - 1) = Slot(front + (k + 1) - 1)
    BY <1>3, MaxCountAssumption DEF Slot, Slots, Wrap, RingInv, TypeOK
  <2>2. k + 1 \in 1 .. QueueCount
    BY <1>3
  <2> QED
    BY <2>1, <2>2, <1>1, <1>2, <1>6
<1> QED
  BY <1>2, <1>4, <1>5, <1>6, <1>7, SeqEqual

(* A step that leaves the ring alone leaves its contents alone. *)
LEMMA SameRing ==
  ASSUME UNCHANGED <<front, QueueCount, QNode>>
  PROVE  Contents' = Contents
BY DEF Contents, Slot

(* Every call of Queue.c is a step of the abstract queue. *)
LEMMA StepRefines == RingInv /\ RingInv' /\ [Next]_vars => [Fifo!Next]_(Fifo!vars)
<1> SUFFICES ASSUME RingInv, RingInv', [Next]_vars PROVE [Fifo!Next]_(Fifo!vars)
  OBVIOUS
<1>1. QueueCount \in Nat /\ (Contents = <<>> <=> QueueCount = 0)
      /\ Len(Contents) = QueueCount
  BY ContentsIsSeq DEF RingInv, TypeOK
<1>2. CASE InitQueueinter
  <2>1. QueueCount' = 0
    BY <1>2 DEF InitQueueinter
  <2>2. Contents' = <<>>
    BY <2>1, ContentsIsSeqNext, EmptySeq DEF RingInv
  <2> QED
    BY <2>2, <1>2 DEF InitQueueinter, Fifo!Next, Fifo!Clear
<1>3. ASSUME NEW m \in Msgs, EnQueueRoom(m) PROVE Fifo!Next
  BY <1>1, <1>3, RoomAppends DEF EnQueueRoom, Fifo!Next, Fifo!Put
<1>4. ASSUME NEW m \in Msgs, EnQueueFull(m) PROVE Fifo!Next
  <2>1. ~(Len(Contents) < MaxCount)
    BY <1>1, <1>4, MaxCountAssumption DEF EnQueueFull
  <2> QED
    BY <2>1, <1>4, FullStartsOver DEF EnQueueFull, Fifo!Next, Fifo!Put
<1>5. CASE GetAndDelQueueinter
  <2>1. Contents # <<>> /\ Head(Contents) = QNode[front] /\ Contents' = Tail(Contents)
    BY <1>5, AdvanceIsTail DEF GetAndDelQueueinter
  <2> QED
    BY <2>1, <1>5 DEF GetAndDelQueueinter, Fifo!Next, Fifo!Take
<1>6. CASE GetQueueinter
  <2>1. Contents' = Contents
    BY <1>6, SameRing DEF GetQueueinter
  <2>2. Head(Contents) = QNode[front]
    <3>1. Contents[1] = QNode[Slot(front + 1 - 1)]
      BY <1>6, <1>1, ContentsIsSeq DEF GetQueueinter, RingInv
    <3>2. Slot(front + 1 - 1) = front
      BY MaxCountAssumption DEF RingInv, TypeOK, Slot, Slots
    <3>3. Head(Contents) = Contents[1]
      BY ContentsIsSeq, <1>1, <1>6 DEF RingInv, GetQueueinter
    <3> QED
      BY <3>1, <3>2, <3>3
  <2>3. Contents # <<>>
    BY <1>1, <1>6 DEF GetQueueinter
  <2> QED
    BY <2>1, <2>2, <2>3, <1>6 DEF GetQueueinter, Fifo!Next, Fifo!Peek
<1>7. CASE DelQueueinter
  <2>1. Contents # <<>> /\ Contents' = Tail(Contents)
    BY <1>7, AdvanceIsTail DEF DelQueueinter
  <2> QED
    BY <2>1, <1>7 DEF DelQueueinter, Fifo!Next, Fifo!Drop
<1>8. CASE QueueEmptyErr
  <2>1. Contents' = Contents
    BY <1>8, SameRing DEF QueueEmptyErr
  <2>2. Contents = <<>>
    BY <1>1, <1>8 DEF QueueEmptyErr
  <2> QED
    BY <2>1, <2>2, <1>8 DEF QueueEmptyErr, Fifo!Next, Fifo!Refuse
<1>9. CASE UNCHANGED vars
  <2>1. Contents' = Contents
    BY <1>9, SameRing DEF vars
  <2> QED
    BY <2>1, <1>9 DEF vars, Fifo!vars
<1> QED
  BY <1>2, <1>3, <1>4, <1>5, <1>6, <1>7, <1>8, <1>9 DEF Next, EnQueueinter

(* Queue.c implements the bounded FIFO that drops everything on overflow,   *)
(* whatever the capacity: with calls that do not overlap, each reading call *)
(* returns the oldest message neither taken nor flushed.                    *)
THEOREM ImplementsLossyFifo == Spec => FifoSpec
<1>1. Init => Fifo!Init
  <2> SUFFICES ASSUME Init PROVE Fifo!Init
    OBVIOUS
  <2>1. RingInv
    BY InitRingInv
  <2>2. Contents = <<>>
    BY <2>1, ContentsIsSeq, EmptySeq DEF RingInv, Init
  <2> QED
    BY <2>2 DEF Init, Fifo!Init
<1> QED
  BY <1>1, InitRingInv, NextRingInv, StepRefines, PTL DEF Spec, FifoSpec, Fifo!Spec
-----------------------------------------------------------------------------
(****************************************************************************)
(* The block map, for every map, every set of tasks, of sizes and every     *)
(* number of regions.                                                       *)
(*                                                                          *)
(* Two facts carry it.  As long as no mymalloc began inside another one, a  *)
(* block is marked exactly when one call or one region owns it; a release   *)
(* only adds free blocks, so a search it preempts goes on being right.  And *)
(* a search nobody preempted knows why each place above it is too short.    *)
(****************************************************************************)
(* What a call may be at, whatever happened to the map.                     *)
CallShape(p) ==
  /\ step[p] = "out" => offset[p] = 0 /\ cmemb[p] = 0 /\ nmemb[p] = 0 /\ i[p] = 0
  /\ step[p] = "scan" => nmemb[p] >= 1 /\ i[p] = 0 /\ offset[p] + cmemb[p] <= Top
  /\ step[p] = "mark" => nmemb[p] >= 1 /\ i[p] <= nmemb[p] /\ offset[p] + nmemb[p] <= Blocks
  /\ step[p] = "clear" => nmemb[p] <= Blocks /\ i[p] <= nmemb[p]
Shapes == MemTypeOK /\ \A p \in Tasks : CallShape(p)

(* Why a search that was never preempted has found no place yet.            *)
Short(at, n) == at + n <= Blocks => \E b \in at .. at + n - 1 : memmap[b] # 0
Searched(p) ==
  (step[p] = "scan" /\ p \notin disturbed) =>
    /\ \A q \in Tasks : q < p => step[q] = "out"
    /\ cmemb[p] < nmemb[p]
    /\ offset[p] + cmemb[p] < Top => memmap[offset[p] + cmemb[p] + 1] # 0
    /\ \A at \in offset[p] + 1 .. Top : Short(at, nmemb[p])

(* What the map says of the regions and of the blocks a call is at.         *)
Held(p) ==
  \A r \in regions[p] : /\ r.len >= 1 /\ r.at + r.len <= Blocks
                        /\ \A b \in BlocksOf(r) : memmap[b] = r.len
Found(p) ==
  /\ step[p] = "scan" => \A b \in offset[p] + 1 .. offset[p] + cmemb[p] : memmap[b] = 0
  /\ step[p] = "mark" => /\ \A b \in InCall(p) : memmap[b] = nmemb[p]
                         /\ \A b \in offset[p] + i[p] .. offset[p] + nmemb[p] - 1 : memmap[b] = 0
  /\ step[p] = "clear" => nmemb[p] >= 1 /\ offset[p] + nmemb[p] <= Blocks
OneSearch == \A p, q \in Tasks : {step[p], step[q]} \subseteq {"scan", "mark"} => p = q
MapRight ==
  ~clashed => /\ OneSearch /\ BlocksAccounted
              /\ \A p \in Tasks : Held(p) /\ Found(p)

MemInv == Shapes /\ (\A p \in Tasks : Searched(p)) /\ MapRight
-----------------------------------------------------------------------------
LEMMA Blocksizes ==
  /\ Blocks \in Nat \ {0} /\ Top = Blocks - 1 /\ Top \in Nat
  /\ \A p \in Tasks : p \in Nat
  /\ \A size \in Sizes \ {0} : BlocksFor(size) \in Nat /\ BlocksFor(size) >= 1
<1>1. /\ Blocks \in Nat \ {0} /\ Top = Blocks - 1 /\ Top \in Nat
      /\ \A p \in Tasks : p \in Nat
  BY MallocAssumption DEF Top
<1>2. ASSUME NEW size \in Sizes \ {0} PROVE BlocksFor(size) \in Nat /\ BlocksFor(size) >= 1
  <2>1. size \in Nat /\ size > 0 /\ BlockSize \in Nat /\ BlockSize > 0
    BY MallocAssumption
  <2>2. size \div BlockSize \in Int /\ size \div BlockSize >= 0
    BY <2>1
  <2>3. size % BlockSize = 0 => size \div BlockSize >= 1
    BY <2>1
  <2> QED
    BY <2>2, <2>3 DEF BlocksFor
<1> QED
  BY <1>1, <1>2

LEMMA InitInv == MemInit => MemInv
<1> SUFFICES ASSUME MemInit PROVE MemInv
  OBVIOUS
<1>1. Shapes
  <2>1. MemTypeOK
    <3>1. 0 \in 0 .. Blocks - 1 /\ 0 \in 0 .. Blocks /\ 0 \in Nat /\ {} \in SUBSET Region
      BY Blocksizes
    <3> QED
      BY <3>1 DEF MemInit, MemTypeOK
  <2>2. \A p \in Tasks : CallShape(p)
    BY DEF MemInit, CallShape
  <2> QED
    BY <2>1, <2>2 DEF Shapes
<1>2. \A p \in Tasks : Searched(p) /\ Held(p) /\ Found(p)
  BY DEF MemInit, Searched, Held, Found
<1>3. \A p \in Tasks : Owned(p) = {} /\ InCall(p) = {}
  BY DEF MemInit, Owned, InCall
<1>4. BlocksAccounted
  <2>1. {b \in DOMAIN memmap : memmap[b] # 0} = {}
    BY DEF MemInit
  <2>2. UNION {Owned(p) : p \in Tasks} = {}
    BY <1>3
  <2> QED
    BY <1>3, <2>1, <2>2 DEF BlocksAccounted, MemInit
<1>5. OneSearch
  BY DEF MemInit, OneSearch
<1> QED
  BY <1>1, <1>2, <1>4, <1>5 DEF MemInv, MapRight

(* Only the task that runs moves.                                           *)
Others(p) ==
  \A q \in Tasks \ {p} : /\ step'[q] = step[q] /\ offset'[q] = offset[q] /\ cmemb'[q] = cmemb[q]
                         /\ nmemb'[q] = nmemb[q] /\ i'[q] = i[q] /\ regions'[q] = regions[q]
MemStep(p) == mymalloc(p) \/ Scan(p) \/ Mark(p) \/ Given(p) \/ myfree(p) \/ ClearMap(p)

LEMMA OnlyOne == ASSUME MemTypeOK, NEW p \in Tasks, MemStep(p) PROVE Others(p)
BY DEF MemTypeOK, MemStep, mymalloc, Scan, Mark, Given, myfree, ClearMap, Leave, Others

(* Leaving a call. *)
LEMMA Left ==
  ASSUME MemTypeOK, NEW p \in Tasks, Leave(p)
  PROVE  /\ step' = [step EXCEPT ![p] = "out"]
         /\ step' \in [Tasks -> {"out", "scan", "mark", "clear"}]
         /\ offset' \in [Tasks -> 0 .. Blocks - 1] /\ cmemb' \in [Tasks -> 0 .. Blocks]
         /\ nmemb' \in [Tasks -> Nat] /\ i' \in [Tasks -> 0 .. Blocks]
         /\ step'[p] = "out" /\ CallShape(p)'
BY Blocksizes DEF MemTypeOK, Leave, CallShape

LEMMA ShapesNext == ASSUME Shapes, NEW p \in Tasks, MemStep(p) PROVE Shapes'
<1>1. MemTypeOK /\ CallShape(p) /\ Others(p)
  BY OnlyOne DEF Shapes
<1>2. SUFFICES MemTypeOK' /\ CallShape(p)'
  BY <1>1 DEF Shapes, CallShape, Others
<1>3. disturbed' \subseteq Tasks /\ clashed' \in BOOLEAN
  BY <1>1 DEF MemTypeOK, MemStep, mymalloc, Scan, Mark, Given, myfree, ClearMap, Preempts, ghosts
<1>4. CASE mymalloc(p)
  <2>1. PICK size \in Sizes \ {0} : nmemb' = [nmemb EXCEPT ![p] = BlocksFor(size)]
    BY <1>4 DEF mymalloc
  <2>2. nmemb' \in [Tasks -> Nat] /\ nmemb'[p] >= 1
    BY <1>1, <2>1, Blocksizes DEF MemTypeOK
  <2>3. step[p] = "out"
    BY <1>4, Blocksizes DEF mymalloc, MayCall
  <2> QED
    BY <1>1, <1>3, <1>4, <2>2, <2>3, Blocksizes DEF mymalloc, MemTypeOK, CallShape
<1>5. CASE Scan(p)
  <2>1. step[p] = "scan" /\ UNCHANGED <<memmap, regions>>
    BY <1>5 DEF Scan
  <2>2. CASE Count(p) = nmemb[p]
    <3>1. step' = [step EXCEPT ![p] = "mark"] /\ UNCHANGED <<offset, cmemb, nmemb, i>>
      BY <1>5, <2>2 DEF Scan
    <3>2. nmemb[p] <= cmemb[p] + 1
      BY <1>1, <2>1, <2>2 DEF Count, CallShape, MemTypeOK
    <3>3. step'[p] = "mark" /\ step' \in [Tasks -> {"out", "scan", "mark", "clear"}]
      BY <1>1, <3>1 DEF MemTypeOK
    <3>4. nmemb[p] >= 1 /\ i[p] = 0 /\ offset[p] + nmemb[p] <= Blocks
      BY <1>1, <2>1, <3>2, Blocksizes DEF MemTypeOK, CallShape
    <3> QED
      BY <1>1, <1>3, <2>1, <3>1, <3>3, <3>4 DEF MemTypeOK, CallShape
  <2>3. CASE Count(p) # nmemb[p] /\ offset[p] = 0
    BY <1>1, <1>3, <1>5, <2>1, <2>3, Left DEF Scan, MemTypeOK
  <2>4. CASE Count(p) # nmemb[p] /\ offset[p] # 0
    <3>1. /\ offset' = [offset EXCEPT ![p] = @ - 1] /\ cmemb' = [cmemb EXCEPT ![p] = Count(p)]
          /\ UNCHANGED <<step, nmemb, i>>
      BY <1>5, <2>4 DEF Scan
    <3>0. cmemb[p] \in Nat /\ offset[p] \in 0 .. Blocks - 1 /\ offset[p] + cmemb[p] <= Top
      BY <1>1, <2>1 DEF MemTypeOK, CallShape
    <3>2. Count(p) \in 0 .. cmemb[p] + 1 /\ offset[p] - 1 \in 0 .. Blocks - 1
      BY <2>4, <3>0, Blocksizes DEF Count
    <3>3. Count(p) \in 0 .. Blocks /\ offset[p] - 1 + Count(p) <= Top
      BY <3>0, <3>2, Blocksizes
    <3> QED
      BY <1>1, <1>3, <2>1, <3>1, <3>2, <3>3 DEF MemTypeOK, CallShape
  <2> QED
    BY <2>2, <2>3, <2>4
<1>6. CASE Mark(p)
  <2>1. /\ step[p] = "mark" /\ i[p] < nmemb[p] /\ i' = [i EXCEPT ![p] = @ + 1]
        /\ memmap' = [memmap EXCEPT ![offset[p] + i[p]] = nmemb[p]]
        /\ UNCHANGED <<step, offset, cmemb, nmemb, regions>>
    BY <1>6 DEF Mark
  <2>2. nmemb[p] \in 0 .. Blocks /\ i[p] + 1 \in 0 .. Blocks
    <3>1. nmemb[p] \in Nat /\ i[p] \in Nat /\ offset[p] \in Nat /\ offset[p] + nmemb[p] <= Blocks
      BY <1>1, <2>1 DEF MemTypeOK, CallShape
    <3> QED
      BY <2>1, <3>1, Blocksizes
  <2>3. memmap' \in [0 .. Blocks - 1 -> 0 .. Blocks] /\ i' \in [Tasks -> 0 .. Blocks]
    BY <1>1, <2>1, <2>2 DEF MemTypeOK
  <2>4. i'[p] <= nmemb[p] /\ step'[p] = "mark"
    BY <1>1, <2>1 DEF MemTypeOK
  <2> QED
    BY <1>1, <1>3, <2>1, <2>3, <2>4 DEF MemTypeOK, CallShape
<1>7. CASE Given(p)
  <2>1. [at |-> offset[p], len |-> nmemb[p]] \in Region
    BY <1>1, <1>7, Blocksizes DEF Given, MemTypeOK, CallShape, Region
  <2>2. regions' \in [Tasks -> SUBSET Region]
    BY <1>1, <1>7, <2>1 DEF Given, MemTypeOK
  <2> QED
    BY <1>1, <1>3, <1>7, <2>2, Left DEF Given, MemTypeOK
<1>8. CASE myfree(p)
  <2>1. PICK r \in regions[p] :
          /\ regions' = [regions EXCEPT ![p] = @ \ {r}]
          /\ offset' = [offset EXCEPT ![p] = r.at] /\ nmemb' = [nmemb EXCEPT ![p] = memmap[r.at]]
    BY <1>8 DEF myfree
  <2>2. r.at \in 0 .. Blocks - 1 /\ regions' \in [Tasks -> SUBSET Region]
    BY <1>1, <2>1 DEF MemTypeOK, Region
  <2>3. memmap[r.at] \in 0 .. Blocks
    BY <1>1, <2>2 DEF MemTypeOK
  <2>4. step[p] = "out"
    BY <1>8, Blocksizes DEF myfree, MayCall
  <2> QED
    BY <1>1, <1>3, <1>8, <2>1, <2>2, <2>3, <2>4 DEF myfree, MemTypeOK, CallShape
<1>9. CASE ClearMap(p)
  <2>1. CASE i[p] < nmemb[p]
    <3>1. /\ step[p] = "clear" /\ i' = [i EXCEPT ![p] = @ + 1]
          /\ memmap' = [memmap EXCEPT ![offset[p] + i[p]] = 0]
          /\ UNCHANGED <<step, offset, cmemb, nmemb, regions>>
      BY <1>9, <2>1 DEF ClearMap
    <3>0. nmemb[p] \in Nat /\ i[p] \in Nat /\ nmemb[p] <= Blocks
      BY <1>1, <3>1 DEF MemTypeOK, CallShape
    <3>2. i[p] + 1 \in 0 .. Blocks /\ 0 \in 0 .. Blocks
      BY <2>1, <3>0, Blocksizes
    <3>3. memmap' \in [0 .. Blocks - 1 -> 0 .. Blocks] /\ i' \in [Tasks -> 0 .. Blocks]
      BY <1>1, <3>1, <3>2 DEF MemTypeOK
    <3>4. i'[p] <= nmemb[p] /\ step'[p] = "clear"
      BY <1>1, <2>1, <3>1 DEF MemTypeOK
    <3> QED
      BY <1>1, <1>3, <3>0, <3>1, <3>3, <3>4 DEF MemTypeOK, CallShape
  <2>2. CASE ~(i[p] < nmemb[p])
    BY <1>1, <1>3, <1>9, <2>2, Left DEF ClearMap, MemTypeOK
  <2> QED
    BY <2>1, <2>2
<1> QED
  BY <1>4, <1>5, <1>6, <1>7, <1>8, <1>9 DEF MemStep
-----------------------------------------------------------------------------
(* The place the search is at is too short as well, unless it is the one.   *)
LEMMA ShortHere ==
  ASSUME Shapes, NEW p \in Tasks, Searched(p), step[p] = "scan", p \notin disturbed, Count(p) # nmemb[p]
  PROVE  Short(offset[p], nmemb[p]) /\ Count(p) < nmemb[p] /\ Count(p) \in Nat
<1>1. /\ cmemb[p] \in Nat /\ nmemb[p] \in Nat /\ offset[p] \in 0 .. Blocks - 1
      /\ nmemb[p] >= 1 /\ offset[p] + cmemb[p] <= Top /\ cmemb[p] < nmemb[p]
      /\ offset[p] + cmemb[p] < Top => memmap[offset[p] + cmemb[p] + 1] # 0
  BY DEF Shapes, MemTypeOK, CallShape, Searched
<1>2. CASE memmap[offset[p]] # 0
  <2>1. Count(p) = 0 /\ offset[p] \in offset[p] .. offset[p] + nmemb[p] - 1
    BY <1>1, <1>2 DEF Count
  <2> QED
    BY <1>1, <1>2, <2>1 DEF Short
<1>3. CASE memmap[offset[p]] = 0
  <2>1. Count(p) = cmemb[p] + 1
    BY <1>3 DEF Count
  <2>2. cmemb[p] + 1 < nmemb[p]
    BY <1>1, <2>1
  <2>3. ASSUME offset[p] + nmemb[p] <= Blocks
        PROVE  /\ offset[p] + cmemb[p] + 1 \in offset[p] .. offset[p] + nmemb[p] - 1
               /\ memmap[offset[p] + cmemb[p] + 1] # 0
    BY <1>1, <2>2, <2>3, Blocksizes
  <2> QED
    BY <1>1, <2>1, <2>2, <2>3 DEF Short
<1> QED
  BY <1>2, <1>3

LEMMA SearchedNext ==
  ASSUME Shapes, \A q \in Tasks : Searched(q), NEW p \in Tasks, MemStep(p)
  PROVE  \A q \in Tasks : Searched(q)'
<1>0. Others(p) /\ MemTypeOK /\ \A q \in Tasks : q \in Nat
  BY OnlyOne, Blocksizes DEF Shapes
<1>1. ASSUME NEW q \in Tasks \ {p}, step'[q] = "scan", q \notin disturbed' PROVE FALSE
  <2>1. step[q] = "scan"
    BY <1>0, <1>1 DEF Others
  <2>2. p < q
    <3>1. ~(q < p)
      BY <1>0, <2>1 DEF MemStep, mymalloc, Scan, Mark, Given, myfree, ClearMap, MayCall, MayStep
    <3> QED
      BY <1>0, <1>1, <3>1
  <2>3. ~mymalloc(p) /\ ~myfree(p)
    BY <1>1, <2>1 DEF mymalloc, myfree, Preempts
  <2>4. disturbed' = disturbed /\ step[p] # "out"
    BY <2>3 DEF MemStep, Scan, Mark, Given, ClearMap, ghosts
  <2> QED
    BY <1>1, <2>1, <2>2, <2>4 DEF Searched
<1>2. ASSUME step'[p] = "scan", p \notin disturbed' PROVE Searched(p)'
  <2>1. CASE mymalloc(p)
    <3>1. /\ \A q \in Tasks : q < p => step'[q] = "out"
      <4>1. \A q \in Tasks : q < p => q # p /\ step[q] = "out"
        BY <1>0, <2>1 DEF mymalloc, MayCall
      <4> QED
        BY <1>0, <4>1 DEF Others
    <3>2. offset'[p] = Top /\ cmemb'[p] = 0 /\ memmap' = memmap /\ nmemb'[p] >= 1
      <4>1. step[p] = "out" /\ cmemb[p] = 0
        BY <1>0, <2>1 DEF mymalloc, MayCall, Shapes, CallShape
      <4>2. Shapes'
        BY ShapesNext
      <4> QED
        BY <1>0, <1>2, <2>1, <4>1, <4>2 DEF mymalloc, MemTypeOK, Shapes, CallShape
    <3>3. nmemb'[p] \in Nat
      BY ShapesNext DEF Shapes, MemTypeOK
    <3> QED
      BY <3>1, <3>2, <3>3, Blocksizes DEF Searched
  <2>2. CASE Scan(p)
    <3>1. /\ Count(p) # nmemb[p] /\ offset[p] # 0 /\ step[p] = "scan"
          /\ offset' = [offset EXCEPT ![p] = @ - 1] /\ cmemb' = [cmemb EXCEPT ![p] = Count(p)]
          /\ UNCHANGED <<step, nmemb, memmap, disturbed>>
      BY <1>0, <1>2, <2>2 DEF Scan, Leave, MemTypeOK, ghosts
    <3>2. /\ cmemb[p] \in Nat /\ nmemb[p] \in Nat /\ offset[p] \in 0 .. Blocks - 1
          /\ nmemb[p] >= 1 /\ offset[p] + cmemb[p] <= Top
          /\ offset'[p] = offset[p] - 1 /\ cmemb'[p] = Count(p)
      BY <3>1 DEF Shapes, MemTypeOK, CallShape
    <3>3. /\ Short(offset[p], nmemb[p]) /\ Count(p) < nmemb[p] /\ Count(p) \in Nat
          /\ \A q \in Tasks : q < p => step[q] = "out"
          /\ offset[p] + cmemb[p] < Top => memmap[offset[p] + cmemb[p] + 1] # 0
          /\ \A at \in offset[p] + 1 .. Top : Short(at, nmemb[p])
      BY <1>2, <3>1, ShortHere DEF Searched
    <3>4. offset'[p] + cmemb'[p] < Top => memmap[offset'[p] + cmemb'[p] + 1] # 0
      <4>1. CASE memmap[offset[p]] = 0
        <5>1. offset'[p] + cmemb'[p] + 1 = offset[p] + cmemb[p] + 1 /\ offset'[p] + cmemb'[p] = offset[p] + cmemb[p]
          BY <3>2, <4>1 DEF Count
        <5> QED
          BY <3>3, <5>1
      <4>2. CASE memmap[offset[p]] # 0
        <5>1. offset'[p] + cmemb'[p] + 1 = offset[p]
          BY <3>2, <4>2 DEF Count
        <5> QED
          BY <4>2, <5>1
      <4> QED
        BY <4>1, <4>2
    <3>5. \A at \in offset'[p] + 1 .. Top : Short(at, nmemb[p])
      <4> SUFFICES ASSUME NEW at \in offset'[p] + 1 .. Top PROVE Short(at, nmemb[p])
        OBVIOUS
      <4>1. at = offset[p] \/ at \in offset[p] + 1 .. Top
        BY <3>2, Blocksizes
      <4> QED
        BY <3>3, <4>1
    <3>6. \A at, n : Short(at, n)' = Short(at, n)
      BY <3>1 DEF Short
    <3> QED
      BY <3>1, <3>2, <3>3, <3>4, <3>5, <3>6 DEF Searched
  <2>3. CASE ~mymalloc(p) /\ ~Scan(p)
    BY <1>0, <1>2, <2>3 DEF MemStep, Mark, Given, myfree, ClearMap, Leave, MemTypeOK
  <2> QED
    BY <2>1, <2>2, <2>3
<1> QED
  BY <1>1, <1>2 DEF Searched

LEMMA RefusedRightly ==
  ASSUME Shapes, NEW p \in Tasks, MemStep(p), NEW q \in Tasks, Searched(q)
  PROVE  RefusedForLackOfRoom(q)
<1> SUFFICES ASSUME step[q] = "scan", step'[q] = "out", q \notin disturbed,
                    NEW at \in 0 .. Blocks - nmemb[q]
             PROVE  \E b \in at .. at + nmemb[q] - 1 : memmap[b] # 0
  BY DEF RefusedForLackOfRoom
<1>1. q = p
  BY OnlyOne DEF Shapes, Others
<1>2. Count(q) # nmemb[q] /\ offset[q] = 0
  BY <1>1, Blocksizes DEF MemStep, mymalloc, Scan, Mark, Given, myfree, ClearMap, MayCall, Shapes, MemTypeOK
<1>3. nmemb[q] \in Nat /\ nmemb[q] >= 1 /\ \A x \in 1 .. Top : Short(x, nmemb[q])
  BY <1>2 DEF Shapes, MemTypeOK, CallShape, Searched
<1>4. Short(0, nmemb[q])
  BY <1>2, ShortHere
<1>5. at \in 0 .. Top /\ at + nmemb[q] <= Blocks
  BY <1>3, Blocksizes
<1>6. Short(at, nmemb[q])
  BY <1>3, <1>4, <1>5
<1> QED
  BY <1>5, <1>6 DEF Short
-----------------------------------------------------------------------------
LEMMA OwnedIs ==
  ASSUME NEW p \in Tasks
  PROVE  /\ \A b : b \in Owned(p) <=> b \in InCall(p) \/ \E r \in regions[p] : b \in BlocksOf(r)
         /\ \A b : b \in Owned(p)' <=> b \in InCall(p)' \/ \E r \in regions'[p] : b \in BlocksOf(r)
BY DEF Owned

(* What a mark and the accounts say of one block.                           *)
LEMMA MarkedIsOwned ==
  ASSUME MemTypeOK, BlocksAccounted, ~clashed
  PROVE  \A b : (b \in 0 .. Blocks - 1 /\ memmap[b] # 0) <=> \E p \in Tasks : b \in Owned(p)
<1>1. DOMAIN memmap = 0 .. Blocks - 1
  BY DEF MemTypeOK
<1>2. {b \in DOMAIN memmap : memmap[b] # 0} = UNION {Owned(p) : p \in Tasks}
  BY DEF BlocksAccounted
<1> QED
  BY <1>1, <1>2

LEMMA AccountedAfter ==
  ASSUME MemTypeOK',
         \A p, q \in Tasks : p # q => \A b : ~(b \in Owned(p)' /\ b \in Owned(q)'),
         \A p \in Tasks : \A r, s \in regions'[p] : r # s => BlocksOf(r) \cap BlocksOf(s) = {},
         \A p \in Tasks : \A r \in regions'[p] : BlocksOf(r) \cap InCall(p)' = {},
         \A b : (b \in 0 .. Blocks - 1 /\ memmap'[b] # 0) <=> \E p \in Tasks : b \in Owned(p)'
  PROVE  BlocksAccounted'
<1>1. DOMAIN memmap' = 0 .. Blocks - 1
  BY DEF MemTypeOK
<1>2. {b \in DOMAIN memmap' : memmap'[b] # 0} = UNION {Owned(p)' : p \in Tasks}
  BY <1>1
<1>3. \A p, q \in Tasks : p # q => Owned(p)' \cap Owned(q)' = {}
  OBVIOUS
<1> HIDE DEF MemTypeOK
<1> QED
  BY <1>2, <1>3 DEF BlocksAccounted

(* The calls of the other tasks, and a step that moves no block.            *)
LEMMA OtherCalls ==
  ASSUME NEW p, Others(p), NEW q \in Tasks \ {p}
  PROVE  InCall(q)' = InCall(q) /\ regions'[q] = regions[q]
BY DEF Others, InCall

LEMMA SameOwners ==
  ASSUME BlocksAccounted, ~clashed, UNCHANGED <<memmap, regions>>, \A q \in Tasks : InCall(q)' = InCall(q)
  PROVE  BlocksAccounted' /\ \A q \in Tasks : Held(q) => Held(q)'
<1>1. \A q \in Tasks : Owned(q)' = Owned(q)
  BY DEF Owned
<1>2. UNION {Owned(q)' : q \in Tasks} = UNION {Owned(q) : q \in Tasks}
  BY <1>1
<1>3. /\ \A p, q \in Tasks : p # q => Owned(p) \cap Owned(q) = {}
      /\ \A p \in Tasks : \A r, s \in regions[p] : r # s => BlocksOf(r) \cap BlocksOf(s) = {}
      /\ \A p \in Tasks : \A r \in regions[p] : BlocksOf(r) \cap InCall(p) = {}
      /\ {b \in DOMAIN memmap : memmap[b] # 0} = UNION {Owned(p) : p \in Tasks}
  BY DEF BlocksAccounted
<1>4. BlocksAccounted'
  BY <1>1, <1>2, <1>3 DEF BlocksAccounted
<1> QED
  BY <1>4 DEF Held

(* A region and the blocks of a call change places.                         *)
LEMMA SwappedOwners ==
  ASSUME MemTypeOK', MemTypeOK, BlocksAccounted, ~clashed, NEW p \in Tasks, Others(p), memmap' = memmap,
         \A b : b \in Owned(p)' <=> b \in Owned(p),
         \A r, s \in regions'[p] : r # s => BlocksOf(r) \cap BlocksOf(s) = {},
         \A r \in regions'[p] : BlocksOf(r) \cap InCall(p)' = {}
  PROVE  BlocksAccounted'
<1>1. \A q \in Tasks \ {p} : InCall(q)' = InCall(q) /\ regions'[q] = regions[q]
  BY OtherCalls
<1>2. \A q \in Tasks : \A b : b \in Owned(q)' <=> b \in Owned(q)
  BY <1>1 DEF Owned
<1>3. /\ \A a, b \in Tasks : a # b => \A x : ~(x \in Owned(a) /\ x \in Owned(b))
      /\ \A q \in Tasks : \A r, s \in regions[q] : r # s => BlocksOf(r) \cap BlocksOf(s) = {}
      /\ \A q \in Tasks : \A r \in regions[q] : BlocksOf(r) \cap InCall(q) = {}
  BY DEF BlocksAccounted
<1>4. \A b : (b \in 0 .. Blocks - 1 /\ memmap[b] # 0) <=> \E q \in Tasks : b \in Owned(q)
  BY MarkedIsOwned
<1>5. \A q \in Tasks : \A r, s \in regions'[q] : r # s => BlocksOf(r) \cap BlocksOf(s) = {}
  BY <1>1, <1>3
<1>6. \A q \in Tasks : \A r \in regions'[q] : BlocksOf(r) \cap InCall(q)' = {}
  BY <1>1, <1>3
<1>7. \A a, b \in Tasks : a # b => \A x : ~(x \in Owned(a)' /\ x \in Owned(b)')
  BY <1>2, <1>3
<1>8. \A b : (b \in 0 .. Blocks - 1 /\ memmap'[b] # 0) <=> \E q \in Tasks : b \in Owned(q)'
  BY <1>2, <1>4
<1> QED
  BY <1>5, <1>6, <1>7, <1>8, AccountedAfter

Pieces ==
  /\ ~clashed /\ OneSearch /\ BlocksAccounted /\ MemTypeOK /\ MemTypeOK'
  /\ \A q \in Tasks : CallShape(q) /\ Held(q) /\ Found(q)

(* What another task's call found stays so when no mark is set and no       *)
(* marked block of its own is cleared.                                      *)
LEMMA OtherFound ==
  ASSUME NEW p, Others(p), NEW q \in Tasks \ {p}, Found(q), memmap' = memmap
  PROVE  Found(q)'
<1>1. /\ step'[q] = step[q] /\ offset'[q] = offset[q] /\ cmemb'[q] = cmemb[q]
      /\ nmemb'[q] = nmemb[q] /\ i'[q] = i[q] /\ InCall(q)' = InCall(q)
  BY OtherCalls DEF Others
<1> QED
  BY <1>1 DEF Found

LEMMA SearchBegins ==
  ASSUME Pieces, NEW p \in Tasks, mymalloc(p), ~clashed', Others(p)
  PROVE  OneSearch' /\ BlocksAccounted' /\ \A q \in Tasks : Held(q)' /\ Found(q)'
<1>1. /\ step[p] = "out" /\ step' = [step EXCEPT ![p] = "scan"] /\ offset'[p] = Top /\ cmemb'[p] = 0
      /\ UNCHANGED <<memmap, regions>> /\ \A q \in Tasks : step[q] \notin {"scan", "mark"}
  <2>1. clashed' = (clashed \/ \E q \in Tasks : step[q] \in {"scan", "mark"})
    BY DEF mymalloc
  <2>2. \A q \in Tasks : step[q] \notin {"scan", "mark"}
    BY <2>1
  <2>3. step[p] = "out" /\ cmemb[p] = 0
    BY Blocksizes DEF Pieces, mymalloc, MayCall, CallShape
  <2> QED
    BY <2>2, <2>3 DEF Pieces, mymalloc, MemTypeOK
<1>2. OneSearch'
  BY <1>1 DEF OneSearch, Pieces, MemTypeOK
<1>3. step'[p] = "scan" /\ InCall(p)' = InCall(p)
  BY <1>1 DEF InCall, Pieces, MemTypeOK
<1>4. \A q \in Tasks : InCall(q)' = InCall(q)
  BY <1>3, OtherCalls
<1>5. Found(p)'
  BY <1>1, <1>3, Blocksizes DEF Found
<1>6. \A q \in Tasks : Found(q)'
  BY <1>1, <1>5, OtherFound DEF Pieces
<1> QED
  BY <1>1, <1>2, <1>4, <1>6, SameOwners DEF Pieces

LEMMA SearchGoesOn ==
  ASSUME Pieces, NEW p \in Tasks, Scan(p), Others(p)
  PROVE  OneSearch' /\ BlocksAccounted' /\ \A q \in Tasks : Held(q)' /\ Found(q)'
<1>1. /\ step[p] = "scan" /\ i[p] = 0 /\ nmemb[p] \in Nat /\ nmemb[p] >= 1 /\ offset[p] \in 0 .. Blocks - 1
      /\ cmemb[p] \in Nat /\ offset[p] + cmemb[p] <= Top /\ UNCHANGED <<memmap, regions>>
      /\ \A b \in offset[p] + 1 .. offset[p] + cmemb[p] : memmap[b] = 0
      /\ \A q \in Tasks : step[q] \in {"scan", "mark"} => q = p
  BY DEF Scan, Pieces, MemTypeOK, CallShape, Found, OneSearch
<1>2. OneSearch'
  BY <1>1 DEF OneSearch, Others
<1>3. /\ InCall(p)' = {} /\ Found(p)'
  <2>1. CASE Count(p) = nmemb[p]
    <3>1. step' = [step EXCEPT ![p] = "mark"] /\ UNCHANGED <<offset, cmemb, nmemb, i>>
      BY <2>1 DEF Scan
    <3>2. step'[p] = "mark"
      BY <3>1 DEF Pieces, MemTypeOK
    <3>3. memmap[offset[p]] = 0 /\ nmemb[p] = cmemb[p] + 1
      BY <1>1, <2>1 DEF Count
    <3>4. \A b \in offset[p] + i[p] .. offset[p] + nmemb[p] - 1 : memmap[b] = 0
      <4> SUFFICES ASSUME NEW b \in offset[p] + i[p] .. offset[p] + nmemb[p] - 1 PROVE memmap[b] = 0
        OBVIOUS
      <4>1. b = offset[p] \/ b \in offset[p] + 1 .. offset[p] + cmemb[p]
        BY <1>1, <3>3
      <4> QED
        BY <1>1, <3>3, <4>1
    <3>5. InCall(p)' = {}
      BY <1>1, <3>1, <3>2 DEF InCall
    <3> QED
      BY <1>1, <3>1, <3>2, <3>4, <3>5 DEF Found
  <2>2. CASE Count(p) # nmemb[p] /\ offset[p] = 0
    <3>1. step'[p] = "out"
      BY <2>2 DEF Scan, Leave, Pieces, MemTypeOK
    <3> QED
      BY <3>1 DEF InCall, Found
  <2>3. CASE Count(p) # nmemb[p] /\ offset[p] # 0
    <3>1. /\ step'[p] = "scan" /\ offset'[p] = offset[p] - 1 /\ cmemb'[p] = Count(p)
      BY <1>1, <2>3 DEF Scan, Pieces, MemTypeOK
    <3>2. \A b \in offset'[p] + 1 .. offset'[p] + cmemb'[p] : memmap[b] = 0
      <4> SUFFICES ASSUME NEW b \in offset'[p] + 1 .. offset'[p] + cmemb'[p] PROVE memmap[b] = 0
        OBVIOUS
      <4>1. memmap[offset[p]] = 0 /\ (b = offset[p] \/ b \in offset[p] + 1 .. offset[p] + cmemb[p])
        BY <1>1, <3>1 DEF Count
      <4> QED
        BY <1>1, <4>1
    <3> QED
      BY <1>1, <3>1, <3>2 DEF InCall, Found
  <2> QED
    BY <2>1, <2>2, <2>3
<1>4. InCall(p) = {}
  BY <1>1 DEF InCall
<1>5. \A q \in Tasks : InCall(q)' = InCall(q)
  BY <1>3, <1>4, OtherCalls
<1>6. \A q \in Tasks : Found(q)'
  BY <1>1, <1>3, OtherFound DEF Pieces
<1> QED
  BY <1>1, <1>2, <1>5, <1>6, SameOwners DEF Pieces

(* The region that was marked is handed out.                                *)
LEMMA RegionGiven ==
  ASSUME Pieces, NEW p \in Tasks, Given(p), Others(p)
  PROVE  OneSearch' /\ BlocksAccounted' /\ \A q \in Tasks : Held(q)' /\ Found(q)'
<1> DEFINE g == [at |-> offset[p], len |-> nmemb[p]]
<1>1. /\ step[p] = "mark" /\ i[p] = nmemb[p] /\ step'[p] = "out" /\ memmap' = memmap
      /\ regions'[p] = regions[p] \cup {g}
      /\ nmemb[p] \in Nat /\ nmemb[p] >= 1 /\ offset[p] + nmemb[p] <= Blocks
  BY DEF Given, Leave, Pieces, MemTypeOK, CallShape
<1>2. InCall(p)' = {} /\ InCall(p) = BlocksOf(g) /\ Found(p)'
  BY <1>1 DEF InCall, BlocksOf, Found
<1>3. OneSearch'
  BY <1>1 DEF OneSearch, Others, Pieces
<1>4. \A b : b \in Owned(p)' <=> b \in Owned(p)
  BY <1>1, <1>2, OwnedIs
<1>5. /\ \A r, s \in regions[p] : r # s => BlocksOf(r) \cap BlocksOf(s) = {}
      /\ \A r \in regions[p] : BlocksOf(r) \cap BlocksOf(g) = {}
  BY <1>2 DEF Pieces, BlocksAccounted
<1>6. \A r, s \in regions'[p] : r # s => BlocksOf(r) \cap BlocksOf(s) = {}
  <2> HIDE DEF g
  <2> QED
    BY <1>1, <1>5
<1>7. BlocksAccounted'
  BY <1>1, <1>2, <1>4, <1>6, SwappedOwners DEF Pieces
<1>8. Held(p)'
  <2>1. g.len >= 1 /\ g.at + g.len <= Blocks /\ \A b \in BlocksOf(g) : memmap[b] = g.len
    BY <1>1, <1>2 DEF Pieces, Found
  <2> HIDE DEF g
  <2> QED
    BY <1>1, <2>1 DEF Pieces, Held
<1>9. \A q \in Tasks \ {p} : Held(q)' /\ Found(q)'
  BY <1>1, OtherCalls, OtherFound DEF Pieces, Held
<1> QED
  BY <1>2, <1>3, <1>7, <1>8, <1>9

(* A region is taken back: the map says how long it is.                     *)
LEMMA ReleaseBegins ==
  ASSUME Pieces, NEW p \in Tasks, myfree(p), Others(p)
  PROVE  OneSearch' /\ BlocksAccounted' /\ \A q \in Tasks : Held(q)' /\ Found(q)'
<1>0. PICK r \in regions[p] :
        /\ regions' = [regions EXCEPT ![p] = @ \ {r}]
        /\ offset' = [offset EXCEPT ![p] = r.at] /\ nmemb' = [nmemb EXCEPT ![p] = memmap[r.at]]
  BY DEF myfree
<1>1. /\ step[p] = "out" /\ i[p] = 0 /\ memmap' = memmap /\ i' = i /\ step'[p] = "clear"
      /\ regions'[p] = regions[p] \ {r} /\ offset'[p] = r.at /\ nmemb'[p] = memmap[r.at]
      /\ r.at \in Nat /\ r.len \in Nat
  BY <1>0, Blocksizes DEF myfree, MayCall, Pieces, MemTypeOK, CallShape, Region
<1>2. r.len >= 1 /\ r.at + r.len <= Blocks /\ memmap[r.at] = r.len
  BY <1>1 DEF Pieces, Held, BlocksOf
<1>3. InCall(p) = {} /\ InCall(p)' = BlocksOf(r) /\ Found(p)'
  <2>1. InCall(p)' = r.at + 0 .. r.at + r.len - 1
    BY <1>1, <1>2 DEF InCall
  <2> QED
    BY <1>1, <1>2, <2>1 DEF InCall, BlocksOf, Found
<1>4. OneSearch'
  BY <1>1 DEF OneSearch, Others, Pieces
<1>5. \A b : b \in Owned(p)' <=> b \in Owned(p)
  BY <1>1, <1>3, OwnedIs
<1>6. \A s, t \in regions[p] : s # t => BlocksOf(s) \cap BlocksOf(t) = {}
  BY DEF Pieces, BlocksAccounted
<1>7. BlocksAccounted'
  <2>1. \A s \in regions'[p] : BlocksOf(s) \cap InCall(p)' = {}
    BY <1>1, <1>3, <1>6
  <2>2. \A s, t \in regions'[p] : s # t => BlocksOf(s) \cap BlocksOf(t) = {}
    BY <1>1, <1>6
  <2> QED
    BY <1>1, <1>5, <2>1, <2>2, SwappedOwners DEF Pieces
<1>8. Held(p)'
  BY <1>1 DEF Pieces, Held
<1>9. \A q \in Tasks \ {p} : Held(q)' /\ Found(q)'
  BY <1>1, OtherCalls, OtherFound DEF Pieces, Held
<1> QED
  BY <1>3, <1>4, <1>7, <1>8, <1>9

(* One entry of the map changes: who owns the other blocks stays.           *)
LEMMA OneBlock ==
  ASSUME Pieces, NEW p \in Tasks, Others(p), regions' = regions, NEW x \in 0 .. Blocks - 1, NEW v,
         memmap' = [memmap EXCEPT ![x] = v]
  PROVE  /\ memmap'[x] = v /\ \A b \in 0 .. Blocks - 1 : b # x => memmap'[b] = memmap[b]
         /\ \A q \in Tasks : \A r \in regions[q] : BlocksOf(r) \subseteq 0 .. Blocks - 1
         /\ \A q \in Tasks \ {p} : \A b : b \in Owned(q)' <=> b \in Owned(q)
         /\ \A b : (b \in 0 .. Blocks - 1 /\ memmap[b] # 0) <=> \E q \in Tasks : b \in Owned(q)
         /\ \A a, b \in Tasks : a # b => \A y : ~(y \in Owned(a) /\ y \in Owned(b))
         /\ \A q \in Tasks : \A r, s \in regions'[q] : r # s => BlocksOf(r) \cap BlocksOf(s) = {}
         /\ \A q \in Tasks : \A r \in regions[q] : BlocksOf(r) \cap InCall(q) = {}
<1>1. memmap'[x] = v /\ \A b \in 0 .. Blocks - 1 : b # x => memmap'[b] = memmap[b]
  BY DEF Pieces, MemTypeOK
<1>2. ASSUME NEW q \in Tasks, NEW r \in regions[q] PROVE BlocksOf(r) \subseteq 0 .. Blocks - 1
  <2>1. r.at \in Nat /\ r.len \in Nat /\ r.at + r.len <= Blocks
    <3>1. r \in Region
      BY DEF Pieces, MemTypeOK
    <3>2. r.at + r.len <= Blocks
      BY DEF Pieces, Held
    <3> QED
      BY <3>1, <3>2 DEF Region
  <2> QED
    BY <2>1, Blocksizes DEF BlocksOf
<1>3. \A q \in Tasks \ {p} : \A b : b \in Owned(q)' <=> b \in Owned(q)
  BY OtherCalls DEF Owned
<1>4. \A b : (b \in 0 .. Blocks - 1 /\ memmap[b] # 0) <=> \E q \in Tasks : b \in Owned(q)
  BY MarkedIsOwned DEF Pieces
<1> QED
  BY <1>1, <1>2, <1>3, <1>4 DEF Pieces, BlocksAccounted

LEMMA BlockMarked ==
  ASSUME Pieces, NEW p \in Tasks, Mark(p), Others(p)
  PROVE  OneSearch' /\ BlocksAccounted' /\ \A q \in Tasks : Held(q)' /\ Found(q)'
<1> DEFINE x == offset[p] + i[p]
<1>1. /\ step[p] = "mark" /\ i[p] < nmemb[p] /\ i'[p] = i[p] + 1 /\ i[p] \in Nat
      /\ memmap' = [memmap EXCEPT ![x] = nmemb[p]] /\ UNCHANGED <<step, offset, cmemb, nmemb, regions>>
      /\ nmemb[p] \in Nat /\ nmemb[p] >= 1 /\ offset[p] \in Nat /\ offset[p] + nmemb[p] <= Blocks
  BY DEF Mark, Pieces, MemTypeOK, CallShape
<1>2. /\ x \in 0 .. Blocks - 1 /\ x \in offset[p] + i[p] .. offset[p] + nmemb[p] - 1
      /\ \A b \in offset[p] + i[p] .. offset[p] + nmemb[p] - 1 : b \in 0 .. Blocks - 1 /\ memmap[b] = 0
  BY <1>1, Blocksizes DEF Pieces, Found
<1>3. \A b : b \in InCall(p)' <=> b \in InCall(p) \/ b = x
  BY <1>1 DEF InCall
<1>4. /\ OneSearch /\ \A q \in Tasks \ {p} : step[q] \notin {"scan", "mark"}
  BY <1>1 DEF Pieces, OneSearch
<1>5. OneSearch'
  BY <1>1, <1>4 DEF OneSearch
<1> HIDE DEF x
<1>6. /\ memmap'[x] = nmemb[p] /\ \A b \in 0 .. Blocks - 1 : b # x => memmap'[b] = memmap[b]
      /\ \A q \in Tasks : \A r \in regions[q] : BlocksOf(r) \subseteq 0 .. Blocks - 1
      /\ \A q \in Tasks \ {p} : \A b : b \in Owned(q)' <=> b \in Owned(q)
      /\ \A b : (b \in 0 .. Blocks - 1 /\ memmap[b] # 0) <=> \E q \in Tasks : b \in Owned(q)
      /\ \A a, b \in Tasks : a # b => \A y : ~(y \in Owned(a) /\ y \in Owned(b))
      /\ \A q \in Tasks : \A r, s \in regions'[q] : r # s => BlocksOf(r) \cap BlocksOf(s) = {}
      /\ \A q \in Tasks : \A r \in regions[q] : BlocksOf(r) \cap InCall(q) = {}
  BY <1>1, <1>2, OneBlock
<1>7. \A q \in Tasks : x \notin Owned(q)
  BY <1>2, <1>6
<1>8. \A b : b \in Owned(p)' <=> b \in Owned(p) \/ b = x
  BY <1>1, <1>3, OwnedIs
<1>9. BlocksAccounted'
  <2>1. \A a, b \in Tasks : a # b => \A y : ~(y \in Owned(a)' /\ y \in Owned(b)')
    BY <1>6, <1>7, <1>8
  <2>2. \A q \in Tasks : \A r \in regions'[q] : BlocksOf(r) \cap InCall(q)' = {}
    <3>1. ASSUME NEW q \in Tasks \ {p}, NEW r \in regions'[q] PROVE BlocksOf(r) \cap InCall(q)' = {}
      BY <1>1, <1>6, OtherCalls
    <3>2. ASSUME NEW r \in regions'[p] PROVE BlocksOf(r) \cap InCall(p)' = {}
      BY <1>1, <1>3, <1>6, <1>7, OwnedIs
    <3> QED
      BY <3>1, <3>2
  <2>3. \A b : (b \in 0 .. Blocks - 1 /\ memmap'[b] # 0) <=> \E q \in Tasks : b \in Owned(q)'
    <3>1. memmap'[x] # 0
      BY <1>1, <1>6
    <3>2. ASSUME NEW b, b # x
          PROVE (b \in 0 .. Blocks - 1 /\ memmap'[b] # 0) <=> \E q \in Tasks : b \in Owned(q)'
      BY <1>6, <1>8, <3>2
    <3> QED
      BY <1>2, <1>8, <3>1, <3>2
  <2> QED
    BY <1>6, <2>1, <2>2, <2>3, AccountedAfter DEF Pieces
<1>10. ASSUME NEW q \in Tasks PROVE Held(q)'
  <2>1. ASSUME NEW r \in regions[q], NEW b \in BlocksOf(r) PROVE memmap'[b] = memmap[b]
    BY <1>6, <1>7, OwnedIs
  <2> QED
    BY <1>1, <2>1 DEF Pieces, Held
<1>11. Found(p)'
  <2>1. \A b \in InCall(p)' : memmap'[b] = nmemb[p]
    <3> SUFFICES ASSUME NEW b \in InCall(p)', b # x PROVE memmap'[b] = nmemb[p]
      BY <1>6
    <3>1. b \in InCall(p) /\ b \in 0 .. Blocks - 1
      BY <1>3, <1>6, OwnedIs
    <3> QED
      BY <1>1, <1>6, <3>1 DEF Pieces, Found
  <2>2. \A b \in offset[p] + i'[p] .. offset[p] + nmemb[p] - 1 : memmap'[b] = 0
    <3> SUFFICES ASSUME NEW b \in offset[p] + i'[p] .. offset[p] + nmemb[p] - 1 PROVE memmap'[b] = 0
      OBVIOUS
    <3>1. b # x /\ b \in offset[p] + i[p] .. offset[p] + nmemb[p] - 1
      BY <1>1 DEF x
    <3> QED
      BY <1>2, <1>6, <3>1
  <2> QED
    BY <1>1, <2>1, <2>2 DEF Found
<1>12. \A q \in Tasks \ {p} : Found(q)'
  BY <1>1, <1>4 DEF Pieces, Found
<1> QED
  BY <1>5, <1>9, <1>10, <1>11, <1>12

LEMMA BlockCleared ==
  ASSUME Pieces, NEW p \in Tasks, ClearMap(p), i[p] < nmemb[p], Others(p)
  PROVE  OneSearch' /\ BlocksAccounted' /\ \A q \in Tasks : Held(q)' /\ Found(q)'
<1> DEFINE x == offset[p] + i[p]
<1>1. /\ step[p] = "clear" /\ i'[p] = i[p] + 1 /\ i[p] \in Nat
      /\ memmap' = [memmap EXCEPT ![x] = 0] /\ UNCHANGED <<step, offset, cmemb, nmemb, regions>>
      /\ nmemb[p] \in Nat /\ nmemb[p] >= 1 /\ offset[p] \in Nat /\ offset[p] + nmemb[p] <= Blocks
  BY DEF ClearMap, Pieces, MemTypeOK, CallShape, Found
<1>2. x \in 0 .. Blocks - 1 /\ x \in InCall(p)
  BY <1>1, Blocksizes DEF InCall
<1>3. \A b : b \in InCall(p)' <=> b \in InCall(p) /\ b # x
  BY <1>1 DEF InCall
<1>4. OneSearch'
  BY <1>1 DEF Pieces, OneSearch
<1> HIDE DEF x
<1>6. /\ memmap'[x] = 0 /\ \A b \in 0 .. Blocks - 1 : b # x => memmap'[b] = memmap[b]
      /\ \A q \in Tasks : \A r \in regions[q] : BlocksOf(r) \subseteq 0 .. Blocks - 1
      /\ \A q \in Tasks \ {p} : \A b : b \in Owned(q)' <=> b \in Owned(q)
      /\ \A b : (b \in 0 .. Blocks - 1 /\ memmap[b] # 0) <=> \E q \in Tasks : b \in Owned(q)
      /\ \A a, b \in Tasks : a # b => \A y : ~(y \in Owned(a) /\ y \in Owned(b))
      /\ \A q \in Tasks : \A r, s \in regions'[q] : r # s => BlocksOf(r) \cap BlocksOf(s) = {}
      /\ \A q \in Tasks : \A r \in regions[q] : BlocksOf(r) \cap InCall(q) = {}
  BY <1>1, <1>2, OneBlock
<1>7. x \in Owned(p) /\ \A r \in regions[p] : x \notin BlocksOf(r)
  BY <1>2, <1>6, OwnedIs
<1>8. \A b : b \in Owned(p)' <=> b \in Owned(p) /\ b # x
  BY <1>1, <1>3, <1>7, OwnedIs
<1>9. \A q \in Tasks \ {p} : x \notin Owned(q)
  BY <1>6, <1>7
<1>10. BlocksAccounted'
  <2>1. \A a, b \in Tasks : a # b => \A y : ~(y \in Owned(a)' /\ y \in Owned(b)')
    BY <1>6, <1>8
  <2>2. \A q \in Tasks : \A r \in regions'[q] : BlocksOf(r) \cap InCall(q)' = {}
    <3>1. ASSUME NEW q \in Tasks \ {p}, NEW r \in regions'[q] PROVE BlocksOf(r) \cap InCall(q)' = {}
      BY <1>1, <1>6, OtherCalls
    <3>2. ASSUME NEW r \in regions'[p] PROVE BlocksOf(r) \cap InCall(p)' = {}
      BY <1>1, <1>3, <1>6
    <3> QED
      BY <3>1, <3>2
  <2>3. \A b : (b \in 0 .. Blocks - 1 /\ memmap'[b] # 0) <=> \E q \in Tasks : b \in Owned(q)'
    <3>1. ASSUME NEW b, b # x
          PROVE (b \in 0 .. Blocks - 1 /\ memmap'[b] # 0) <=> \E q \in Tasks : b \in Owned(q)'
      BY <1>6, <1>8, <3>1
    <3>2. \A q \in Tasks : x \notin Owned(q)'
      BY <1>6, <1>8, <1>9
    <3> QED
      BY <1>6, <3>1, <3>2
  <2> QED
    BY <1>6, <2>1, <2>2, <2>3, AccountedAfter DEF Pieces
<1>11. ASSUME NEW q \in Tasks PROVE Held(q)'
  <2>1. ASSUME NEW r \in regions[q], NEW b \in BlocksOf(r) PROVE memmap'[b] = memmap[b]
    <3>1. b # x /\ b \in 0 .. Blocks - 1
      BY <1>6, <1>7, <1>9, OwnedIs
    <3> QED
      BY <1>6, <3>1
  <2> QED
    BY <1>1, <2>1 DEF Pieces, Held
<1>12. Found(p)'
  BY <1>1 DEF Pieces, Found
<1>13. ASSUME NEW q \in Tasks \ {p} PROVE Found(q)'
  <2>1. /\ step'[q] = step[q] /\ offset'[q] = offset[q] /\ cmemb'[q] = cmemb[q]
        /\ nmemb'[q] = nmemb[q] /\ i'[q] = i[q] /\ InCall(q)' = InCall(q) /\ q \in Tasks
    BY OtherCalls DEF Others
  <2>2. ASSUME NEW b \in 0 .. Blocks - 1, memmap[b] = 0 PROVE memmap'[b] = 0
    BY <1>6, <2>2
  <2>3. /\ offset[q] \in Nat /\ cmemb[q] \in Nat /\ nmemb[q] \in Nat /\ i[q] \in Nat
        /\ step[q] = "scan" => offset[q] + cmemb[q] <= Top
        /\ step[q] = "mark" => offset[q] + nmemb[q] <= Blocks
    BY <2>1 DEF Pieces, MemTypeOK, CallShape
  <2>4. step[q] = "scan" => \A b \in offset[q] + 1 .. offset[q] + cmemb[q] : memmap'[b] = 0
    <3> SUFFICES ASSUME step[q] = "scan", NEW b \in offset[q] + 1 .. offset[q] + cmemb[q] PROVE memmap'[b] = 0
      OBVIOUS
    <3>1. b \in 0 .. Blocks - 1 /\ memmap[b] = 0
      BY <2>1, <2>3, Blocksizes DEF Pieces, Found
    <3> QED
      BY <2>2, <3>1
  <2>5. step[q] = "mark" => \A b \in offset[q] + i[q] .. offset[q] + nmemb[q] - 1 : memmap'[b] = 0
    <3> SUFFICES ASSUME step[q] = "mark", NEW b \in offset[q] + i[q] .. offset[q] + nmemb[q] - 1 PROVE memmap'[b] = 0
      OBVIOUS
    <3>1. b \in 0 .. Blocks - 1 /\ memmap[b] = 0
      BY <2>1, <2>3, Blocksizes DEF Pieces, Found
    <3> QED
      BY <2>2, <3>1
  <2>6. \A b \in InCall(q) : memmap'[b] = memmap[b]
    BY <1>6, <1>9, <2>1, OwnedIs
  <2> QED
    BY <2>1, <2>4, <2>5, <2>6 DEF Pieces, Found
<1> QED
  BY <1>4, <1>10, <1>11, <1>12, <1>13

LEMMA MapNext ==
  ASSUME Shapes, MapRight, NEW p \in Tasks, MemStep(p)
  PROVE  MapRight'
<1> SUFFICES ASSUME ~clashed'
             PROVE  OneSearch' /\ BlocksAccounted' /\ \A q \in Tasks : Held(q)' /\ Found(q)'
  BY DEF MapRight
<1>1. ~clashed
  BY DEF MemStep, mymalloc, Scan, Mark, Given, myfree, ClearMap, ghosts
<1>2. Pieces /\ Others(p)
  BY <1>1, ShapesNext, OnlyOne DEF Pieces, Shapes, MapRight
<1>3. ASSUME ClearMap(p), ~(i[p] < nmemb[p])
      PROVE  OneSearch' /\ BlocksAccounted' /\ \A q \in Tasks : Held(q)' /\ Found(q)'
  <2>1. /\ step[p] = "clear" /\ step'[p] = "out" /\ UNCHANGED <<memmap, regions>> /\ i[p] = nmemb[p]
        /\ offset[p] \in Nat /\ nmemb[p] \in Nat
    BY <1>2, <1>3 DEF ClearMap, Leave, Pieces, MemTypeOK, CallShape
  <2>2. InCall(p) = {} /\ InCall(p)' = {} /\ Found(p)'
    BY <2>1 DEF InCall, Found
  <2>3. OneSearch'
    BY <1>2, <2>1 DEF Pieces, OneSearch, Others
  <2>4. \A q \in Tasks : InCall(q)' = InCall(q)
    BY <1>2, <2>2, OtherCalls
  <2>5. \A q \in Tasks : Found(q)'
    BY <1>2, <2>1, <2>2, OtherFound DEF Pieces
  <2> QED
    BY <1>2, <2>1, <2>3, <2>4, <2>5, SameOwners DEF Pieces
<1> QED
  BY <1>2, <1>3, SearchBegins, SearchGoesOn, BlockMarked, RegionGiven, ReleaseBegins, BlockCleared DEF MemStep

LEMMA NextInv == MemInv /\ [MemNext]_memVars => MemInv'
<1> SUFFICES ASSUME MemInv, [MemNext]_memVars PROVE MemInv'
  OBVIOUS
<1>1. ASSUME NEW p \in Tasks, MemStep(p) PROVE MemInv'
  BY <1>1, ShapesNext, SearchedNext, MapNext DEF MemInv
<1>2. CASE MemNext
  BY <1>1, <1>2 DEF MemNext, MemStep
<1>3. CASE UNCHANGED memVars
  <2>1. /\ UNCHANGED <<memmap, step, offset, cmemb, nmemb, i, regions>>
        /\ clashed' = clashed /\ disturbed' = disturbed
    BY <1>3 DEF memVars, locals, ghosts
  <2>2. Shapes'
    BY <2>1 DEF MemInv, Shapes, MemTypeOK, CallShape
  <2>3. \A p \in Tasks : Searched(p)'
    BY <2>1 DEF MemInv, Searched, Short
  <2>4. \A p \in Tasks : InCall(p)' = InCall(p) /\ Owned(p)' = Owned(p)
    BY <2>1 DEF InCall, Owned
  <2>5. BlocksAccounted => BlocksAccounted'
    <3>1. (UNION {Owned(p) : p \in Tasks})' = UNION {Owned(p) : p \in Tasks}
      BY <2>4
    <3> QED
      BY <2>1, <2>4, <3>1 DEF BlocksAccounted
  <2>6. OneSearch => OneSearch'
    BY <2>1 DEF OneSearch
  <2>7. \A p \in Tasks : (Held(p) => Held(p)') /\ (Found(p) => Found(p)')
    BY <2>1, <2>4 DEF Held, Found
  <2> QED
    BY <2>1, <2>2, <2>3, <2>5, <2>6, <2>7 DEF MemInv, MapRight
<1> QED
  BY <1>2, <1>3

(* Whatever calls preempt each other, even two searches, the fields of a    *)
(* call and the entries of the map keep their ranges (malloc.c:84-131).     *)
THEOREM AllocatorTypes == MemSpec => []MemTypeOK
<1>1. MemInv => MemTypeOK
  BY DEF MemInv, Shapes
<1> QED
  BY InitInv, NextInv, <1>1, PTL DEF MemSpec

(* As long as no mymalloc begins inside another one's search or marking, no *)
(* block has two owners and none is lost, though releases interleave with   *)
(* everything (malloc.c:99-106, 117-131); and a search that no call         *)
(* preempted is refused only when no run of free blocks is long enough.     *)
THEOREM BlocksHaveOneOwner == MemSpec => AllocatorSound
<1>1. MemInv /\ MemInv' /\ [MemNext]_memVars =>
        [BlocksAccounted' /\ \A p \in Tasks : RefusedForLackOfRoom(p)]_memVars
  <2> SUFFICES ASSUME MemInv, MemInv', MemNext
               PROVE  BlocksAccounted' /\ \A p \in Tasks : RefusedForLackOfRoom(p)
    OBVIOUS
  <2>1. BlocksAccounted'
    BY DEF MemInv, MapRight, BlocksAccounted
  <2>2. \A p \in Tasks : RefusedForLackOfRoom(p)
    BY RefusedRightly DEF MemInv, MemNext, MemStep
  <2> QED
    BY <2>1, <2>2
<1> QED
  BY InitInv, NextInv, <1>1, PTL DEF MemSpec, AllocatorSound
=============================================================================
