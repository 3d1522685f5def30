----------------------------- MODULE InterQueue -----------------------------
(****************************************************************************)
(* MOTORDRIVER/Queue.c, one action per function, each call a single step:   *)
(* the queue as a caller sees it when no other caller runs during the call. *)
(* InterQueueRace opens the calls up into their memory accesses.            *)
(****************************************************************************)
EXTENDS Integers, Sequences

CONSTANTS Msgs,      \* what callers enqueue (SCM or STM structures)
          Blank,     \* zeroed memory: slots after memset, a caller's buffer
          MaxCount   \* Q->MaxCount (QUEUEMAXCOUNT)

ASSUME MaxCountAssumption == MaxCount \in Nat \ {0}

VARIABLES front, QueueCount, rear, QNode,   \* struct interQueue
          pe,                               \* *pe of the last reading call
          ret                               \* value of the last call

vars == <<front, QueueCount, rear, QNode, pe, ret>>

Slots == 0 .. MaxCount - 1

(* The index after i: "if(Q->rear>=Q->MaxCount) Q->rear=0". *)
Wrap(i) == IF i + 1 >= MaxCount THEN 0 ELSE i + 1

Init ==
  /\ front = 0 /\ QueueCount = 0 /\ rear = 0
  /\ QNode = [i \in Slots |-> Blank]
  /\ pe = Blank
  /\ ret = 0

InitQueueinter ==
  /\ front' = 0 /\ rear' = 0 /\ QueueCount' = 0
  /\ ret' = 0
  /\ UNCHANGED <<QNode, pe>>

(* EnQueueinter on a queue with room: copy, advance rear, count. *)
EnQueueRoom(m) ==
  /\ QueueCount < MaxCount
  /\ QNode' = [QNode EXCEPT ![rear] = m]
  /\ rear' = Wrap(rear)
  /\ QueueCount' = QueueCount + 1
  /\ ret' = 0
  /\ UNCHANGED <<front, pe>>

(* Slip: the flush resets rear and the count but leaves front where it was. *)
(* Slip: the full queue overwrites its oldest message, a plain ring. *)
OverwriteOldest(m) ==
  /\ QueueCount >= MaxCount
  /\ QNode' = [QNode EXCEPT ![rear] = m]
  /\ rear' = Wrap(rear)
  /\ front' = Wrap(front)
  /\ ret' = 0
  /\ UNCHANGED <<QueueCount, pe>>

(* EnQueueinter on a full queue: InitQueueinter first, then the same. *)
EnQueueFull(m) ==
  /\ QueueCount >= MaxCount
  /\ front' = 0
  /\ QNode' = [QNode EXCEPT ![0] = m]
  /\ rear' = Wrap(0)
  /\ QueueCount' = 1
  /\ ret' = 0
  /\ UNCHANGED pe

EnQueueinter(m) == EnQueueRoom(m) \/ EnQueueFull(m)

GetAndDelQueueinter ==
  /\ QueueCount > 0
  /\ pe' = QNode[front]
  /\ front' = Wrap(front)
  /\ QueueCount' = QueueCount - 1
  /\ ret' = 0
  /\ UNCHANGED <<rear, QNode>>

GetQueueinter ==
  /\ QueueCount > 0
  /\ pe' = QNode[front]
  /\ ret' = 0
  /\ UNCHANGED <<front, rear, QueueCount, QNode>>

DelQueueinter ==
  /\ QueueCount > 0
  /\ front' = Wrap(front)
  /\ QueueCount' = QueueCount - 1
  /\ ret' = 0
  /\ UNCHANGED <<rear, QNode, pe>>

(* The "goto Err" exit the three reading calls share. *)
QueueEmptyErr ==
  /\ QueueCount <= 0
  /\ ret' = -1
  /\ UNCHANGED <<front, rear, QueueCount, QNode, pe>>

Next ==
  \/ InitQueueinter
  \/ \E m \in Msgs : EnQueueinter(m)
  \/ GetAndDelQueueinter
  \/ GetQueueinter
  \/ DelQueueinter
  \/ QueueEmptyErr

Spec == Init /\ [][Next]_vars
-----------------------------------------------------------------------------
(* The queue as a sequence: QueueCount slots from front, wrapping. *)
Slot(i) == IF i < MaxCount THEN i ELSE i - MaxCount
Contents == [i \in 1 .. QueueCount |-> QNode[Slot(front + i - 1)]]

(* The fields keep the ranges their uses rely on: every index that reaches  *)
(* memcpy addresses a slot of the array, and the count fits the array.      *)
TypeOK ==
  /\ front \in Slots /\ rear \in Slots
  /\ QueueCount \in 0 .. MaxCount
  /\ QNode \in [Slots -> Msgs \cup {Blank}]
  /\ pe \in Msgs \cup {Blank}
  /\ ret \in {0, -1}

(* front, rear and QueueCount are three views of one fact: rear is where    *)
(* the message after the last of the QueueCount queued ones goes.  A flush, *)
(* a wrap or an early return that updates one of them alone breaks this,    *)
(* and the queue then hands out old slots or skips new ones.                *)
RingConsistent == rear = Slot(front + QueueCount)

(* Queue.c implements the abstract queue: for every sequence of calls the   *)
(* caller gets the oldest message that was neither taken nor flushed.       *)
Fifo == INSTANCE LossyFifo WITH items <- Contents
FifoSpec == Fifo!Spec
=============================================================================
