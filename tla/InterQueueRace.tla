--------------------------- MODULE InterQueueRace ---------------------------
(****************************************************************************)
(* EnQueueinter and GetAndDelQueueinter access by access.  Queue.c takes no *)
(* lock and masks no interrupt, and one queue is shared by an interrupt     *)
(* handler (usart2.c:21) and tasks of several priorities, so a call can be  *)
(* preempted between any two accesses to struct interQueue.                 *)
(*                                                                          *)
(* Preemption is strict: an actor steps only while every call of a more     *)
(* urgent actor is over.  The interrupt is the most urgent actor; tasks     *)
(* follow their uC/OS-II priorities (no Queue.c call blocks or yields).     *)
(****************************************************************************)
EXTENDS Integers, Sequences, FiniteSets

CONSTANTS Callers,     \* the handler and the tasks that call Queue.c
          Setups,      \* the queues: who fills each, who empties it
          Prio,        \* caller -> priority; the smaller number is more urgent
          Threshold,   \* caller -> as a consumer it takes only when QueueCount
                       \*           exceeds this
          MaxCount,    \* Q->MaxCount
          Calls,       \* bound: caller -> calls of EnQueueinter it makes
          Blank        \* memory nobody wrote

ASSUME RaceAssumption ==
  /\ MaxCount \in Nat \ {0} /\ Calls \in [Callers -> Nat]
  /\ IsFiniteSet(Callers)
  /\ \A s \in Setups : /\ s.producers \in SUBSET Callers
                       /\ s.consumers \in SUBSET Callers
                       /\ s.producers \cap s.consumers = {}
                       /\ s.producers # {} /\ s.consumers # {}
  /\ Prio \in [Callers -> Nat] /\ Threshold \in [Callers -> Nat]
  /\ \A a, b \in Callers : Prio[a] = Prio[b] => a = b

VARIABLES Producers, Consumers,             \* who calls the queue looked at
          front, QueueCount, rear, QNode,   \* struct interQueue and its array
          pc,        \* where each actor is in its call ("idle": outside)
          idx,       \* the slot its memcpy addresses
          reg,       \* the register of its read-modify-write
          buf,       \* *pe: the two words of the message it moves
          sent,      \* EnQueueinter calls each producer has begun
          taken,     \* what consumers were given, in order      (history)
          entered,   \* messages whose EnQueueinter has returned (history)
          fifo,      \* the queue LossyFifo would hold, updated as calls return
          owed,      \* what LossyFifo would have given          (history)
          flushed,   \* some call has flushed the queue          (history)
          stale,     \* a consumer used its buffer after an Err  (history)
          overlapped \* a call began inside another one         (history)

shared == <<front, QueueCount, rear, QNode>>
setup == <<Producers, Consumers>>
history == <<taken, entered, fifo, owed, flushed, stale, overlapped, setup>>
vars == <<shared, pc, idx, reg, buf, sent, history>>

Actors == Producers \cup Consumers

(* A message is two words (SCM: ID and data); each word remembers whose it   *)
(* is, so a torn one shows.                                                  *)
Whole(m) == <<m, m>>
MsgId(a) == <<a, sent[a]>>

(* Memory past the array that an index can reach before it is wrapped. *)
Memory == 0 .. MaxCount + Cardinality(Callers)

Init ==
  /\ \E s \in Setups : Producers = s.producers /\ Consumers = s.consumers
  /\ front = 0 /\ QueueCount = 0 /\ rear = 0
  /\ QNode = [i \in Memory |-> Whole(Blank)]
  /\ pc = [a \in Actors |-> "idle"]
  /\ idx = [a \in Actors |-> 0]
  /\ reg = [a \in Actors |-> 0]
  /\ buf = [a \in Actors |-> Whole(Blank)]
  /\ sent = [a \in Actors |-> 0]
  /\ taken = <<>> /\ entered = {} /\ fifo = <<>> /\ owed = <<>>
  /\ flushed = FALSE /\ stale = FALSE /\ overlapped = FALSE

MostUrgent(a) == \A b \in Actors \ {a} : pc[b] = "idle" \/ Prio[b] > Prio[a]
AllIdle == \A a \in Actors : pc[a] = "idle"
MayStart(a) ==
  /\ pc[a] = "idle" /\ MostUrgent(a)
  /\ overlapped' = (overlapped \/ ~AllIdle)

Goto(a, l) == pc' = [pc EXCEPT ![a] = l]
At(a, l) == pc[a] = l /\ MostUrgent(a)
Past(i) == IF i >= MaxCount THEN 0 ELSE i
-----------------------------------------------------------------------------
(* EnQueueinter                                                              *)

CallEnQueue(a) ==          \* if(Q->QueueCount>=Q->MaxCount)
  /\ MayStart(a) /\ sent[a] < Calls[a]
  /\ sent' = [sent EXCEPT ![a] = @ + 1]
  /\ buf' = [buf EXCEPT ![a] = Whole(<<a, sent[a] + 1>>)]
  /\ Goto(a, IF QueueCount >= MaxCount THEN "flushRear" ELSE "copyID")
  /\ flushed' = (flushed \/ QueueCount >= MaxCount)
  /\ UNCHANGED <<shared, idx, reg, taken, entered, fifo, owed, stale, setup>>

FlushRear(a) ==            \* InitQueueinter stores rear, front, QueueCount
  /\ At(a, "flushRear") /\ Goto(a, "flushFront")
  /\ rear' = 0
  /\ UNCHANGED <<front, QueueCount, QNode, idx, reg, buf, sent, history>>

FlushFront(a) ==
  /\ At(a, "flushFront") /\ Goto(a, "flushCount")
  /\ front' = 0
  /\ UNCHANGED <<QueueCount, rear, QNode, idx, reg, buf, sent, history>>

LateFlush(a) ==            \* slip: the flush ends the call, count still zero
  /\ At(a, "flushCount") /\ Goto(a, "idle")
  /\ QueueCount' = 0
  /\ UNCHANGED <<front, rear, QNode, idx, reg, buf, sent, history>>

FlushCount(a) ==
  /\ At(a, "flushCount") /\ Goto(a, "copyID")
  /\ QueueCount' = 0
  /\ UNCHANGED <<front, rear, QNode, idx, reg, buf, sent, history>>

CopyInID(a) ==             \* memcpy computes its address once, then copies
  /\ At(a, "copyID") /\ Goto(a, "copyData")
  /\ idx' = [idx EXCEPT ![a] = rear]
  /\ QNode' = [QNode EXCEPT ![rear][1] = buf[a][1]]
  /\ UNCHANGED <<front, QueueCount, rear, reg, buf, sent, history>>

CopyInData(a) ==
  /\ At(a, "copyData") /\ Goto(a, "loadRear")
  /\ QNode' = [QNode EXCEPT ![idx[a]][2] = buf[a][2]]
  /\ UNCHANGED <<front, QueueCount, rear, idx, reg, buf, sent, history>>

LoadRear(a) ==             \* Q->rear++ is a load ...
  /\ At(a, "loadRear") /\ Goto(a, "storeRear")
  /\ reg' = [reg EXCEPT ![a] = rear]
  /\ UNCHANGED <<shared, idx, buf, sent, history>>

StoreRear(a) ==            \* ... and a store
  /\ At(a, "storeRear") /\ Goto(a, "wrapRear")
  /\ rear' = reg[a] + 1
  /\ reg' = [reg EXCEPT ![a] = @ + 1]
  /\ UNCHANGED <<front, QueueCount, QNode, idx, buf, sent, history>>

(* if(Q->rear>=Q->MaxCount): the field is not volatile, so the test may use *)
(* the register or load the field again.                                    *)
WrapRear(a) ==
  /\ At(a, "wrapRear") /\ Goto(a, "loadCount")
  /\ \E v \in {reg[a], rear} : rear' = IF v >= MaxCount THEN 0 ELSE rear
  /\ UNCHANGED <<front, QueueCount, QNode, idx, reg, buf, sent, history>>

LoadCount(a) ==
  /\ At(a, "loadCount") /\ Goto(a, "storeCount")
  /\ reg' = [reg EXCEPT ![a] = QueueCount]
  /\ UNCHANGED <<shared, idx, buf, sent, history>>

EnQueueReturn(a) ==        \* Q->QueueCount++ is stored and the call returns
  /\ At(a, "storeCount") /\ Goto(a, "idle")
  /\ QueueCount' = reg[a] + 1
  /\ entered' = entered \cup {MsgId(a)}
  /\ fifo' = IF Len(fifo) < MaxCount THEN Append(fifo, MsgId(a)) ELSE <<MsgId(a)>>
  /\ UNCHANGED <<front, rear, QNode, idx, reg, buf, sent, taken, owed, flushed, stale,
                 overlapped, setup>>
-----------------------------------------------------------------------------
(* A consumer (can.c:40, tcp_client_demo.c:59, wifiap.c:39) tests the count, *)
(* calls GetAndDelQueueinter, and uses its buffer whatever it returned.      *)

Poll(a) ==
  /\ MayStart(a) /\ QueueCount > Threshold[a]
  /\ Goto(a, "check")
  /\ UNCHANGED <<shared, idx, reg, buf, sent, taken, entered, fifo, owed, flushed,
                 stale, setup>>

CallGetAndDel(a) ==        \* if(Q->QueueCount<=0)goto Err
  /\ At(a, "check")
  /\ Goto(a, IF QueueCount <= 0 THEN "idle" ELSE "copyOutID")
  /\ stale' = (stale \/ QueueCount <= 0)
  /\ UNCHANGED <<shared, idx, reg, buf, sent, taken, entered, fifo, owed, flushed,
                 overlapped, setup>>

PeekOutID(a) ==            \* slip: reads the slot at rear
  /\ At(a, "copyOutID") /\ Goto(a, "copyOutData")
  /\ idx' = [idx EXCEPT ![a] = rear]
  /\ buf' = [buf EXCEPT ![a][1] = QNode[rear][1]]
  /\ UNCHANGED <<shared, reg, sent, history>>

CopyOutID(a) ==
  /\ At(a, "copyOutID") /\ Goto(a, "copyOutData")
  /\ idx' = [idx EXCEPT ![a] = front]
  /\ buf' = [buf EXCEPT ![a][1] = QNode[front][1]]
  /\ UNCHANGED <<shared, reg, sent, history>>

CopyOutData(a) ==
  /\ At(a, "copyOutData") /\ Goto(a, "loadFront")
  /\ buf' = [buf EXCEPT ![a][2] = QNode[idx[a]][2]]
  /\ UNCHANGED <<shared, idx, reg, sent, history>>

LoadFront(a) ==
  /\ At(a, "loadFront") /\ Goto(a, "storeFront")
  /\ reg' = [reg EXCEPT ![a] = front]
  /\ UNCHANGED <<shared, idx, buf, sent, history>>

StoreFront(a) ==
  /\ At(a, "storeFront") /\ Goto(a, "wrapFront")
  /\ front' = reg[a] + 1
  /\ reg' = [reg EXCEPT ![a] = @ + 1]
  /\ UNCHANGED <<QueueCount, rear, QNode, idx, buf, sent, history>>

WrapFrontLate(a) ==        \* slip: > for >=
  /\ At(a, "wrapFront") /\ Goto(a, "loadCountDel")
  /\ \E v \in {reg[a], front} : front' = IF v > MaxCount THEN 0 ELSE front
  /\ UNCHANGED <<QueueCount, rear, QNode, idx, reg, buf, sent, history>>

WrapFront(a) ==
  /\ At(a, "wrapFront") /\ Goto(a, "loadCountDel")
  /\ \E v \in {reg[a], front} : front' = IF v >= MaxCount THEN 0 ELSE front
  /\ UNCHANGED <<QueueCount, rear, QNode, idx, reg, buf, sent, history>>

LoadCountDel(a) ==
  /\ At(a, "loadCountDel") /\ Goto(a, "storeCountDel")
  /\ reg' = [reg EXCEPT ![a] = QueueCount]
  /\ UNCHANGED <<shared, idx, buf, sent, history>>

GetAndDelReturn(a) ==
  /\ At(a, "storeCountDel") /\ Goto(a, "idle")
  /\ QueueCount' = reg[a] - 1
  /\ taken' = Append(taken, buf[a])
  /\ owed' = IF fifo = <<>> THEN owed ELSE Append(owed, Whole(Head(fifo)))
  /\ fifo' = IF fifo = <<>> THEN fifo ELSE Tail(fifo)
  /\ UNCHANGED <<front, rear, QNode, idx, reg, buf, sent, entered, flushed, stale,
                 overlapped, setup>>
-----------------------------------------------------------------------------
EnQueueStep(a) ==
  \/ CallEnQueue(a) \/ FlushRear(a) \/ FlushFront(a) \/ FlushCount(a)
  \/ CopyInID(a) \/ CopyInData(a) \/ LoadRear(a) \/ StoreRear(a)
  \/ WrapRear(a) \/ LoadCount(a) \/ EnQueueReturn(a)

GetAndDelStep(a) ==
  \/ Poll(a) \/ CallGetAndDel(a) \/ CopyOutID(a) \/ CopyOutData(a)
  \/ LoadFront(a) \/ StoreFront(a) \/ WrapFront(a) \/ LoadCountDel(a)
  \/ GetAndDelReturn(a)

Next == (\E a \in Producers : EnQueueStep(a)) \/ (\E a \in Consumers : GetAndDelStep(a))

Spec == Init /\ [][Next]_vars
-----------------------------------------------------------------------------
MsgIds == (UNION {{a} \X (1 .. Calls[a]) : a \in Callers}) \cup {Blank}
Labels == {"idle", "flushRear", "flushFront", "flushCount", "copyID", "copyData",
           "loadRear", "storeRear", "wrapRear", "loadCount", "storeCount",
           "check", "copyOutID", "copyOutData", "loadFront", "storeFront",
           "wrapFront", "loadCountDel", "storeCountDel"}

(* How far overlapping calls can drive the fields: an index is stored one    *)
(* past its last legal value before it is wrapped, and each further caller   *)
(* on the same end adds one; each caller but one can count a message after   *)
(* a test that no longer holds.                                              *)
TypeOK ==
  /\ front \in 0 .. MaxCount + Cardinality(Consumers) - 1
  /\ rear \in 0 .. MaxCount + Cardinality(Producers) - 1
  /\ QueueCount \in 1 - Cardinality(Consumers) .. MaxCount + Cardinality(Producers) - 1
  /\ QNode \in [Memory -> MsgIds \X MsgIds]
  /\ pc \in [Actors -> Labels]
  /\ idx \in [Actors -> Memory]
  /\ buf \in [Actors -> MsgIds \X MsgIds]
  /\ \A a \in Actors : sent[a] \in 0 .. Calls[a]

(* The index a copy uses is incremented before it is compared with MaxCount, *)
(* so a call preempted in between exposes an index past the array to the     *)
(* next caller.  With one producer and one consumer that never happens,      *)
(* whoever preempts whom; each further caller on one end costs at most one   *)
(* more slot: n nested callers reach MaxCount + n - 2, never further.        *)
OverrunBounded ==
  /\ TypeOK
  /\ \A a \in Producers : idx[a] <= MaxCount + Cardinality(Producers) - 2
  /\ \A a \in Consumers : idx[a] <= MaxCount + Cardinality(Consumers) - 2

(* can_thread ignores the value GetAndDelQueueinter returns and sends its    *)
(* buffer (can.c:42-43): harmless only because between its test of           *)
(* QueueCount and the call's own test no preemption can empty the queue.     *)
(* A flush passes through count 0, but always ends with one message queued.  *)
(* It holds of a queue with one consumer.  The feedback queue has two, and   *)
(* there tcp_client can empty it between the WiFi task's test (wifiap.c:37)  *)
(* and its call.                                                             *)
NoStaleResend == Cardinality(Consumers) = 1 => ~stale

(* With calls that do not overlap, the accesses in this order amount to the  *)
(* abstract queue: same contents whenever no call is in progress, and every  *)
(* consumer is given exactly the messages the abstract queue gives.          *)
Contents == [i \in 1 .. QueueCount |->
               QNode[(front + i - 1) % MaxCount]]
AgreesWithFifo == ~overlapped =>
  /\ taken = owed
  /\ AllIdle => Contents = [i \in DOMAIN fifo |-> Whole(fifo[i])]

SeqElems(s) == {s[i] : i \in DOMAIN s}

(* Queue.c:15 calls EnQueueinter "enqueue": when no call is in progress and  *)
(* nothing was flushed, each message whose call has returned was taken or is *)
(* in the queue.                                                             *)
NothingLost ==
  AllIdle /\ ~flushed =>
    \A m \in entered : Whole(m) \in SeqElems(taken) \cup SeqElems(Contents)
=============================================================================
