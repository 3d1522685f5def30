------------------------ MODULE InterQueueRaceProofs ------------------------
(****************************************************************************)
(* Proofs about preempted calls of Queue.c for every capacity, every number *)
(* of callers on either end, every assignment of priorities and any number  *)
(* of calls: how far the fields can leave their ranges, that one consumer   *)
(* never uses its buffer after an Err, and that calls which do not overlap  *)
(* amount to LossyFifo.                                                     *)
(*                                                                          *)
(* Preemption is strict, so the calls in progress are nested: while a call  *)
(* runs, the less urgent ones below it stand still.  Each part of the       *)
(* invariant says what a field may be given the calls in progress, and what *)
(* a register may hold given the calls below its own.                       *)
(****************************************************************************)
EXTENDS InterQueueRace, SequenceTheorems, FiniteSetTheorems, TLAPS

Setting ==
  /\ Producers \in SUBSET Callers /\ Consumers \in SUBSET Callers
  /\ Producers # {} /\ Consumers # {} /\ Producers \cap Consumers = {}

Below(S, a) == {b \in S : Prio[b] >= Prio[a]}

(* One end of the ring: x is its index, E the calls that move it, and p, r  *)
(* and i say where each is, its register and the slot it copies.  Beyond    *)
(* holds the calls that stored an index past the array and have not wrapped *)
(* it yet.                                                                  *)
Beyond(E, p, r, wrap) == {a \in E : p[a] = wrap /\ r[a] >= MaxCount}
EndBound(E, x, p, r, i, store, wrap) ==
  /\ x \in Nat /\ x < MaxCount + Cardinality(Beyond(E, p, r, wrap))
  /\ \A a \in E :
       /\ i[a] \in Nat /\ i[a] <= MaxCount + Cardinality(E) - 2
       /\ p[a] \in {store, wrap} => r[a] \in Nat
       /\ p[a] = store => r[a] < MaxCount + Cardinality(Below(Beyond(E, p, r, wrap), a))
RearBound == EndBound(Producers, rear, pc, reg, idx, "storeRear", "wrapRear")
FrontBound == EndBound(Consumers, front, pc, reg, idx, "storeFront", "wrapFront")

(* Calls that passed their test of QueueCount and have not yet stored it.   *)
Adding ==
  {a \in Producers : pc[a] \in {"copyID", "copyData", "loadRear", "storeRear", "wrapRear",
                                "loadCount", "storeCount"}}
Deleting ==
  {a \in Consumers : pc[a] \in {"copyOutID", "copyOutData", "loadFront", "storeFront", "wrapFront",
                                "loadCountDel", "storeCountDel"}}
Storing(a) == pc[a] \in {"storeCount", "storeCountDel"}
CountHigh ==
  /\ QueueCount \in Int /\ QueueCount + Cardinality(Adding) <= MaxCount + Cardinality(Producers) - 1
  /\ \A a \in Actors : Storing(a) =>
       /\ reg[a] \in Int
       /\ reg[a] + Cardinality(Below(Adding, a)) <= MaxCount + Cardinality(Producers) - 1

(* A flush takes the count from under the calls that delete; the call that  *)
(* flushes counts its own message before they go on.                        *)
Restoring == \E p \in Adding : \A c \in Deleting : Prio[p] < Prio[c]
CountLow ==
  /\ QueueCount >= 1 - Cardinality(Consumers)
  /\ QueueCount >= Cardinality(Deleting) - Cardinality(Consumers)
  /\ Restoring \/ QueueCount >= Cardinality(Deleting) + 1 - Cardinality(Consumers)
  /\ \A a \in Producers : pc[a] = "storeCount" =>
       /\ reg[a] >= 1 - Cardinality(Consumers)
       /\ reg[a] >= Cardinality(Below(Deleting, a)) - Cardinality(Consumers)
  /\ \A a \in Consumers : pc[a] = "storeCountDel" =>
       reg[a] >= Cardinality(Below(Deleting, a)) + 1 - Cardinality(Consumers)

(* A consumer whose own test found a message finds one in the call, or a    *)
(* call that preempted it is about to count one.                            *)
CheckHolds ==
  Cardinality(Consumers) = 1 =>
    /\ ~stale
    /\ \A c \in Consumers : pc[c] = "check" =>
         QueueCount >= 1 \/ \E p \in Adding : Prio[p] < Prio[c]

Types ==
  /\ QNode \in [Memory -> MsgIds \X MsgIds]
  /\ pc \in [Actors -> Labels]
  /\ idx \in [Actors -> Memory] /\ reg \in [Actors -> Int]
  /\ buf \in [Actors -> MsgIds \X MsgIds]
  /\ sent \in [Actors -> Nat] /\ \A a \in Actors : sent[a] <= Calls[a]

Bounds == Setting /\ Types /\ RearBound /\ FrontBound /\ CountHigh /\ CountLow /\ CheckHolds
-----------------------------------------------------------------------------
LEMMA SettingFacts ==
  ASSUME Setting
  PROVE  /\ Actors \subseteq Callers /\ IsFiniteSet(Producers) /\ IsFiniteSet(Consumers)
         /\ Cardinality(Producers) \in Nat \ {0} /\ Cardinality(Consumers) \in Nat \ {0}
         /\ Cardinality(Producers) <= Cardinality(Callers) /\ Cardinality(Consumers) <= Cardinality(Callers)
         /\ Cardinality(Callers) \in Nat
         /\ \A a \in Actors : Prio[a] \in Nat
         /\ \A a, b \in Actors : Prio[a] = Prio[b] => a = b
<1>1. Actors \subseteq Callers /\ IsFiniteSet(Callers) /\ Producers \subseteq Callers /\ Consumers \subseteq Callers
  BY RaceAssumption DEF Setting, Actors
<1>2. /\ IsFiniteSet(Producers) /\ Cardinality(Producers) <= Cardinality(Callers)
      /\ IsFiniteSet(Consumers) /\ Cardinality(Consumers) <= Cardinality(Callers)
  BY <1>1, FS_Subset
<1>3. /\ Cardinality(Producers) \in Nat /\ Cardinality(Consumers) \in Nat /\ Cardinality(Callers) \in Nat
      /\ Cardinality(Producers) # 0 /\ Cardinality(Consumers) # 0
  BY <1>1, <1>2, FS_CardinalityType, FS_EmptySet DEF Setting
<1> QED
  BY <1>1, <1>2, <1>3, RaceAssumption

LEMMA CardSubset ==
  ASSUME NEW T, IsFiniteSet(T), NEW S \in SUBSET T
  PROVE  IsFiniteSet(S) /\ Cardinality(S) \in Nat /\ Cardinality(T) \in Nat /\ Cardinality(S) <= Cardinality(T)
BY FS_Subset, FS_CardinalityType

LEMMA CardAdd ==
  ASSUME NEW S, IsFiniteSet(S), NEW a, a \notin S
  PROVE  IsFiniteSet(S \cup {a}) /\ Cardinality(S \cup {a}) = Cardinality(S) + 1
BY FS_AddElement

LEMMA CardRemove ==
  ASSUME NEW S, IsFiniteSet(S), NEW a \in S
  PROVE  IsFiniteSet(S \ {a}) /\ Cardinality(S \ {a}) = Cardinality(S) - 1
BY FS_RemoveElement

LEMMA CardWithout ==
  ASSUME NEW T, IsFiniteSet(T), NEW S \in SUBSET T, NEW a \in T, a \notin S
  PROVE  IsFiniteSet(S) /\ Cardinality(S) \in Nat /\ Cardinality(S) <= Cardinality(T) - 1
<1>1. S \in SUBSET (T \ {a}) /\ IsFiniteSet(T \ {a}) /\ Cardinality(T \ {a}) = Cardinality(T) - 1
  BY CardRemove
<1> QED
  BY <1>1, CardSubset

(* Nothing above the call that runs is in progress.                         *)
LEMMA Topmost ==
  ASSUME Setting, NEW a \in Actors, MostUrgent(a), NEW S \in SUBSET Actors, \A b \in S \ {a} : pc[b] # "idle"
  PROVE  Below(S, a) = S /\ \A b \in S \ {a} : Prio[a] < Prio[b]
<1>1. \A b \in S \ {a} : Prio[b] > Prio[a] /\ Prio[b] \in Nat /\ Prio[a] \in Nat
  BY SettingFacts DEF MostUrgent
<1> QED
  BY <1>1, SettingFacts DEF Below

LEMMA BelowSame ==
  ASSUME NEW a, NEW b, Prio[a] \in Nat, Prio[b] \in Nat, Prio[b] > Prio[a], NEW X, NEW Y, X \ {a} = Y \ {a}
  PROVE  Below(X, b) = Below(Y, b)
BY DEF Below
-----------------------------------------------------------------------------
(* One end of the ring, step by step.  The call of a runs, so those of E    *)
(* that are in progress are less urgent.                                    *)
Nested(E, p, a) == \A b \in E \ {a} : p[b] = "idle" \/ Prio[b] > Prio[a]
Others(E, a, p, r, i, q, s, j) == \A b \in E \ {a} : q[b] = p[b] /\ s[b] = r[b] /\ j[b] = i[b]

LEMMA EndFrame ==
  ASSUME NEW E \in SUBSET Callers, NEW a \in Callers, NEW x, NEW p, NEW r, NEW i, NEW q, NEW s, NEW j,
         NEW st \in {"storeRear", "storeFront"}, NEW wr \in {"wrapRear", "wrapFront"},
         EndBound(E, x, p, r, i, st, wr), Others(E, a, p, r, i, q, s, j),
         a \in E => p[a] # wr /\ q[a] # st /\ q[a] # wr /\ (j[a] = i[a] \/ j[a] = x)
  PROVE  EndBound(E, x, q, s, j, st, wr)
<1>1. Beyond(E, q, s, wr) = Beyond(E, p, r, wr)
  BY DEF Beyond, Others
<1>2. ASSUME NEW b \in E \ {a}
      PROVE  /\ j[b] \in Nat /\ j[b] <= MaxCount + Cardinality(E) - 2
             /\ q[b] \in {st, wr} => s[b] \in Nat
             /\ q[b] = st => s[b] < MaxCount + Cardinality(Below(Beyond(E, q, s, wr), b))
  BY <1>1 DEF EndBound, Others
<1>3. ASSUME a \in E PROVE j[a] \in Nat /\ j[a] <= MaxCount + Cardinality(E) - 2
  <2>1. IsFiniteSet(E)
    BY RaceAssumption, FS_Subset
  <2>2. /\ Cardinality(Beyond(E, p, r, wr)) \in Nat
        /\ Cardinality(Beyond(E, p, r, wr)) <= Cardinality(E) - 1
    BY <1>3, <2>1, CardWithout DEF Beyond
  <2>3. Cardinality(E) \in Nat
    BY <2>1, FS_CardinalityType
  <2>4. x \in Nat /\ x < MaxCount + Cardinality(Beyond(E, p, r, wr))
    BY DEF EndBound
  <2>5. x <= MaxCount + Cardinality(E) - 2
    BY <2>2, <2>3, <2>4, RaceAssumption
  <2> QED
    BY <1>3, <2>4, <2>5 DEF EndBound
<1> QED
  BY <1>1, <1>2, <1>3 DEF EndBound

LEMMA EndZero ==
  ASSUME NEW E \in SUBSET Callers, NEW x, NEW p, NEW r, NEW i, NEW st, NEW wr, EndBound(E, x, p, r, i, st, wr)
  PROVE  EndBound(E, 0, p, r, i, st, wr)
<1>1. Cardinality(Beyond(E, p, r, wr)) \in Nat
  BY RaceAssumption, FS_Subset, FS_CardinalityType DEF Beyond
<1> QED
  BY <1>1, RaceAssumption DEF EndBound

LEMMA NestedBelow ==
  ASSUME NEW E \in SUBSET Callers, NEW a \in Callers, NEW p, Nested(E, p, a),
         NEW S \in SUBSET (E \ {a}), \A b \in S : p[b] # "idle"
  PROVE  Below(S, a) = S
<1>1. \A b \in S : Prio[b] > Prio[a] /\ Prio[b] \in Nat /\ Prio[a] \in Nat
  BY RaceAssumption DEF Nested
<1> QED
  BY <1>1 DEF Below

LEMMA EndLoad ==
  ASSUME NEW E \in SUBSET Callers, NEW a \in E, NEW x, NEW p, NEW r, NEW i, NEW q, NEW s, NEW j,
         NEW st \in {"storeRear", "storeFront"}, NEW wr \in {"wrapRear", "wrapFront"},
         EndBound(E, x, p, r, i, st, wr), Others(E, a, p, r, i, q, s, j), Nested(E, p, a),
         p[a] # wr, q[a] = st, s[a] = x, j[a] = i[a]
  PROVE  EndBound(E, x, q, s, j, st, wr)
<1>1. Beyond(E, q, s, wr) = Beyond(E, p, r, wr)
  BY DEF Beyond, Others
<1>2. ASSUME NEW b \in E \ {a}
      PROVE  /\ j[b] \in Nat /\ j[b] <= MaxCount + Cardinality(E) - 2
             /\ q[b] \in {st, wr} => s[b] \in Nat
             /\ q[b] = st => s[b] < MaxCount + Cardinality(Below(Beyond(E, q, s, wr), b))
  BY <1>1 DEF EndBound, Others
<1>3. Below(Beyond(E, p, r, wr), a) = Beyond(E, p, r, wr)
  BY NestedBelow DEF Beyond
<1> QED
  BY <1>1, <1>2, <1>3 DEF EndBound

LEMMA EndStore ==
  ASSUME NEW E \in SUBSET Callers, NEW a \in E, NEW x, NEW p, NEW r, NEW i, NEW q, NEW s, NEW j,
         NEW st \in {"storeRear", "storeFront"}, NEW wr \in {"wrapRear", "wrapFront"},
         EndBound(E, x, p, r, i, st, wr), Others(E, a, p, r, i, q, s, j), Nested(E, p, a),
         p[a] = st, q[a] = wr, s[a] = r[a] + 1, j[a] = i[a]
  PROVE  EndBound(E, r[a] + 1, q, s, j, st, wr)
<1> DEFINE B == Beyond(E, p, r, wr)
           C == Beyond(E, q, s, wr)
<1>1. a \notin B /\ C = IF r[a] + 1 >= MaxCount THEN B \cup {a} ELSE B
  BY DEF Beyond, Others
<1>2. r[a] \in Nat /\ r[a] < MaxCount + Cardinality(Below(B, a))
  BY DEF EndBound
<1>3. Below(B, a) = B
  BY <1>1, NestedBelow DEF Beyond
<1>4. IsFiniteSet(B) /\ Cardinality(B) \in Nat
  BY RaceAssumption, FS_Subset, FS_CardinalityType DEF Beyond
<1>5. Cardinality(B \cup {a}) = Cardinality(B) + 1
  BY <1>1, <1>4, CardAdd
<1>6. r[a] + 1 \in Nat /\ r[a] + 1 < MaxCount + Cardinality(C)
  BY <1>1, <1>2, <1>3, <1>4, <1>5, RaceAssumption
<1>7. ASSUME NEW b \in E \ {a}, p[b] = st PROVE Below(C, b) = Below(B, b)
  <2>1. Prio[b] > Prio[a] /\ Prio[b] \in Nat /\ Prio[a] \in Nat
    BY <1>7, RaceAssumption DEF Nested
  <2>2. C \ {a} = B \ {a}
    BY <1>1
  <2> HIDE DEF B, C
  <2> QED
    BY <2>1, <2>2, BelowSame
<1>8. ASSUME NEW b \in E \ {a}
      PROVE  /\ j[b] \in Nat /\ j[b] <= MaxCount + Cardinality(E) - 2
             /\ q[b] \in {st, wr} => s[b] \in Nat
             /\ q[b] = st => s[b] < MaxCount + Cardinality(Below(C, b))
  BY <1>7 DEF EndBound, Others
<1> QED
  BY <1>2, <1>6, <1>8 DEF EndBound

LEMMA EndWrap ==
  ASSUME NEW E \in SUBSET Callers, NEW a \in E, NEW x, NEW p, NEW r, NEW i, NEW q, NEW s, NEW j,
         NEW st \in {"storeRear", "storeFront"}, NEW wr \in {"wrapRear", "wrapFront"},
         EndBound(E, x, p, r, i, st, wr), Others(E, a, p, r, i, q, s, j), Nested(E, p, a),
         p[a] = wr, q[a] # st, q[a] # wr, s[a] = r[a], j[a] = i[a], NEW v \in {r[a], x}
  PROVE  EndBound(E, IF v >= MaxCount THEN 0 ELSE x, q, s, j, st, wr)
<1> DEFINE B == Beyond(E, p, r, wr)
           C == Beyond(E, q, s, wr)
           y == IF v >= MaxCount THEN 0 ELSE x
<1>1. C = B \ {a} /\ (a \in B <=> r[a] >= MaxCount)
  BY DEF Beyond, Others
<1>2. r[a] \in Nat /\ x \in Nat /\ x < MaxCount + Cardinality(B)
  BY DEF EndBound
<1>4. IsFiniteSet(C) /\ Cardinality(C) \in Nat
  BY RaceAssumption, FS_Subset, FS_CardinalityType DEF Beyond
<1>5. r[a] < MaxCount => C = B
  BY <1>1, <1>2, RaceAssumption
<1>6. y \in Nat /\ y < MaxCount + Cardinality(C)
  BY <1>2, <1>4, <1>5, RaceAssumption
<1>7. ASSUME NEW b \in E \ {a}, p[b] = st PROVE Below(C, b) = Below(B, b)
  <2>1. Prio[b] > Prio[a] /\ Prio[b] \in Nat /\ Prio[a] \in Nat
    BY <1>7, RaceAssumption DEF Nested
  <2>2. C \ {a} = B \ {a}
    BY <1>1
  <2> HIDE DEF B, C
  <2> QED
    BY <2>1, <2>2, BelowSame
<1>8. ASSUME NEW b \in E \ {a}
      PROVE  /\ j[b] \in Nat /\ j[b] <= MaxCount + Cardinality(E) - 2
             /\ q[b] \in {st, wr} => s[b] \in Nat
             /\ q[b] = st => s[b] < MaxCount + Cardinality(Below(C, b))
  BY <1>7 DEF EndBound, Others
<1> HIDE DEF y
<1>9. j[a] \in Nat /\ j[a] <= MaxCount + Cardinality(E) - 2
  BY DEF EndBound
<1>10. EndBound(E, y, q, s, j, st, wr)
  BY <1>6, <1>8, <1>9 DEF EndBound
<1> QED
  BY <1>10 DEF y
-----------------------------------------------------------------------------
(* One call moves at a time, and the calls above it are over.               *)
Moves(a) ==
  /\ MostUrgent(a) /\ UNCHANGED setup
  /\ \A b \in Actors \ {a} : pc'[b] = pc[b] /\ reg'[b] = reg[b] /\ idx'[b] = idx[b]
LEMMA Mover ==
  ASSUME Setting, Types, NEW a \in Actors, EnQueueStep(a) \/ GetAndDelStep(a)
  PROVE  Moves(a)
<1>1. CASE CallEnQueue(a) \/ FlushRear(a) \/ FlushFront(a) \/ FlushCount(a)
  BY <1>1 DEF CallEnQueue, FlushRear, FlushFront, FlushCount, MayStart, At, Goto, Moves, Types, setup, history
<1>2. CASE CopyInID(a) \/ CopyInData(a) \/ LoadRear(a) \/ StoreRear(a) \/ WrapRear(a)
  BY <1>2 DEF CopyInID, CopyInData, LoadRear, StoreRear, WrapRear, At, Goto, Moves, Types, setup, history
<1>3. CASE LoadCount(a) \/ EnQueueReturn(a) \/ LoadCountDel(a) \/ GetAndDelReturn(a)
  BY <1>3 DEF LoadCount, EnQueueReturn, LoadCountDel, GetAndDelReturn, At, Goto, Moves, Types, setup, history
<1>4. CASE Poll(a) \/ CallGetAndDel(a)
  BY <1>4 DEF Poll, CallGetAndDel, MayStart, At, Goto, Moves, Types, setup, history
<1>5. CASE CopyOutID(a) \/ CopyOutData(a) \/ LoadFront(a) \/ StoreFront(a) \/ WrapFront(a)
  BY <1>5 DEF CopyOutID, CopyOutData, LoadFront, StoreFront, WrapFront, At, Goto, Moves, Types, setup, history
<1> QED
  BY <1>1, <1>2, <1>3, <1>4, <1>5 DEF EnQueueStep, GetAndDelStep

LEMMA MovesNested ==
  ASSUME Setting, NEW a \in Actors, Moves(a)
  PROVE  /\ Producers' = Producers /\ Consumers' = Consumers
         /\ Nested(Producers, pc, a) /\ Others(Producers, a, pc, reg, idx, pc', reg', idx')
         /\ Nested(Consumers, pc, a) /\ Others(Consumers, a, pc, reg, idx, pc', reg', idx')
BY DEF Moves, setup, MostUrgent, Nested, Others, Actors

LEMMA RearNext ==
  ASSUME Setting, Types, RearBound, NEW a \in Actors,
         (a \in Producers /\ EnQueueStep(a)) \/ (a \in Consumers /\ GetAndDelStep(a))
  PROVE  RearBound'
<1> DEFINE R(x, q, s, j) == EndBound(Producers, x, q, s, j, "storeRear", "wrapRear")
<1>1. /\ Moves(a) /\ Producers \in SUBSET Callers /\ a \in Callers /\ Producers' = Producers
      /\ Nested(Producers, pc, a) /\ Others(Producers, a, pc, reg, idx, pc', reg', idx')
      /\ R(rear, pc, reg, idx)
  BY Mover, MovesNested, SettingFacts DEF Setting, RearBound
<1> SUFFICES R(rear', pc', reg', idx')
  BY <1>1 DEF RearBound
<1>2. CASE a \in Consumers /\ GetAndDelStep(a)
  <2>1. a \notin Producers /\ rear' = rear
    BY <1>2 DEF Setting, GetAndDelStep, Poll, CallGetAndDel, CopyOutID, CopyOutData, LoadFront, StoreFront, WrapFront,
      LoadCountDel, GetAndDelReturn, shared
  <2> QED
    BY <1>1, <2>1, EndFrame
<1>3. CASE a \in Producers /\ LoadRear(a)
  <2>1. /\ pc[a] # "wrapRear" /\ pc'[a] = "storeRear" /\ reg'[a] = rear /\ idx' = idx /\ rear' = rear
    BY <1>3 DEF LoadRear, At, Goto, shared, Types
  <2> QED
    BY <1>1, <1>3, <2>1, EndLoad
<1>4. CASE a \in Producers /\ StoreRear(a)
  <2>1. /\ pc[a] = "storeRear" /\ pc'[a] = "wrapRear" /\ reg'[a] = reg[a] + 1 /\ idx' = idx /\ rear' = reg[a] + 1
    BY <1>4 DEF StoreRear, At, Goto, Types
  <2>2. R(reg[a] + 1, pc', reg', idx')
    BY <1>1, <1>4, <2>1, EndStore
  <2> QED
    BY <2>1, <2>2
<1>5. CASE a \in Producers /\ WrapRear(a)
  <2>1. /\ pc[a] = "wrapRear" /\ pc'[a] = "loadCount" /\ reg' = reg /\ idx' = idx
    BY <1>5 DEF WrapRear, At, Goto, Types
  <2>2. PICK v \in {reg[a], rear} : rear' = IF v >= MaxCount THEN 0 ELSE rear
    BY <1>5 DEF WrapRear
  <2>3. R(IF v >= MaxCount THEN 0 ELSE rear, pc', reg', idx')
    BY <1>1, <1>5, <2>1, EndWrap
  <2> QED
    BY <2>2, <2>3
<1>6. CASE a \in Producers /\ FlushRear(a)
  <2>1. pc[a] = "flushRear" /\ pc'[a] = "flushFront" /\ idx' = idx /\ rear' = 0
    BY <1>6 DEF FlushRear, At, Goto, Types
  <2>2. R(rear, pc', reg', idx')
    BY <1>1, <2>1, EndFrame
  <2> QED
    BY <1>1, <2>1, <2>2, EndZero
<1>7. CASE a \in Producers /\ (CallEnQueue(a) \/ FlushFront(a) \/ FlushCount(a) \/ CopyInID(a) \/ CopyInData(a)
                              \/ LoadCount(a) \/ EnQueueReturn(a))
  <2>1. /\ pc[a] # "wrapRear" /\ pc'[a] # "storeRear" /\ pc'[a] # "wrapRear" /\ rear' = rear
        /\ idx'[a] = idx[a] \/ idx'[a] = rear
    BY <1>7 DEF CallEnQueue, FlushFront, FlushCount, CopyInID, CopyInData, LoadCount, EnQueueReturn,
      MayStart, At, Goto, shared, Types
  <2> QED
    BY <1>1, <2>1, EndFrame
<1> QED
  BY <1>2, <1>3, <1>4, <1>5, <1>6, <1>7 DEF EnQueueStep

LEMMA FrontNext ==
  ASSUME Setting, Types, FrontBound, NEW a \in Actors,
         (a \in Producers /\ EnQueueStep(a)) \/ (a \in Consumers /\ GetAndDelStep(a))
  PROVE  FrontBound'
<1> DEFINE R(x, q, s, j) == EndBound(Consumers, x, q, s, j, "storeFront", "wrapFront")
<1>1. /\ Moves(a) /\ Consumers \in SUBSET Callers /\ a \in Callers /\ Consumers' = Consumers
      /\ Nested(Consumers, pc, a) /\ Others(Consumers, a, pc, reg, idx, pc', reg', idx')
      /\ R(front, pc, reg, idx)
  BY Mover, MovesNested, SettingFacts DEF Setting, FrontBound
<1> SUFFICES R(front', pc', reg', idx')
  BY <1>1 DEF FrontBound
<1>2. CASE a \in Producers /\ EnQueueStep(a)
  <2>1. a \notin Consumers /\ (front' = front \/ front' = 0)
    BY <1>2 DEF Setting, EnQueueStep, CallEnQueue, FlushRear, FlushFront, FlushCount, CopyInID, CopyInData, LoadRear,
      StoreRear, WrapRear, LoadCount, EnQueueReturn, shared
  <2>2. R(front, pc', reg', idx')
    BY <1>1, <2>1, EndFrame
  <2> QED
    BY <1>1, <2>1, <2>2, EndZero
<1>3. CASE a \in Consumers /\ LoadFront(a)
  <2>1. /\ pc[a] # "wrapFront" /\ pc'[a] = "storeFront" /\ reg'[a] = front /\ idx' = idx /\ front' = front
    BY <1>3 DEF LoadFront, At, Goto, shared, Types
  <2> QED
    BY <1>1, <1>3, <2>1, EndLoad
<1>4. CASE a \in Consumers /\ StoreFront(a)
  <2>1. /\ pc[a] = "storeFront" /\ pc'[a] = "wrapFront" /\ reg'[a] = reg[a] + 1 /\ idx' = idx /\ front' = reg[a] + 1
    BY <1>4 DEF StoreFront, At, Goto, Types
  <2>2. R(reg[a] + 1, pc', reg', idx')
    BY <1>1, <1>4, <2>1, EndStore
  <2> QED
    BY <2>1, <2>2
<1>5. CASE a \in Consumers /\ WrapFront(a)
  <2>1. /\ pc[a] = "wrapFront" /\ pc'[a] = "loadCountDel" /\ reg' = reg /\ idx' = idx
    BY <1>5 DEF WrapFront, At, Goto, Types
  <2>2. PICK v \in {reg[a], front} : front' = IF v >= MaxCount THEN 0 ELSE front
    BY <1>5 DEF WrapFront
  <2>3. R(IF v >= MaxCount THEN 0 ELSE front, pc', reg', idx')
    BY <1>1, <1>5, <2>1, EndWrap
  <2> QED
    BY <2>2, <2>3
<1>7. CASE a \in Consumers /\ (Poll(a) \/ CallGetAndDel(a) \/ CopyOutID(a) \/ CopyOutData(a)
                              \/ LoadCountDel(a) \/ GetAndDelReturn(a))
  <2>1. /\ pc[a] # "wrapFront" /\ pc'[a] # "storeFront" /\ pc'[a] # "wrapFront" /\ front' = front
        /\ idx'[a] = idx[a] \/ idx'[a] = front
    BY <1>7 DEF Poll, CallGetAndDel, CopyOutID, CopyOutData, LoadCountDel, GetAndDelReturn,
      MayStart, At, Goto, shared, Types
  <2> QED
    BY <1>1, <2>1, EndFrame
<1> QED
  BY <1>2, <1>3, <1>4, <1>5, <1>7 DEF GetAndDelStep
-----------------------------------------------------------------------------
LEMMA IndexInMemory ==
  ASSUME Setting, RearBound, FrontBound
  PROVE  /\ rear \in Memory /\ front \in Memory
         /\ \A a \in Actors : idx[a] \in Memory
         /\ rear \in 0 .. MaxCount + Cardinality(Producers) - 1
         /\ front \in 0 .. MaxCount + Cardinality(Consumers) - 1
<1>1. /\ Cardinality(Producers) \in Nat \ {0} /\ Cardinality(Consumers) \in Nat \ {0} /\ Cardinality(Callers) \in Nat
      /\ Cardinality(Producers) <= Cardinality(Callers) /\ Cardinality(Consumers) <= Cardinality(Callers)
      /\ IsFiniteSet(Producers) /\ IsFiniteSet(Consumers)
  BY SettingFacts
<1>2. /\ Cardinality(Beyond(Producers, pc, reg, "wrapRear")) \in Nat
      /\ Cardinality(Beyond(Producers, pc, reg, "wrapRear")) <= Cardinality(Producers)
      /\ Cardinality(Beyond(Consumers, pc, reg, "wrapFront")) \in Nat
      /\ Cardinality(Beyond(Consumers, pc, reg, "wrapFront")) <= Cardinality(Consumers)
  BY <1>1, CardSubset DEF Beyond
<1>3. /\ rear \in Nat /\ rear < MaxCount + Cardinality(Beyond(Producers, pc, reg, "wrapRear"))
      /\ front \in Nat /\ front < MaxCount + Cardinality(Beyond(Consumers, pc, reg, "wrapFront"))
  BY DEF RearBound, FrontBound, EndBound
<1>4. ASSUME NEW a \in Actors PROVE idx[a] \in Memory
  <2>1. \/ idx[a] \in Nat /\ idx[a] <= MaxCount + Cardinality(Producers) - 2
        \/ idx[a] \in Nat /\ idx[a] <= MaxCount + Cardinality(Consumers) - 2
    BY DEF RearBound, FrontBound, EndBound, Actors
  <2> QED
    BY <1>1, <2>1, RaceAssumption DEF Memory
<1> QED
  BY <1>1, <1>2, <1>3, <1>4, RaceAssumption DEF Memory

LEMMA MessageIds ==
  ASSUME NEW a \in Callers, NEW k \in Nat, k < Calls[a]
  PROVE  Whole(<<a, k + 1>>) \in MsgIds \X MsgIds
<1>1. k + 1 \in 1 .. Calls[a]
  BY RaceAssumption
<1>2. <<a, k + 1>> \in {a} \X (1 .. Calls[a])
  BY <1>1
<1>3. <<a, k + 1>> \in MsgIds
  BY <1>2 DEF MsgIds
<1> QED
  BY <1>3 DEF Whole

LEMMA OneWord ==
  ASSUME NEW T, NEW w \in T \X T, NEW v \in T
  PROVE  [w EXCEPT ![2] = v] \in T \X T
OBVIOUS

LEMMA TypesNext ==
  ASSUME Setting, Types, RearBound, FrontBound, CountHigh, NEW a \in Actors, EnQueueStep(a) \/ GetAndDelStep(a)
  PROVE  Types'
<1> USE DEF Types
<1>0. /\ rear \in Memory /\ front \in Memory /\ rear \in Int /\ front \in Int /\ idx[a] \in Memory
      /\ QueueCount \in Int /\ reg[a] + 1 \in Int
  BY IndexInMemory DEF CountHigh, RearBound, FrontBound, EndBound
<1>1. Producers' = Producers /\ Consumers' = Consumers /\ Actors' = Actors
  BY Mover DEF Moves, setup, Actors
<1>2. CASE CallEnQueue(a)
  <2>1. a \in Callers /\ Calls[a] \in Nat /\ sent[a] \in Nat /\ sent[a] < Calls[a]
    BY <1>2, SettingFacts, RaceAssumption DEF CallEnQueue
  <2>2. Whole(<<a, sent[a] + 1>>) \in MsgIds \X MsgIds
    BY <2>1, MessageIds
  <2>3. sent' \in [Actors -> Nat] /\ \A b \in Actors : sent'[b] <= Calls[b]
    BY <1>2, <2>1 DEF CallEnQueue
  <2>4. buf' \in [Actors -> MsgIds \X MsgIds]
    BY <1>2, <2>2 DEF CallEnQueue
  <2>5. pc' \in [Actors -> Labels]
    BY <1>2 DEF CallEnQueue, MayStart, Goto, Labels
  <2> QED
    BY <1>1, <1>2, <2>3, <2>4, <2>5 DEF CallEnQueue, shared
<1>3. CASE FlushRear(a) \/ FlushFront(a) \/ FlushCount(a)
  BY <1>1, <1>3 DEF FlushRear, FlushFront, FlushCount, At, Goto, Labels, shared
<1>4. CASE CopyInID(a)
  <2>1. QNode' \in [Memory -> MsgIds \X MsgIds]
    BY <1>0, <1>4 DEF CopyInID
  <2> QED
    BY <1>0, <1>1, <1>4, <2>1 DEF CopyInID, At, Goto, Labels
<1>5. CASE CopyInData(a)
  <2>1. QNode' \in [Memory -> MsgIds \X MsgIds]
    <3>1. buf[a][2] \in MsgIds
      BY DEF Types
    <3>2. QNode' = [QNode EXCEPT ![idx[a]][2] = buf[a][2]]
      BY <1>5 DEF CopyInData
    <3>3. QNode[idx[a]] \in MsgIds \X MsgIds
      BY <1>0
    <3>4. [QNode[idx[a]] EXCEPT ![2] = buf[a][2]] \in MsgIds \X MsgIds
      BY <3>1, <3>3, OneWord
    <3> QED
      BY <1>0, <3>2, <3>4
  <2> QED
    BY <1>0, <1>1, <1>5, <2>1 DEF CopyInData, At, Goto, Labels
<1>6. CASE LoadRear(a) \/ StoreRear(a) \/ WrapRear(a) \/ LoadCount(a) \/ EnQueueReturn(a)
  <2>1. reg' \in [Actors -> Int]
    BY <1>0, <1>6 DEF LoadRear, StoreRear, WrapRear, LoadCount, EnQueueReturn
  <2>2. pc' \in [Actors -> Labels]
    BY <1>6 DEF LoadRear, StoreRear, WrapRear, LoadCount, EnQueueReturn, At, Goto, Labels
  <2>3. UNCHANGED <<QNode, idx, buf, sent>>
    BY <1>6 DEF LoadRear, StoreRear, WrapRear, LoadCount, EnQueueReturn, shared
  <2> QED
    BY <1>1, <2>1, <2>2, <2>3
<1>7. CASE Poll(a) \/ CallGetAndDel(a)
  BY <1>1, <1>7 DEF Poll, CallGetAndDel, MayStart, At, Goto, Labels, shared
<1>8. CASE CopyOutID(a)
  <2>1. buf' \in [Actors -> MsgIds \X MsgIds]
    BY <1>0, <1>8 DEF CopyOutID
  <2> QED
    BY <1>0, <1>1, <1>8, <2>1 DEF CopyOutID, At, Goto, Labels, shared
<1>9. CASE CopyOutData(a)
  <2>1. buf' \in [Actors -> MsgIds \X MsgIds]
    <3>1. QNode[idx[a]][2] \in MsgIds
      <4>1. QNode[idx[a]] \in MsgIds \X MsgIds
        BY <1>0
      <4> QED
        BY <4>1
    <3>2. buf' = [buf EXCEPT ![a][2] = QNode[idx[a]][2]]
      BY <1>9 DEF CopyOutData
    <3>3. buf[a] \in MsgIds \X MsgIds
      OBVIOUS
    <3>4. [buf[a] EXCEPT ![2] = QNode[idx[a]][2]] \in MsgIds \X MsgIds
      BY <3>1, <3>3, OneWord
    <3> QED
      BY <3>2, <3>4
  <2> QED
    BY <1>0, <1>1, <1>9, <2>1 DEF CopyOutData, At, Goto, Labels, shared
<1>10. CASE LoadFront(a) \/ StoreFront(a) \/ WrapFront(a) \/ LoadCountDel(a) \/ GetAndDelReturn(a)
  <2>1. reg' \in [Actors -> Int]
    BY <1>0, <1>10 DEF LoadFront, StoreFront, WrapFront, LoadCountDel, GetAndDelReturn
  <2>2. pc' \in [Actors -> Labels]
    BY <1>10 DEF LoadFront, StoreFront, WrapFront, LoadCountDel, GetAndDelReturn, At, Goto, Labels
  <2>3. UNCHANGED <<QNode, idx, buf, sent>>
    BY <1>10 DEF LoadFront, StoreFront, WrapFront, LoadCountDel, GetAndDelReturn, shared
  <2> QED
    BY <1>1, <2>1, <2>2, <2>3
<1> QED
  BY <1>2, <1>3, <1>4, <1>5, <1>6, <1>7, <1>8, <1>9, <1>10 DEF EnQueueStep, GetAndDelStep
-----------------------------------------------------------------------------
LEMMA CountSets ==
  ASSUME Setting
  PROVE  /\ IsFiniteSet(Adding) /\ Cardinality(Adding) \in Nat /\ Cardinality(Adding) <= Cardinality(Producers)
         /\ IsFiniteSet(Deleting) /\ Cardinality(Deleting) \in Nat /\ Cardinality(Deleting) <= Cardinality(Consumers)
         /\ \A a \in Adding : pc[a] # "idle" /\ a \in Actors
         /\ \A a \in Deleting : pc[a] # "idle" /\ a \in Actors
BY SettingFacts, CardSubset DEF Adding, Deleting, Actors

(* What the less urgent calls hold stays right while a call above them runs. *)
LEMMA HighBelow ==
  ASSUME Setting, CountHigh, NEW a \in Actors, Moves(a), NEW b \in Actors \ {a}, Storing(b)'
  PROVE  reg'[b] \in Int /\ reg'[b] + Cardinality(Below(Adding', b)) <= MaxCount + Cardinality(Producers) - 1
<1>1. pc'[b] = pc[b] /\ reg'[b] = reg[b] /\ Producers' = Producers /\ pc[b] # "idle"
  BY DEF Moves, setup, Storing
<1>2. Prio[a] \in Nat /\ Prio[b] \in Nat /\ Prio[b] > Prio[a]
  BY <1>1, SettingFacts DEF Moves, MostUrgent
<1>3. Adding' \ {a} = Adding \ {a}
  BY <1>1 DEF Moves, Adding, Actors
<1>4. Below(Adding', b) = Below(Adding, b)
  BY <1>2, <1>3, BelowSame
<1>5. Storing(b)
  BY <1>1 DEF Storing
<1> QED
  BY <1>1, <1>4, <1>5 DEF CountHigh

LEMMA LowBelow ==
  ASSUME Setting, CountLow, NEW a \in Actors, Moves(a), NEW b \in Actors \ {a}
  PROVE  /\ b \in Producers /\ pc'[b] = "storeCount" =>
              /\ reg'[b] >= 1 - Cardinality(Consumers)
              /\ reg'[b] >= Cardinality(Below(Deleting', b)) - Cardinality(Consumers)
         /\ b \in Consumers /\ pc'[b] = "storeCountDel" =>
              reg'[b] >= Cardinality(Below(Deleting', b)) + 1 - Cardinality(Consumers)
<1> SUFFICES ASSUME Storing(b)' PROVE Below(Deleting', b) = Below(Deleting, b) /\ pc'[b] = pc[b] /\ reg'[b] = reg[b]
  BY DEF CountLow, Storing
<1>1. pc'[b] = pc[b] /\ reg'[b] = reg[b] /\ Consumers' = Consumers /\ pc[b] # "idle"
  BY DEF Moves, setup, Storing
<1>2. Prio[a] \in Nat /\ Prio[b] \in Nat /\ Prio[b] > Prio[a]
  BY <1>1, SettingFacts DEF Moves, MostUrgent
<1>3. Deleting' \ {a} = Deleting \ {a}
  BY <1>1 DEF Moves, Deleting, Actors
<1> QED
  BY <1>1, <1>2, <1>3, BelowSame

(* What a step does to the count and to the calls that will change it.      *)
Kept(a) == UNCHANGED <<QueueCount, Adding, Deleting>> /\ pc'[a] \notin {"storeCount", "storeCountDel"}
Joins(a) ==
  /\ a \in Producers \ Adding /\ Adding' = Adding \cup {a} /\ Deleting' = Deleting
  /\ pc'[a] = "copyID" /\ (QueueCount' = 0 \/ (QueueCount' = QueueCount /\ QueueCount < MaxCount))
LoadsToAdd(a) ==
  /\ a \in Adding /\ UNCHANGED <<QueueCount, Adding, Deleting>> /\ pc'[a] = "storeCount" /\ reg'[a] = QueueCount
Adds(a) ==
  /\ a \in Adding /\ Adding' = Adding \ {a} /\ Deleting' = Deleting
  /\ pc[a] = "storeCount" /\ pc'[a] = "idle" /\ QueueCount' = reg[a] + 1
Begins(a) ==
  /\ a \in Consumers \ Deleting /\ Deleting' = Deleting \cup {a} /\ Adding' = Adding
  /\ pc'[a] = "copyOutID" /\ QueueCount' = QueueCount /\ QueueCount > 0
LoadsToDelete(a) ==
  /\ a \in Deleting /\ UNCHANGED <<QueueCount, Adding, Deleting>>
  /\ pc'[a] = "storeCountDel" /\ reg'[a] = QueueCount
Deletes(a) ==
  /\ a \in Deleting /\ Deleting' = Deleting \ {a} /\ Adding' = Adding
  /\ pc[a] = "storeCountDel" /\ pc'[a] = "idle" /\ QueueCount' = reg[a] - 1

CallStep(a) == (a \in Producers /\ EnQueueStep(a)) \/ (a \in Consumers /\ GetAndDelStep(a))

Adders == {"copyID", "copyData", "loadRear", "storeRear", "wrapRear", "loadCount", "storeCount"}
Deleters == {"copyOutID", "copyOutData", "loadFront", "storeFront", "wrapFront", "loadCountDel", "storeCountDel"}
LEMMA SetsMove ==
  ASSUME Setting, NEW a \in Actors, Moves(a)
  PROVE  /\ a \in Producers => /\ Deleting' = Deleting
                               /\ a \in Adding <=> pc[a] \in Adders
                               /\ Adding' = IF pc'[a] \in Adders THEN Adding \cup {a} ELSE Adding \ {a}
         /\ a \in Consumers => /\ Adding' = Adding
                               /\ a \in Deleting <=> pc[a] \in Deleters
                               /\ Deleting' = IF pc'[a] \in Deleters THEN Deleting \cup {a} ELSE Deleting \ {a}
<1>1. /\ Producers' = Producers /\ Consumers' = Consumers
      /\ \A b \in Producers \ {a} : pc'[b] = pc[b]
      /\ \A b \in Consumers \ {a} : pc'[b] = pc[b]
  BY DEF Moves, setup, Actors
<1>2. a \in Producers => a \notin Consumers
  BY DEF Setting
<1>3. /\ Adding = {b \in Producers : pc[b] \in Adders} /\ Adding' = {b \in Producers : pc'[b] \in Adders}
      /\ Deleting = {b \in Consumers : pc[b] \in Deleters} /\ Deleting' = {b \in Consumers : pc'[b] \in Deleters}
  BY <1>1 DEF Adding, Deleting, Adders, Deleters
<1> HIDE DEF Adding, Deleting, Adders, Deleters
<1> QED
  BY <1>1, <1>2, <1>3

LEMMA CountKinds ==
  ASSUME Setting, Types, CountHigh, NEW a \in Actors, CallStep(a)
  PROVE  \/ Kept(a) \/ Joins(a) \/ LoadsToAdd(a) \/ Adds(a)
         \/ Begins(a) \/ LoadsToDelete(a) \/ Deletes(a)
<1>0. Moves(a) /\ pc[a] \in Labels
  BY Mover DEF CallStep, Types
<1>1. CASE a \in Producers
  <2>1. EnQueueStep(a)
    BY <1>1 DEF CallStep, Setting
  <2>0. /\ Deleting' = Deleting /\ (a \in Adding <=> pc[a] \in Adders)
        /\ Adding' = IF pc'[a] \in Adders THEN Adding \cup {a} ELSE Adding \ {a}
    BY <1>0, <1>1, SetsMove
  <2>2. CASE CallEnQueue(a)
    <3>1. /\ pc[a] = "idle" /\ QueueCount' = QueueCount
          /\ pc'[a] = IF QueueCount >= MaxCount THEN "flushRear" ELSE "copyID"
      BY <2>2 DEF CallEnQueue, MayStart, Goto, shared, Types
    <3>2. CASE QueueCount >= MaxCount
      BY <2>0, <3>1, <3>2 DEF Kept, Adders
    <3>3. CASE ~(QueueCount >= MaxCount)
      <4>1. pc[a] \notin Adders /\ pc'[a] \in Adders
        BY <3>1, <3>3 DEF Adders
      <4>2. QueueCount < MaxCount
        BY <3>3, RaceAssumption DEF CountHigh
      <4> QED
        BY <1>1, <2>0, <3>1, <3>3, <4>1, <4>2 DEF Joins
    <3> QED
      BY <3>2, <3>3
  <2>3. CASE FlushRear(a) \/ FlushFront(a)
    <3>1. /\ pc[a] \in {"flushRear", "flushFront"} /\ pc'[a] \in {"flushFront", "flushCount"} /\ QueueCount' = QueueCount
      BY <2>3 DEF FlushRear, FlushFront, At, Goto, Types
    <3> QED
      BY <2>0, <3>1 DEF Kept, Adders
  <2>4. CASE FlushCount(a)
    <3>1. pc[a] = "flushCount" /\ pc'[a] = "copyID" /\ QueueCount' = 0
      BY <2>4 DEF FlushCount, At, Goto, Types
    <3> QED
      BY <1>1, <2>0, <3>1 DEF Joins, Adders
  <2>5. CASE CopyInID(a) \/ CopyInData(a) \/ LoadRear(a) \/ StoreRear(a) \/ WrapRear(a)
    <3>1. /\ pc[a] \in Adders /\ pc'[a] \in Adders \ {"storeCount"} /\ QueueCount' = QueueCount
      BY <2>5 DEF CopyInID, CopyInData, LoadRear, StoreRear, WrapRear, At, Goto, shared, Types, Adders
    <3>2. pc'[a] # "storeCountDel" /\ pc'[a] # "storeCount"
      BY <3>1 DEF Adders
    <3> QED
      BY <2>0, <3>1, <3>2 DEF Kept
  <2>6. CASE LoadCount(a)
    <3>1. pc[a] = "loadCount" /\ pc'[a] = "storeCount" /\ QueueCount' = QueueCount /\ reg'[a] = QueueCount
      BY <2>6 DEF LoadCount, At, Goto, shared, Types
    <3> QED
      BY <2>0, <3>1 DEF LoadsToAdd, Adders
  <2>7. CASE EnQueueReturn(a)
    <3>1. pc[a] = "storeCount" /\ pc'[a] = "idle" /\ QueueCount' = reg[a] + 1
      BY <2>7 DEF EnQueueReturn, At, Goto, Types
    <3> QED
      BY <2>0, <3>1 DEF Adds, Adders
  <2> QED
    BY <2>1, <2>2, <2>3, <2>4, <2>5, <2>6, <2>7 DEF EnQueueStep
<1>2. CASE a \in Consumers
  <2>1. GetAndDelStep(a)
    BY <1>2 DEF CallStep, Setting
  <2>0. /\ Adding' = Adding /\ (a \in Deleting <=> pc[a] \in Deleters)
        /\ Deleting' = IF pc'[a] \in Deleters THEN Deleting \cup {a} ELSE Deleting \ {a}
    BY <1>0, <1>2, SetsMove
  <2>2. CASE Poll(a)
    <3>1. pc[a] = "idle" /\ pc'[a] = "check" /\ QueueCount' = QueueCount
      BY <2>2 DEF Poll, MayStart, Goto, shared, Types
    <3> QED
      BY <2>0, <3>1 DEF Kept, Deleters
  <2>3. CASE CallGetAndDel(a)
    <3>1. /\ pc[a] = "check" /\ QueueCount' = QueueCount
          /\ pc'[a] = IF QueueCount <= 0 THEN "idle" ELSE "copyOutID"
      BY <2>3 DEF CallGetAndDel, At, Goto, shared, Types
    <3>2. CASE QueueCount <= 0
      BY <2>0, <3>1, <3>2 DEF Kept, Deleters
    <3>3. CASE ~(QueueCount <= 0)
      <4>1. pc[a] \notin Deleters /\ pc'[a] \in Deleters
        BY <3>1, <3>3 DEF Deleters
      <4>2. QueueCount > 0
        BY <3>3 DEF CountHigh
      <4> QED
        BY <1>2, <2>0, <3>1, <3>3, <4>1, <4>2 DEF Begins
    <3> QED
      BY <3>2, <3>3
  <2>5. CASE CopyOutID(a) \/ CopyOutData(a) \/ LoadFront(a) \/ StoreFront(a) \/ WrapFront(a)
    <3>1. /\ pc[a] \in Deleters /\ pc'[a] \in Deleters \ {"storeCountDel"} /\ QueueCount' = QueueCount
      BY <2>5 DEF CopyOutID, CopyOutData, LoadFront, StoreFront, WrapFront, At, Goto, shared, Types, Deleters
    <3>2. pc'[a] # "storeCountDel" /\ pc'[a] # "storeCount"
      BY <3>1 DEF Deleters
    <3> QED
      BY <2>0, <3>1, <3>2 DEF Kept
  <2>6. CASE LoadCountDel(a)
    <3>1. pc[a] = "loadCountDel" /\ pc'[a] = "storeCountDel" /\ QueueCount' = QueueCount /\ reg'[a] = QueueCount
      BY <2>6 DEF LoadCountDel, At, Goto, shared, Types
    <3> QED
      BY <2>0, <3>1 DEF LoadsToDelete, Deleters
  <2>7. CASE GetAndDelReturn(a)
    <3>1. pc[a] = "storeCountDel" /\ pc'[a] = "idle" /\ QueueCount' = reg[a] - 1
      BY <2>7 DEF GetAndDelReturn, At, Goto, Types
    <3> QED
      BY <2>0, <3>1 DEF Deletes, Deleters
  <2> QED
    BY <2>1, <2>2, <2>3, <2>5, <2>6, <2>7 DEF GetAndDelStep
<1> QED
  BY <1>1, <1>2 DEF Actors

LEMMA HighNext ==
  ASSUME Setting, Types, CountHigh, NEW a \in Actors, CallStep(a)
  PROVE  CountHigh'
<1> DEFINE top == MaxCount + Cardinality(Producers) - 1
<1>1. /\ Moves(a) /\ MostUrgent(a) /\ Producers' = Producers /\ Actors' = Actors
      /\ MaxCount \in Nat \ {0} /\ Cardinality(Producers) \in Nat \ {0} /\ IsFiniteSet(Producers)
  BY Mover, SettingFacts, RaceAssumption DEF CallStep, Moves, setup, Actors
<1>2. \A b \in Actors \ {a} : Storing(b)' => reg'[b] \in Int /\ reg'[b] + Cardinality(Below(Adding', b)) <= top
  BY <1>1, HighBelow
<1>3. /\ Below(Adding, a) = Adding /\ IsFiniteSet(Adding) /\ Cardinality(Adding) \in Nat
      /\ Cardinality(Adding) <= Cardinality(Producers)
  BY <1>1, CountSets, Topmost
<1>4. QueueCount \in Int /\ QueueCount + Cardinality(Adding) <= top
  BY DEF CountHigh
<1>5. SUFFICES /\ QueueCount' \in Int /\ QueueCount' + Cardinality(Adding') <= top
               /\ Storing(a)' => reg'[a] \in Int /\ reg'[a] + Cardinality(Below(Adding', a)) <= top
  BY <1>1, <1>2 DEF CountHigh
<1>6. CASE Kept(a)
  BY <1>4, <1>6 DEF Kept, Storing
<1>7. CASE Joins(a)
  <2>1. Adding' \in SUBSET Producers /\ Cardinality(Adding') = Cardinality(Adding) + 1
    BY <1>3, <1>7, CardAdd DEF Joins, Adding
  <2>2. Cardinality(Adding') <= Cardinality(Producers)
    BY <1>1, <2>1, CardSubset
  <2>3. ~Storing(a)' /\ (QueueCount' = 0 \/ (QueueCount' = QueueCount /\ QueueCount < MaxCount))
    BY <1>7 DEF Joins, Storing
  <2> QED
    BY <1>1, <1>3, <1>4, <2>1, <2>2, <2>3
<1>8. CASE LoadsToAdd(a) \/ LoadsToDelete(a)
  BY <1>3, <1>4, <1>8 DEF LoadsToAdd, LoadsToDelete
<1>9. CASE Adds(a)
  <2>1. Cardinality(Adding') = Cardinality(Adding) - 1
    BY <1>3, <1>9, CardRemove DEF Adds
  <2>2. reg[a] \in Int /\ reg[a] + Cardinality(Adding) <= top /\ QueueCount' = reg[a] + 1 /\ ~Storing(a)'
    BY <1>3, <1>9 DEF Adds, CountHigh, Storing
  <2> QED
    BY <1>1, <1>3, <2>1, <2>2
<1>10. CASE Begins(a)
  BY <1>4, <1>10 DEF Begins, Storing
<1>11. CASE Deletes(a)
  <2>1. reg[a] \in Int /\ reg[a] + Cardinality(Adding) <= top /\ QueueCount' = reg[a] - 1 /\ ~Storing(a)'
    BY <1>3, <1>11 DEF Deletes, CountHigh, Storing
  <2> QED
    BY <1>1, <1>3, <1>11, <2>1 DEF Deletes
<1> QED
  BY <1>6, <1>7, <1>8, <1>9, <1>10, <1>11, CountKinds

LEMMA LowNext ==
  ASSUME Setting, Types, CountHigh, CountLow, NEW a \in Actors, CallStep(a)
  PROVE  CountLow'
<1> DEFINE nC == Cardinality(Consumers)
<1>1. /\ Moves(a) /\ MostUrgent(a) /\ Producers' = Producers /\ Consumers' = Consumers
      /\ nC \in Nat \ {0} /\ IsFiniteSet(Consumers) /\ Producers \cap Consumers = {}
  BY Mover, SettingFacts DEF CallStep, Moves, setup, Setting
<1>3. /\ Below(Deleting, a) = Deleting /\ IsFiniteSet(Deleting) /\ Cardinality(Deleting) \in Nat
      /\ Cardinality(Deleting) <= nC
      /\ \A b \in Deleting \ {a} : Prio[a] < Prio[b]
  BY <1>1, CountSets, Topmost
<1>4. /\ QueueCount \in Int /\ QueueCount >= 1 - nC /\ QueueCount >= Cardinality(Deleting) - nC
      /\ Restoring \/ QueueCount >= Cardinality(Deleting) + 1 - nC
  BY DEF CountHigh, CountLow
<1>5. SUFFICES
        /\ QueueCount' >= 1 - nC
        /\ QueueCount' >= Cardinality(Deleting') - nC
        /\ Restoring' \/ QueueCount' >= Cardinality(Deleting') + 1 - nC
        /\ a \in Producers /\ pc'[a] = "storeCount" =>
             reg'[a] >= 1 - nC /\ reg'[a] >= Cardinality(Below(Deleting', a)) - nC
        /\ a \in Consumers /\ pc'[a] = "storeCountDel" => reg'[a] >= Cardinality(Below(Deleting', a)) + 1 - nC
  <2>1. \A b \in Producers \ {a} : pc'[b] = "storeCount" =>
          reg'[b] >= 1 - nC /\ reg'[b] >= Cardinality(Below(Deleting', b)) - nC
    BY <1>1, LowBelow DEF Actors
  <2>2. \A b \in Consumers \ {a} : pc'[b] = "storeCountDel" =>
          reg'[b] >= Cardinality(Below(Deleting', b)) + 1 - nC
    BY <1>1, LowBelow DEF Actors
  <2> QED
    BY <1>1, <1>5, <2>1, <2>2 DEF CountLow
<1>6. CASE Kept(a)
  <2>1. Restoring' = Restoring
    BY <1>6 DEF Kept, Restoring
  <2> QED
    BY <1>4, <1>6, <2>1 DEF Kept
<1>7. CASE Joins(a)
  <2>1. Deleting' = Deleting /\ pc'[a] = "copyID" /\ (Restoring => Restoring')
    BY <1>7 DEF Joins, Restoring
  <2>2. CASE QueueCount' = QueueCount
    BY <1>4, <2>1, <2>2
  <2>3. CASE QueueCount' = 0
    <3>1. a \notin Deleting /\ a \in Adding'
      BY <1>1, <1>7 DEF Joins, Deleting
    <3>2. Restoring'
      BY <1>3, <2>1, <3>1 DEF Restoring
    <3> QED
      BY <1>1, <1>3, <2>1, <2>3, <3>2
  <2> QED
    BY <1>7, <2>2, <2>3 DEF Joins
<1>8. CASE LoadsToAdd(a)
  <2>1. a \in Producers /\ a \notin Consumers /\ Restoring' = Restoring
    BY <1>1, <1>8 DEF LoadsToAdd, Adding, Restoring
  <2> QED
    BY <1>3, <1>4, <1>8, <2>1 DEF LoadsToAdd
<1>9. CASE Adds(a)
  <2>1. a \in Producers /\ a \notin Consumers
    BY <1>1, <1>9 DEF Adds, Adding
  <2>2. reg[a] \in Int /\ reg[a] >= 1 - nC /\ reg[a] >= Cardinality(Deleting) - nC
    <3>1. Storing(a) /\ pc[a] = "storeCount"
      BY <1>9 DEF Adds, Storing
    <3> QED
      BY <1>3, <2>1, <3>1 DEF CountHigh, CountLow
  <2>3. Deleting' = Deleting /\ QueueCount' = reg[a] + 1 /\ pc'[a] = "idle"
    BY <1>9 DEF Adds
  <2> QED
    BY <1>1, <1>3, <2>1, <2>2, <2>3
<1>10. CASE Begins(a)
  <2>1. Deleting' \in SUBSET Consumers
    BY <1>3, <1>10 DEF Begins, Deleting
  <2>2. Cardinality(Deleting') \in Nat /\ Cardinality(Deleting') <= nC
    BY <1>1, <2>1, CardSubset
  <2>3. QueueCount' = QueueCount /\ QueueCount > 0 /\ pc'[a] = "copyOutID"
    BY <1>10 DEF Begins
  <2> QED
    BY <1>1, <1>4, <2>2, <2>3
<1>11. CASE LoadsToDelete(a)
  <2>1. a \in Consumers /\ a \notin Producers /\ Restoring' = Restoring
    BY <1>1, <1>11 DEF LoadsToDelete, Deleting, Restoring
  <2>2. ~Restoring
    <3>1. \A p \in Adding : p # a /\ pc[p] # "idle" /\ p \in Actors
      BY <2>1, CountSets DEF Adding
    <3>2. \A p \in Adding : Prio[p] > Prio[a] /\ Prio[p] \in Nat /\ Prio[a] \in Nat
      BY <1>1, <3>1, SettingFacts DEF MostUrgent
    <3>3. \A p \in Adding : ~(Prio[p] < Prio[a])
      BY <3>2
    <3> QED
      BY <1>11, <3>3 DEF LoadsToDelete, Restoring
  <2> QED
    BY <1>3, <1>4, <1>11, <2>1, <2>2 DEF LoadsToDelete
<1>12. CASE Deletes(a)
  <2>1. a \in Consumers /\ a \notin Producers /\ Storing(a) /\ pc[a] = "storeCountDel"
    BY <1>1, <1>12 DEF Deletes, Deleting, Storing
  <2>2. reg[a] \in Int /\ reg[a] >= Cardinality(Deleting) + 1 - nC
    BY <1>3, <2>1 DEF CountHigh, CountLow, Actors
  <2>3. Cardinality(Deleting') = Cardinality(Deleting) - 1 /\ IsFiniteSet(Deleting')
    BY <1>3, <1>12, CardRemove DEF Deletes
  <2>4. Cardinality(Deleting') \in Nat
    BY <2>3, FS_CardinalityType
  <2>5. QueueCount' = reg[a] - 1 /\ pc'[a] = "idle"
    BY <1>12 DEF Deletes
  <2> QED
    BY <1>1, <1>3, <2>1, <2>2, <2>3, <2>4, <2>5
<1> QED
  BY <1>6, <1>7, <1>8, <1>9, <1>10, <1>11, <1>12, CountKinds

LEMMA CheckNext ==
  ASSUME Setting, Types, CountHigh, CountLow, CheckHolds, NEW a \in Actors, CallStep(a)
  PROVE  CheckHolds'
<1>1. Moves(a) /\ MostUrgent(a) /\ Consumers' = Consumers /\ Producers \cap Consumers = {}
  BY Mover DEF CallStep, Moves, setup, Setting
<1> SUFFICES ASSUME Cardinality(Consumers) = 1
             PROVE  /\ ~stale'
                    /\ \A c \in Consumers : pc'[c] = "check" =>
                         QueueCount' >= 1 \/ \E p \in Adding' : Prio[p] < Prio[c]
  BY <1>1 DEF CheckHolds
<1>2. /\ ~stale /\ QueueCount \in Int
      /\ \A c \in Consumers : pc[c] = "check" => QueueCount >= 1 \/ \E p \in Adding : Prio[p] < Prio[c]
  BY DEF CheckHolds, CountHigh
<1>3. ASSUME pc[a] = "check", a \in Consumers PROVE QueueCount >= 1
  <2>1. \A p \in Adding : p \in Actors /\ p # a /\ pc[p] # "idle"
    BY <1>1, <1>3, CountSets DEF Adding
  <2>2. \A p \in Adding : Prio[p] > Prio[a] /\ Prio[p] \in Nat /\ Prio[a] \in Nat
    BY <1>1, <2>1, SettingFacts DEF MostUrgent
  <2>3. \A p \in Adding : ~(Prio[p] < Prio[a])
    BY <2>2
  <2> QED
    BY <1>2, <1>3, <2>3
<1>4. ~stale' /\ (a \in Consumers /\ pc'[a] = "check" => QueueCount' >= 1)
  <2>1. CASE a \in Producers
    <3>1. EnQueueStep(a) /\ a \notin Consumers
      BY <1>1, <2>1 DEF CallStep
    <3>2. stale' = stale
      BY <3>1 DEF EnQueueStep, CallEnQueue, FlushRear, FlushFront, FlushCount, CopyInID, CopyInData,
                  LoadRear, StoreRear, WrapRear, LoadCount, EnQueueReturn, history
    <3> QED
      BY <1>2, <3>1, <3>2
  <2>2. CASE a \in Consumers
    <3>1. GetAndDelStep(a) /\ a \in Callers
      BY <1>1, <2>2 DEF CallStep, Setting
    <3>2. CASE Poll(a)
      <4>1. QueueCount > Threshold[a] /\ QueueCount' = QueueCount /\ stale' = stale
        BY <3>2 DEF Poll, shared
      <4>2. Threshold[a] \in Nat
        BY <3>1, RaceAssumption
      <4> QED
        BY <1>2, <4>1, <4>2
    <3>3. CASE CallGetAndDel(a)
      <4>1. /\ pc[a] = "check" /\ stale' = (stale \/ QueueCount <= 0)
            /\ pc'[a] = IF QueueCount <= 0 THEN "idle" ELSE "copyOutID"
        BY <3>3 DEF CallGetAndDel, At, Goto, Types
      <4>2. ~(QueueCount <= 0)
        BY <1>2, <1>3, <2>2, <4>1
      <4> QED
        BY <1>2, <4>1, <4>2
    <3>4. CASE ~Poll(a) /\ ~CallGetAndDel(a)
      <4>1. stale' = stale /\ pc'[a] # "check"
        BY <3>1, <3>4 DEF GetAndDelStep, CopyOutID, CopyOutData, LoadFront, StoreFront, WrapFront, LoadCountDel,
                      GetAndDelReturn, history, At, Goto, Types
      <4> QED
        BY <1>2, <4>1
    <3> QED
      BY <3>2, <3>3, <3>4
  <2> QED
    BY <2>1, <2>2 DEF Actors
<1>5. ASSUME NEW c \in Consumers \ {a}, pc'[c] = "check"
      PROVE  QueueCount' >= 1 \/ \E p \in Adding' : Prio[p] < Prio[c]
  <2>1. pc[c] = "check" /\ Prio[a] < Prio[c]
    <3>1. pc[c] = "check" /\ c \in Actors
      BY <1>1, <1>5 DEF Moves, Actors
    <3> QED
      BY <1>1, <3>1, SettingFacts DEF MostUrgent
  <2>2. QueueCount >= 1 \/ \E p \in Adding : Prio[p] < Prio[c]
    BY <1>2, <2>1
  <2>3. a \in Producers
    <3>1. c # a /\ c \in Consumers
      BY <1>5
    <3>2. \A d \in Consumers : d = c
      <4>1. \E x : Consumers = {x}
        BY SettingFacts, FS_Singleton
      <4> QED
        BY <3>1, <4>1
    <3> QED
      BY <3>1, <3>2 DEF Actors
  <2>4. CASE Kept(a) \/ LoadsToAdd(a)
    BY <2>2, <2>4 DEF Kept, LoadsToAdd
  <2>5. CASE Joins(a)
    BY <2>1, <2>5 DEF Joins
  <2>6. CASE Adds(a)
    <3>1. reg[a] \in Int /\ reg[a] >= 1 - Cardinality(Consumers) /\ QueueCount' = reg[a] + 1
      BY <2>3, <2>6 DEF Adds, Storing, CountHigh, CountLow, Actors
    <3> QED
      BY <3>1
  <2>7. ~Begins(a) /\ ~LoadsToDelete(a) /\ ~Deletes(a)
    BY <1>1, <2>3 DEF Begins, LoadsToDelete, Deletes, Deleting
  <2> QED
    BY <2>4, <2>5, <2>6, <2>7, CountKinds
<1> QED
  BY <1>4, <1>5
-----------------------------------------------------------------------------
LEMMA InitBounds == Init => Bounds
<1> SUFFICES ASSUME Init PROVE Bounds
  OBVIOUS
<1>1. Setting
  BY RaceAssumption DEF Init, Setting
<1>2. /\ \A a \in Actors : pc[a] = "idle" /\ reg[a] = 0 /\ idx[a] = 0
      /\ MaxCount \in Nat \ {0} /\ Cardinality(Producers) \in Nat \ {0} /\ Cardinality(Consumers) \in Nat \ {0}
      /\ front = 0 /\ rear = 0 /\ QueueCount = 0 /\ ~stale
  BY <1>1, SettingFacts, RaceAssumption DEF Init
<1>3. Types
  <2>1. Blank \in MsgIds
    BY DEF MsgIds
  <2>3. 0 \in Memory
    BY <1>1, <1>2, SettingFacts DEF Memory
  <2>2. \A a \in Actors : 0 <= Calls[a]
    BY <1>1, SettingFacts, RaceAssumption
  <2> QED
    BY <2>1, <2>2, <2>3 DEF Init, Types, Whole, Labels
<1>4. Adding = {} /\ Deleting = {} /\ Cardinality({}) = 0
  BY <1>2, FS_EmptySet DEF Adding, Deleting, Actors
<1>5. ASSUME NEW E \in {Producers, Consumers}, NEW st \in {"storeRear", "storeFront"},
             NEW wr \in {"wrapRear", "wrapFront"}
      PROVE  EndBound(E, 0, pc, reg, idx, st, wr)
  <2>1. Beyond(E, pc, reg, wr) = {} /\ \A a \in E : idx[a] = 0 /\ pc[a] = "idle"
    BY <1>2 DEF Beyond, Actors
  <2> QED
    BY <1>2, <1>4, <2>1 DEF EndBound
<1>6. RearBound /\ FrontBound
  BY <1>2, <1>5 DEF RearBound, FrontBound
<1>7. CountHigh /\ CountLow /\ CheckHolds
  BY <1>2, <1>4 DEF CountHigh, CountLow, CheckHolds, Storing, Actors
<1> QED
  BY <1>1, <1>3, <1>6, <1>7 DEF Bounds

LEMMA NextBounds == Bounds /\ [Next]_vars => Bounds'
<1> SUFFICES ASSUME Bounds, [Next]_vars PROVE Bounds'
  OBVIOUS
<1>1. Setting /\ Types /\ RearBound /\ FrontBound /\ CountHigh /\ CountLow /\ CheckHolds
  BY DEF Bounds
<1>2. ASSUME NEW a \in Actors, CallStep(a) PROVE Bounds'
  <2>1. Setting'
    BY <1>1, <1>2, Mover DEF CallStep, Moves, setup, Setting
  <2>2. Types' /\ RearBound' /\ FrontBound'
    BY <1>1, <1>2, TypesNext, RearNext, FrontNext DEF CallStep
  <2>3. CountHigh' /\ CountLow' /\ CheckHolds'
    BY <1>1, <1>2, HighNext, LowNext, CheckNext
  <2> QED
    BY <2>1, <2>2, <2>3 DEF Bounds
<1>3. CASE Next
  BY <1>2, <1>3 DEF Next, CallStep, Actors
<1>4. CASE UNCHANGED vars
  BY <1>1, <1>4 DEF vars, shared, history, setup, Bounds, Setting, Types, RearBound, FrontBound, EndBound, Beyond,
    CountHigh, CountLow, CheckHolds, Restoring, Adding, Deleting, Storing, Actors
<1> QED
  BY <1>3, <1>4

(* Whoever preempts whom, front, rear and QueueCount leave their ranges by  *)
(* at most the number of further callers on that end, and no memcpy         *)
(* addresses a slot further than that past the array (Queue.c:47-57,        *)
(* 75-85).  In particular one producer and one consumer never leave it.     *)
THEOREM FieldsBounded == Spec => []OverrunBounded
<1>1. Bounds => OverrunBounded
  <2> SUFFICES ASSUME Bounds PROVE OverrunBounded
    OBVIOUS
  <2>1. Setting /\ Types /\ RearBound /\ FrontBound /\ CountHigh /\ CountLow
    BY DEF Bounds
  <2>2. /\ front \in 0 .. MaxCount + Cardinality(Consumers) - 1
        /\ rear \in 0 .. MaxCount + Cardinality(Producers) - 1
    BY <2>1, IndexInMemory
  <2>3. QueueCount \in 1 - Cardinality(Consumers) .. MaxCount + Cardinality(Producers) - 1
    BY <2>1, CountSets, SettingFacts, RaceAssumption DEF CountHigh, CountLow
  <2>4. \A a \in Actors : sent[a] \in 0 .. Calls[a]
    BY <2>1, SettingFacts, RaceAssumption DEF Types
  <2>5. TypeOK
    BY <2>1, <2>2, <2>3, <2>4 DEF TypeOK, Types
  <2> QED
    BY <2>1, <2>5 DEF OverrunBounded, RearBound, FrontBound, EndBound
<1> QED
  BY InitBounds, NextBounds, <1>1, PTL DEF Spec

(* can_thread, the only consumer of its queue, never sends a buffer that    *)
(* GetAndDelQueueinter did not fill (can.c:40-43): between its own test of  *)
(* QueueCount and the call's, a flush may empty the queue, but the call     *)
(* that flushed is over, and counted, before the consumer runs again.       *)
THEOREM OneConsumerNeverStale == Spec => []NoStaleResend
<1>1. Bounds => NoStaleResend
  BY DEF Bounds, CheckHolds, NoStaleResend
<1> QED
  BY InitBounds, NextBounds, <1>1, PTL DEF Spec
-----------------------------------------------------------------------------
(* Calls that do not overlap.  Slot wraps an index that is at most one lap  *)
(* past the array; a segment of n slots from f holds the messages g.        *)
Slot(i) == IF i < MaxCount THEN i ELSE i - MaxCount
Messages == Callers \X Nat
Segment(f, n, q, g) ==
  /\ f \in 0 .. MaxCount - 1 /\ n \in 0 .. MaxCount
  /\ g \in Seq(Messages) /\ Len(g) = n
  /\ \A i \in 1 .. n : q[Slot(f + i - 1)] = Whole(g[i])
InRing == Segment(front, QueueCount, QNode, fifo) /\ rear = Slot(front + QueueCount)

(* One call of EnQueueinter, by itself: a full queue was emptied before its *)
(* message is copied to the free slot.                                      *)
Room == IF Len(fifo) < MaxCount THEN fifo ELSE <<>>
Free == Slot(front + QueueCount)
Entering(a) ==
  /\ buf[a] = Whole(MsgId(a))
  /\ pc[a] \in {"flushRear", "flushFront", "flushCount"} => ~(Len(fifo) < MaxCount)
  /\ pc[a] \in {"flushFront", "flushCount"} => rear = 0
  /\ pc[a] = "flushCount" => front = 0
  /\ pc[a] \in Adders => Segment(front, QueueCount, QNode, Room) /\ QueueCount < MaxCount
  /\ pc[a] \in {"copyID", "copyData", "loadRear", "storeRear"} => rear = Free
  /\ pc[a] = "copyData" => idx[a] = Free /\ QNode[Free][1] = MsgId(a)
  /\ pc[a] \in {"loadRear", "storeRear", "wrapRear", "loadCount", "storeCount"} =>
       QNode[Free] = Whole(MsgId(a))
  /\ pc[a] = "storeRear" => reg[a] = Free
  /\ pc[a] = "wrapRear" => reg[a] = Free + 1 /\ rear = Free + 1
  /\ pc[a] \in {"loadCount", "storeCount"} => rear = Slot(Free + 1)
  /\ pc[a] = "storeCount" => reg[a] = QueueCount

(* One call of GetAndDelQueueinter, by itself.                              *)
Leaving(a) ==
  /\ pc[a] \in {"check", "copyOutID", "copyOutData", "loadFront", "storeFront"} =>
       InRing /\ QueueCount >= 1
  /\ pc[a] = "copyOutData" => idx[a] = front /\ buf[a][1] = QNode[front][1]
  /\ pc[a] \in {"loadFront", "storeFront", "wrapFront", "loadCountDel", "storeCountDel"} =>
       fifo # <<>> /\ buf[a] = Whole(Head(fifo))
  /\ pc[a] = "storeFront" => reg[a] = front
  /\ pc[a] = "wrapFront" =>
       /\ front \in 1 .. MaxCount /\ reg[a] = front
       /\ Segment(Slot(front), QueueCount - 1, QNode, Tail(fifo))
       /\ rear = Slot(Slot(front) + QueueCount - 1)
  /\ pc[a] \in {"loadCountDel", "storeCountDel"} =>
       Segment(front, QueueCount - 1, QNode, Tail(fifo)) /\ rear = Slot(front + QueueCount - 1)
  /\ pc[a] = "storeCountDel" => reg[a] = QueueCount

Alone == \A a, b \in Actors : pc[a] # "idle" /\ pc[b] # "idle" => a = b
Serial ==
  ~overlapped =>
    /\ Alone /\ fifo \in Seq(Messages) /\ taken = owed
    /\ AllIdle => InRing
    /\ \A a \in Producers : pc[a] # "idle" => Entering(a)
    /\ \A a \in Consumers : pc[a] # "idle" => Leaving(a)
-----------------------------------------------------------------------------
LEMMA SegmentEmpty == ASSUME NEW q PROVE Segment(0, 0, q, <<>>)
BY RaceAssumption DEF Segment

LEMMA SegmentSame ==
  ASSUME NEW f, NEW n, NEW q, NEW g, NEW k, Segment(f, n, q, g), n < MaxCount,
         \A j \in 0 .. MaxCount - 1 : j # Slot(f + n) => k[j] = q[j]
  PROVE  Segment(f, n, k, g)
<1>1. ASSUME NEW i \in 1 .. n PROVE k[Slot(f + i - 1)] = q[Slot(f + i - 1)]
  <2>1. Slot(f + i - 1) \in 0 .. MaxCount - 1 /\ Slot(f + i - 1) # Slot(f + n)
    BY RaceAssumption DEF Segment, Slot
  <2> QED
    BY <2>1
<1> QED
  BY <1>1 DEF Segment

LEMMA SegmentGrows ==
  ASSUME NEW f, NEW n, NEW q, NEW g, NEW m \in Messages, Segment(f, n, q, g), n < MaxCount,
         q[Slot(f + n)] = Whole(m)
  PROVE  Segment(f, n + 1, q, Append(g, m))
<1>1. /\ g \in Seq(Messages) /\ Len(g) = n /\ n \in Nat
      /\ \A i \in 1 .. n : q[Slot(f + i - 1)] = Whole(g[i])
  BY RaceAssumption DEF Segment
<1>2. /\ Append(g, m) \in Seq(Messages) /\ Len(Append(g, m)) = n + 1 /\ Append(g, m)[n + 1] = m
      /\ \A i \in 1 .. n : Append(g, m)[i] = g[i]
  BY <1>1
<1>3. ASSUME NEW i \in 1 .. n + 1 PROVE q[Slot(f + i - 1)] = Whole(Append(g, m)[i])
  <2>1. CASE i = n + 1
    <3>1. f + i - 1 = f + n
      BY <2>1, <1>1 DEF Segment
    <3> QED
      BY <2>1, <3>1, <1>2
  <2>2. CASE i # n + 1
    BY <1>1, <1>2, <2>2
  <2> QED
    BY <2>1, <2>2
<1> QED
  BY <1>2, <1>3, RaceAssumption DEF Segment

LEMMA SegmentShrinks ==
  ASSUME NEW f, NEW n, NEW q, NEW g, Segment(f, n, q, g), n >= 1
  PROVE  /\ g # <<>> /\ q[f] = Whole(Head(g)) /\ Tail(g) \in Seq(Messages)
         /\ Segment(Slot(f + 1), n - 1, q, Tail(g)) /\ Slot(f + n) = Slot(Slot(f + 1) + n - 1)
<1>1. /\ g \in Seq(Messages) /\ Len(g) = n /\ n \in Nat /\ f \in 0 .. MaxCount - 1 /\ n <= MaxCount
      /\ \A i \in 1 .. n : q[Slot(f + i - 1)] = Whole(g[i])
  BY RaceAssumption DEF Segment
<1>2. /\ g # <<>> /\ Head(g) = g[1] /\ Tail(g) \in Seq(Messages) /\ Len(Tail(g)) = n - 1
      /\ \A i \in 1 .. n - 1 : Tail(g)[i] = g[i + 1]
  BY <1>1
<1>3. q[f] = Whole(Head(g))
  <2>1. Slot(f + 1 - 1) = f
    BY <1>1, RaceAssumption DEF Slot
  <2> QED
    BY <1>1, <1>2, <2>1
<1>4. ASSUME NEW i \in 1 .. n - 1 PROVE q[Slot(Slot(f + 1) + i - 1)] = Whole(Tail(g)[i])
  <2>1. Slot(Slot(f + 1) + i - 1) = Slot(f + (i + 1) - 1) /\ i + 1 \in 1 .. n
    BY <1>1, RaceAssumption DEF Slot
  <2> QED
    BY <1>1, <1>2, <2>1
<1>5. Slot(f + 1) \in 0 .. MaxCount - 1 /\ n - 1 \in 0 .. MaxCount /\ Slot(f + n) = Slot(Slot(f + 1) + n - 1)
  BY <1>1, RaceAssumption DEF Slot
<1> QED
  BY <1>2, <1>3, <1>4, <1>5 DEF Segment

LEMMA WordsWritten ==
  ASSUME NEW T, NEW w \in T \X T, NEW v \in T
  PROVE  /\ [w EXCEPT ![1] = v] \in T \X T /\ [w EXCEPT ![1] = v][1] = v
         /\ w[1] = v => [w EXCEPT ![2] = v] = Whole(v)
BY DEF Whole
-----------------------------------------------------------------------------
(* A step that leaves ~overlapped: the one call in progress moves, or, when *)
(* none is, one begins.                                                     *)
LEMMA OneAtATime ==
  ASSUME Bounds, Serial, NEW a \in Actors, CallStep(a), ~overlapped'
  PROVE  /\ ~overlapped /\ Moves(a) /\ Actors' = Actors /\ \A b \in Actors \ {a} : pc[b] = "idle" /\ pc'[b] = "idle"
         /\ fifo \in Seq(Messages) /\ taken = owed
         /\ pc[a] = "idle" => InRing
         /\ a \in Producers /\ pc[a] # "idle" => Entering(a)
         /\ a \in Consumers /\ pc[a] # "idle" => Leaving(a)
<1>1. Moves(a) /\ Setting /\ Types /\ Actors' = Actors
  BY Mover DEF Bounds, CallStep, Moves, setup, Actors
<1>2. CASE CallEnQueue(a) \/ Poll(a)
  <2>1. ~overlapped /\ AllIdle
    BY <1>2 DEF CallEnQueue, Poll, MayStart
  <2>2. \A b \in Actors : pc[b] = "idle"
    BY <2>1 DEF AllIdle
  <2> QED
    BY <1>1, <2>1, <2>2 DEF Serial, Moves
<1>3. CASE ~CallEnQueue(a) /\ ~Poll(a)
  <2>1. overlapped' = overlapped /\ pc[a] # "idle"
    <3>1. CASE EnQueueStep(a)
      BY <1>3, <3>1 DEF EnQueueStep, FlushRear, FlushFront, FlushCount, CopyInID, CopyInData,
                  LoadRear, StoreRear, WrapRear, LoadCount, EnQueueReturn, history, At
    <3>2. CASE GetAndDelStep(a)
      BY <1>3, <3>2 DEF GetAndDelStep, CallGetAndDel, CopyOutID, CopyOutData, LoadFront, StoreFront, WrapFront,
                  LoadCountDel, GetAndDelReturn, history, At
    <3> QED
      BY <3>1, <3>2 DEF CallStep
  <2>2. Alone /\ fifo \in Seq(Messages) /\ taken = owed
    BY <2>1 DEF Serial
  <2>3. \A b \in Actors \ {a} : pc[b] = "idle"
    BY <2>1, <2>2 DEF Alone
  <2> QED
    BY <1>1, <2>1, <2>2, <2>3 DEF Serial, Moves
<1> QED
  BY <1>2, <1>3

(* What such a step has to establish.                                       *)
LEMMA SerialAfter ==
  ASSUME Setting, NEW a \in Actors, Moves(a), \A b \in Actors \ {a} : pc'[b] = "idle",
         fifo' \in Seq(Messages), taken' = owed',
         pc'[a] = "idle" => InRing',
         a \in Producers /\ pc'[a] # "idle" => Entering(a)',
         a \in Consumers /\ pc'[a] # "idle" => Leaving(a)'
  PROVE  Serial'
<1>1. Producers' = Producers /\ Consumers' = Consumers /\ Actors' = Actors
  BY DEF Moves, setup, Actors
<1>2. Alone'
  BY <1>1 DEF Alone
<1>3. AllIdle' => InRing'
  BY <1>1 DEF AllIdle
<1>4. \A b \in Producers : pc'[b] # "idle" => Entering(b)'
  <2> SUFFICES ASSUME NEW b \in Producers, pc'[b] # "idle" PROVE Entering(b)'
    OBVIOUS
  <2>1. b = a
    BY DEF Actors
  <2> QED
    BY <2>1
<1>5. \A b \in Consumers : pc'[b] # "idle" => Leaving(b)'
  <2> SUFFICES ASSUME NEW b \in Consumers, pc'[b] # "idle" PROVE Leaving(b)'
    OBVIOUS
  <2>1. b = a
    BY DEF Actors
  <2> QED
    BY <2>1
<1> QED
  BY <1>1, <1>2, <1>3, <1>4, <1>5 DEF Serial

LEMMA EntersAlone ==
  ASSUME Bounds, NEW a \in Producers, EnQueueStep(a), fifo \in Seq(Messages), taken = owed,
         pc[a] = "idle" => InRing, pc[a] # "idle" => Entering(a)
  PROVE  fifo' \in Seq(Messages) /\ taken' = owed' /\ IF pc'[a] = "idle" THEN InRing' ELSE Entering(a)'
<1> DEFINE m == MsgId(a)
<1>1. /\ a \in Actors /\ a \in Callers /\ MaxCount \in Nat \ {0} /\ Setting /\ Types
      /\ QNode \in [Memory -> MsgIds \X MsgIds] /\ pc \in [Actors -> Labels]
      /\ buf \in [Actors -> MsgIds \X MsgIds] /\ sent \in [Actors -> Nat]
      /\ idx \in [Actors -> Memory] /\ reg \in [Actors -> Int]
      /\ 0 .. MaxCount - 1 \subseteq Memory /\ QueueCount \in Int
  <2>1. Setting /\ Types /\ CountHigh
    BY DEF Bounds
  <2>2. a \in Actors /\ a \in Callers /\ MaxCount \in Nat \ {0} /\ Cardinality(Callers) \in Nat
    BY <2>1, SettingFacts, RaceAssumption DEF Actors
  <2> QED
    BY <2>1, <2>2 DEF Types, Memory, CountHigh
<1>2. MsgId(a) \in Messages
  BY <1>1 DEF MsgId, Messages
<1>3. \A i \in 0 .. 2 * MaxCount - 1 : Slot(i) \in 0 .. MaxCount - 1
  BY <1>1 DEF Slot
<1>4. ASSUME NEW f, NEW n, NEW q, NEW g, Segment(f, n, q, g)
      PROVE  f \in 0 .. MaxCount - 1 /\ n \in 0 .. MaxCount /\ Slot(f + n) \in 0 .. MaxCount - 1
             /\ g \in Seq(Messages) /\ Len(g) = n
  BY <1>1, <1>4 DEF Segment, Slot
<1>5. CASE CallEnQueue(a)
  <2>1. /\ pc[a] = "idle" /\ InRing /\ pc'[a] = IF QueueCount >= MaxCount THEN "flushRear" ELSE "copyID"
        /\ sent'[a] = sent[a] + 1 /\ buf'[a] = Whole(<<a, sent[a] + 1>>)
        /\ UNCHANGED <<front, QueueCount, rear, QNode, fifo, taken, owed>>
    BY <1>1, <1>5 DEF CallEnQueue, MayStart, Goto, shared
  <2>2. buf'[a] = Whole(MsgId(a)')
    BY <2>1 DEF MsgId
  <2>3. Len(fifo) = QueueCount /\ QueueCount \in 0 .. MaxCount /\ Segment(front, QueueCount, QNode, fifo) /\ rear = Free
    BY <1>4, <2>1 DEF InRing, Free
  <2>4. CASE QueueCount >= MaxCount
    <3>1. pc'[a] = "flushRear" /\ ~(Len(fifo) < MaxCount)
      BY <1>1, <2>1, <2>3, <2>4
    <3> QED
      BY <2>1, <2>2, <3>1 DEF Entering, Adders
  <2>5. CASE ~(QueueCount >= MaxCount)
    <3>1. pc'[a] = "copyID" /\ Len(fifo) < MaxCount /\ QueueCount < MaxCount
      BY <1>1, <2>1, <2>3, <2>5
    <3>2. Room' = fifo /\ Free' = Free
      BY <2>1, <3>1 DEF Room, Free
    <3>3. Segment(front, QueueCount, QNode, Room)' /\ rear' = Free' /\ (QueueCount < MaxCount)'
      BY <2>1, <2>3, <3>1, <3>2
    <3> QED
      BY <2>1, <2>2, <3>1, <3>3 DEF Entering, Adders
  <2> QED
    BY <2>4, <2>5
<1>6. ASSUME ~CallEnQueue(a)
      PROVE  /\ pc[a] # "idle" /\ Entering(a) /\ sent' = sent /\ buf' = buf /\ MsgId(a)' = MsgId(a)
             /\ taken' = owed'
    BY <1>6 DEF EnQueueStep, FlushRear, FlushFront, FlushCount, CopyInID, CopyInData,
          LoadRear, StoreRear, WrapRear, LoadCount, EnQueueReturn, history, At, MsgId
<1>7. CASE FlushRear(a)
  <2>1. /\ ~CallEnQueue(a) /\ pc[a] = "flushRear" /\ pc'[a] = "flushFront" /\ rear' = 0 /\ fifo' = fifo
    BY <1>1, <1>7 DEF CallEnQueue, MayStart, FlushRear, At, Goto, history
  <2> QED
    BY <1>6, <2>1 DEF Entering, Adders
<1>8. CASE FlushFront(a)
  <2>1. /\ ~CallEnQueue(a) /\ pc[a] = "flushFront" /\ pc'[a] = "flushCount" /\ rear' = rear /\ front' = 0 /\ fifo' = fifo
    BY <1>1, <1>8 DEF CallEnQueue, MayStart, FlushFront, At, Goto, history
  <2> QED
    BY <1>6, <2>1 DEF Entering, Adders
<1>9. CASE FlushCount(a)
  <2>1. /\ ~CallEnQueue(a) /\ pc[a] = "flushCount" /\ pc'[a] = "copyID" /\ UNCHANGED <<rear, front, fifo>> /\ QueueCount' = 0
    BY <1>1, <1>9 DEF CallEnQueue, MayStart, FlushCount, At, Goto, history
  <2>2. rear' = 0 /\ front' = 0 /\ ~(Len(fifo) < MaxCount)
    BY <1>6, <2>1 DEF Entering
  <2>3. Room' = <<>> /\ Free' = 0
    BY <1>1, <2>1, <2>2 DEF Room, Free, Slot
  <2>4. Segment(front, QueueCount, QNode, Room)' /\ (QueueCount < MaxCount)' /\ rear' = Free'
    BY <1>1, <2>1, <2>2, <2>3, SegmentEmpty
  <2> QED
    BY <1>6, <2>1, <2>4 DEF Entering, Adders
<1>10. ASSUME ~CallEnQueue(a), pc[a] \in Adders
       PROVE  /\ Segment(front, QueueCount, QNode, Room) /\ QueueCount < MaxCount /\ Free \in 0 .. MaxCount - 1
              /\ Free \in Memory /\ QNode[Free] \in MsgIds \X MsgIds /\ QueueCount \in Nat
              /\ front \in 0 .. MaxCount - 1
  <2>1. Segment(front, QueueCount, QNode, Room) /\ QueueCount < MaxCount
    BY <1>6, <1>10 DEF Entering
  <2>2. Free \in 0 .. MaxCount - 1 /\ QueueCount \in Nat /\ front \in 0 .. MaxCount - 1
    BY <1>4, <2>1 DEF Free
  <2> QED
    BY <1>1, <2>1, <2>2
<1>11. CASE CopyInID(a)
  <2>1. /\ ~CallEnQueue(a) /\ pc[a] = "copyID" /\ pc'[a] = "copyData" /\ UNCHANGED <<rear, front, fifo, QueueCount>>
        /\ idx'[a] = rear /\ QNode' = [QNode EXCEPT ![rear][1] = buf[a][1]]
    BY <1>1, <1>11 DEF CallEnQueue, MayStart, CopyInID, At, Goto, history
  <2>2. rear = Free /\ buf[a] = Whole(m) /\ pc[a] \in Adders
    BY <1>6, <2>1 DEF Entering, Adders
  <2>3. buf[a][1] = m /\ m \in MsgIds
    BY <1>1, <2>2 DEF Whole
  <2>4. /\ QNode'[Free] = [QNode[Free] EXCEPT ![1] = m] /\ \A j \in 0 .. MaxCount - 1 : j # Free => QNode'[j] = QNode[j]
    BY <1>1, <1>10, <2>1, <2>2, <2>3
  <2>5. QNode'[Free][1] = m
    BY <1>10, <2>1, <2>2, <2>3, <2>4, WordsWritten
  <2>6. Room' = Room /\ Free' = Free
    BY <2>1 DEF Room, Free
  <2>7. Segment(front, QueueCount, QNode, Room)'
    <3>1. /\ Segment(front, QueueCount, QNode, Room) /\ QueueCount < MaxCount
          /\ \A j \in 0 .. MaxCount - 1 : j # Slot(front + QueueCount) => QNode'[j] = QNode[j]
      BY <1>10, <2>1, <2>2, <2>4 DEF Free
    <3>2. Segment(front, QueueCount, QNode', Room)
      BY <3>1, SegmentSame
    <3> QED
      BY <2>1, <2>6, <3>2
  <2> QED
    BY <1>6, <1>10, <2>1, <2>2, <2>5, <2>6, <2>7 DEF Entering, Adders
<1>12. CASE CopyInData(a)
  <2>1. /\ ~CallEnQueue(a) /\ pc[a] = "copyData" /\ pc'[a] = "loadRear" /\ UNCHANGED <<rear, front, fifo, QueueCount>>
        /\ QNode' = [QNode EXCEPT ![idx[a]][2] = buf[a][2]]
    BY <1>1, <1>12 DEF CallEnQueue, MayStart, CopyInData, At, Goto, history
  <2>2. rear = Free /\ idx[a] = Free /\ QNode[Free][1] = m /\ buf[a] = Whole(m) /\ pc[a] \in Adders
    BY <1>6, <2>1 DEF Entering, Adders
  <2>3. buf[a][2] = m /\ m \in MsgIds
    BY <1>1, <2>2 DEF Whole
  <2>4. /\ QNode'[Free] = [QNode[Free] EXCEPT ![2] = m] /\ \A j \in 0 .. MaxCount - 1 : j # Free => QNode'[j] = QNode[j]
    BY <1>1, <1>10, <2>1, <2>2, <2>3
  <2>5. QNode'[Free] = Whole(m)
    BY <1>10, <2>1, <2>2, <2>3, <2>4, WordsWritten
  <2>6. Room' = Room /\ Free' = Free
    BY <2>1 DEF Room, Free
  <2>7. Segment(front, QueueCount, QNode, Room)'
    <3>1. /\ Segment(front, QueueCount, QNode, Room) /\ QueueCount < MaxCount
          /\ \A j \in 0 .. MaxCount - 1 : j # Slot(front + QueueCount) => QNode'[j] = QNode[j]
      BY <1>10, <2>1, <2>2, <2>4 DEF Free
    <3>2. Segment(front, QueueCount, QNode', Room)
      BY <3>1, SegmentSame
    <3> QED
      BY <2>1, <2>6, <3>2
  <2> QED
    BY <1>6, <1>10, <2>1, <2>2, <2>5, <2>6, <2>7 DEF Entering, Adders
<1>13. CASE LoadRear(a) \/ LoadCount(a)
  <2>1. /\ ~CallEnQueue(a) /\ UNCHANGED <<rear, front, fifo, QueueCount, QNode>>
        /\ \/ pc[a] = "loadRear" /\ pc'[a] = "storeRear" /\ reg'[a] = rear
           \/ pc[a] = "loadCount" /\ pc'[a] = "storeCount" /\ reg'[a] = QueueCount
    BY <1>1, <1>13 DEF CallEnQueue, MayStart, LoadRear, LoadCount, At, Goto, history, shared
  <2>2. Room' = Room /\ Free' = Free
    BY <2>1 DEF Room, Free
  <2> QED
    BY <1>6, <2>1, <2>2 DEF Entering, Adders
<1>14. CASE StoreRear(a)
  <2>1. /\ ~CallEnQueue(a) /\ UNCHANGED <<front, fifo, QueueCount, QNode>>
        /\ pc[a] = "storeRear" /\ pc'[a] = "wrapRear" /\ reg'[a] = reg[a] + 1 /\ rear' = reg[a] + 1
    BY <1>1, <1>14 DEF CallEnQueue, MayStart, StoreRear, At, Goto, history
  <2>2. Room' = Room /\ Free' = Free
    BY <2>1 DEF Room, Free
  <2> QED
    BY <1>6, <2>1, <2>2 DEF Entering, Adders
<1>15. CASE WrapRear(a)
  <2>1. /\ ~CallEnQueue(a) /\ UNCHANGED <<front, fifo, QueueCount, QNode>>
        /\ pc[a] = "wrapRear" /\ pc'[a] = "loadCount"
        /\ \E v \in {reg[a], rear} : rear' = IF v >= MaxCount THEN 0 ELSE rear
    BY <1>1, <1>15 DEF CallEnQueue, MayStart, WrapRear, At, Goto, history
  <2>2. Room' = Room /\ Free' = Free
    BY <2>1 DEF Room, Free
  <2>3. pc[a] \in Adders /\ rear = Free + 1 /\ reg[a] = Free + 1
    BY <1>6, <2>1 DEF Entering, Adders
  <2>4. rear' = Slot(Free + 1)
    BY <1>1, <1>10, <2>1, <2>3 DEF Slot
  <2> QED
    BY <1>6, <2>1, <2>2, <2>4 DEF Entering, Adders
<1>16. CASE EnQueueReturn(a)
  <2>1. /\ ~CallEnQueue(a) /\ UNCHANGED <<front, rear, QNode>>
        /\ pc[a] = "storeCount" /\ pc'[a] = "idle" /\ QueueCount' = reg[a] + 1
        /\ fifo' = IF Len(fifo) < MaxCount THEN Append(fifo, m) ELSE <<m>>
    BY <1>1, <1>16 DEF CallEnQueue, MayStart, EnQueueReturn, At, Goto
  <2>2. pc[a] \in Adders /\ rear = Slot(Free + 1) /\ reg[a] = QueueCount /\ QNode[Free] = Whole(m)
    BY <1>6, <2>1 DEF Entering, Adders
  <2>3. Segment(front, QueueCount + 1, QNode, Append(Room, m))
    BY <1>2, <1>10, <2>1, <2>2, SegmentGrows DEF Free
  <2>4. fifo' = Append(Room, m)
    <3>1. Append(<<>>, m) = <<m>>
      OBVIOUS
    <3> HIDE DEF m
    <3> QED
      BY <2>1, <3>1 DEF Room
  <2>5. Slot(Free + 1) = Slot(front + (QueueCount + 1))
    BY <1>1, <1>10, <2>1, <2>2 DEF Free, Slot
  <2>6. InRing'
    BY <2>1, <2>2, <2>3, <2>4, <2>5 DEF InRing
  <2>7. fifo' \in Seq(Messages)
    BY <1>4, <2>3, <2>4
  <2> QED
    BY <1>6, <2>1, <2>6, <2>7
<1> QED
  BY <1>5, <1>7, <1>8, <1>9, <1>11, <1>12, <1>13, <1>14, <1>15, <1>16 DEF EnQueueStep

LEMMA LeavesAlone ==
  ASSUME Bounds, NEW a \in Consumers, GetAndDelStep(a), fifo \in Seq(Messages), taken = owed,
         pc[a] = "idle" => InRing, pc[a] # "idle" => Leaving(a)
  PROVE  fifo' \in Seq(Messages) /\ taken' = owed' /\ IF pc'[a] = "idle" THEN InRing' ELSE Leaving(a)'
<1>1. /\ a \in Actors /\ a \in Callers /\ MaxCount \in Nat \ {0} /\ Threshold[a] \in Nat
      /\ QNode \in [Memory -> MsgIds \X MsgIds] /\ pc \in [Actors -> Labels]
      /\ buf \in [Actors -> MsgIds \X MsgIds]
      /\ idx \in [Actors -> Memory] /\ reg \in [Actors -> Int]
      /\ 0 .. MaxCount - 1 \subseteq Memory /\ QueueCount \in Int
  <2>1. Setting /\ Types /\ CountHigh
    BY DEF Bounds
  <2>2. a \in Actors /\ a \in Callers /\ MaxCount \in Nat \ {0} /\ Cardinality(Callers) \in Nat /\ Threshold[a] \in Nat
    BY <2>1, SettingFacts, RaceAssumption DEF Actors
  <2> QED
    BY <2>1, <2>2 DEF Types, Memory, CountHigh
<1>2. ASSUME ~Poll(a)
      PROVE  pc[a] # "idle" /\ Leaving(a)
  BY <1>2 DEF GetAndDelStep, CallGetAndDel, CopyOutID, CopyOutData, LoadFront, StoreFront, WrapFront,
                LoadCountDel, GetAndDelReturn, At
<1>3. ASSUME ~GetAndDelReturn(a)
      PROVE  UNCHANGED <<QNode, rear, QueueCount, fifo, taken, owed>>
  BY <1>3 DEF GetAndDelStep, Poll, CallGetAndDel, CopyOutID, CopyOutData, LoadFront, StoreFront, WrapFront,
                LoadCountDel, history, shared
<1>4. ASSUME InRing, QueueCount >= 1
      PROVE  /\ fifo # <<>> /\ QNode[front] = Whole(Head(fifo)) /\ front \in 0 .. MaxCount - 1 /\ front \in Memory
             /\ Segment(Slot(front + 1), QueueCount - 1, QNode, Tail(fifo))
             /\ rear = Slot(Slot(front + 1) + QueueCount - 1)
  <2>1. Segment(front, QueueCount, QNode, fifo) /\ rear = Slot(front + QueueCount)
    BY <1>4 DEF InRing
  <2>2. front \in 0 .. MaxCount - 1
    BY <2>1 DEF Segment
  <2> QED
    BY <1>1, <1>4, <2>1, <2>2, SegmentShrinks
<1>5. CASE Poll(a)
  <2>1. /\ pc[a] = "idle" /\ InRing /\ pc'[a] = "check" /\ QueueCount > Threshold[a]
        /\ UNCHANGED <<front, QNode, rear, QueueCount, fifo, taken, owed>>
    BY <1>1, <1>5 DEF Poll, MayStart, Goto, shared
  <2>2. QueueCount >= 1
    BY <1>1, <2>1
  <2>3. InRing'
    BY <2>1 DEF InRing
  <2> QED
    BY <2>1, <2>2, <2>3 DEF Leaving
<1>6. CASE CallGetAndDel(a)
  <2>1. /\ ~Poll(a) /\ ~GetAndDelReturn(a) /\ pc[a] = "check" /\ front' = front
        /\ pc'[a] = IF QueueCount <= 0 THEN "idle" ELSE "copyOutID"
    BY <1>1, <1>6 DEF Poll, MayStart, GetAndDelReturn, CallGetAndDel, At, Goto, shared
  <2>2. InRing /\ QueueCount >= 1
    BY <1>2, <2>1 DEF Leaving
  <2>3. pc'[a] = "copyOutID"
    BY <1>1, <2>1, <2>2
  <2>4. InRing' /\ QueueCount' >= 1
    BY <1>3, <2>1, <2>2 DEF InRing
  <2> QED
    BY <1>3, <2>1, <2>3, <2>4 DEF Leaving
<1>7. CASE CopyOutID(a)
  <2>1. /\ ~Poll(a) /\ ~GetAndDelReturn(a) /\ pc[a] = "copyOutID" /\ front' = front /\ pc'[a] = "copyOutData"
        /\ idx'[a] = front /\ buf' = [buf EXCEPT ![a][1] = QNode[front][1]]
    BY <1>1, <1>7 DEF Poll, MayStart, GetAndDelReturn, CopyOutID, At, Goto, shared
  <2>2. InRing /\ QueueCount >= 1
    BY <1>2, <2>1 DEF Leaving
  <2>3. front \in Memory
    BY <1>4, <2>2
  <2>4. QNode[front] \in MsgIds \X MsgIds
    BY <1>1, <2>3
  <2>5. QNode[front][1] \in MsgIds /\ buf[a] \in MsgIds \X MsgIds
    BY <1>1, <2>4
  <2>6. buf'[a] = [buf[a] EXCEPT ![1] = QNode[front][1]]
    BY <1>1, <2>1
  <2>7. buf'[a][1] = QNode[front][1]
    BY <2>5, <2>6, WordsWritten
  <2>8. InRing' /\ QueueCount' >= 1
    BY <1>3, <2>1, <2>2 DEF InRing
  <2> QED
    BY <1>3, <2>1, <2>7, <2>8 DEF Leaving
<1>8. CASE CopyOutData(a)
  <2>1. /\ ~Poll(a) /\ ~GetAndDelReturn(a) /\ pc[a] = "copyOutData" /\ front' = front /\ pc'[a] = "loadFront"
        /\ buf' = [buf EXCEPT ![a][2] = QNode[idx[a]][2]]
    BY <1>1, <1>8 DEF Poll, MayStart, GetAndDelReturn, CopyOutData, At, Goto, shared
  <2>2. InRing /\ QueueCount >= 1 /\ idx[a] = front /\ buf[a][1] = QNode[front][1]
    BY <1>2, <2>1 DEF Leaving
  <2>3. front \in Memory /\ QNode[front] = Whole(Head(fifo)) /\ fifo # <<>>
    BY <1>4, <2>2
  <2>4. QNode[front] \in MsgIds \X MsgIds
    BY <1>1, <2>3
  <2>5. QNode[front][1] = Head(fifo) /\ QNode[front][2] = Head(fifo) /\ Head(fifo) \in MsgIds
    BY <2>3, <2>4 DEF Whole
  <2>6. buf'[a] = [buf[a] EXCEPT ![2] = Head(fifo)] /\ buf[a] \in MsgIds \X MsgIds
    BY <1>1, <2>1, <2>2, <2>5
  <2>7. buf'[a] = Whole(Head(fifo))
    BY <2>2, <2>5, <2>6, WordsWritten
  <2>8. InRing' /\ QueueCount' >= 1
    BY <1>3, <2>1, <2>2 DEF InRing
  <2> QED
    BY <1>3, <2>1, <2>3, <2>7, <2>8 DEF Leaving
<1>9. CASE LoadFront(a)
  <2>1. /\ ~Poll(a) /\ ~GetAndDelReturn(a) /\ pc[a] = "loadFront" /\ front' = front /\ pc'[a] = "storeFront"
        /\ reg'[a] = front /\ buf' = buf
    BY <1>1, <1>9 DEF Poll, MayStart, GetAndDelReturn, LoadFront, At, Goto, shared
  <2>2. InRing /\ QueueCount >= 1 /\ fifo # <<>> /\ buf[a] = Whole(Head(fifo))
    BY <1>2, <2>1 DEF Leaving
  <2>3. InRing' /\ QueueCount' >= 1
    BY <1>3, <2>1, <2>2 DEF InRing
  <2> QED
    BY <1>3, <2>1, <2>2, <2>3 DEF Leaving
<1>10. CASE StoreFront(a)
  <2>1. /\ ~Poll(a) /\ ~GetAndDelReturn(a) /\ pc[a] = "storeFront" /\ front' = reg[a] + 1 /\ pc'[a] = "wrapFront"
        /\ reg'[a] = reg[a] + 1 /\ buf' = buf
    BY <1>1, <1>10 DEF Poll, MayStart, GetAndDelReturn, StoreFront, At, Goto
  <2>2. InRing /\ QueueCount >= 1 /\ fifo # <<>> /\ buf[a] = Whole(Head(fifo)) /\ reg[a] = front
    BY <1>2, <2>1 DEF Leaving
  <2>3. front' = front + 1 /\ front' \in 1 .. MaxCount
    BY <1>1, <1>4, <2>1, <2>2
  <2>4. /\ Segment(Slot(front'), QueueCount' - 1, QNode', Tail(fifo'))
        /\ rear' = Slot(Slot(front') + QueueCount' - 1)
    BY <1>3, <1>4, <2>1, <2>2, <2>3
  <2> QED
    BY <1>3, <2>1, <2>2, <2>3, <2>4 DEF Leaving
<1>11. CASE WrapFront(a)
  <2>1. /\ ~Poll(a) /\ ~GetAndDelReturn(a) /\ pc[a] = "wrapFront" /\ pc'[a] = "loadCountDel" /\ buf' = buf
        /\ \E v \in {reg[a], front} : front' = IF v >= MaxCount THEN 0 ELSE front
    BY <1>1, <1>11 DEF Poll, MayStart, GetAndDelReturn, WrapFront, At, Goto
  <2>2. /\ fifo # <<>> /\ buf[a] = Whole(Head(fifo)) /\ reg[a] = front /\ front \in 1 .. MaxCount
        /\ Segment(Slot(front), QueueCount - 1, QNode, Tail(fifo))
        /\ rear = Slot(Slot(front) + QueueCount - 1)
    BY <1>2, <2>1 DEF Leaving
  <2>3. front' = Slot(front)
    BY <1>1, <2>1, <2>2 DEF Slot
  <2> QED
    BY <1>3, <2>1, <2>2, <2>3 DEF Leaving
<1>12. CASE LoadCountDel(a)
  <2>1. /\ ~Poll(a) /\ ~GetAndDelReturn(a) /\ pc[a] = "loadCountDel" /\ pc'[a] = "storeCountDel" /\ buf' = buf
        /\ front' = front /\ reg'[a] = QueueCount
    BY <1>1, <1>12 DEF Poll, MayStart, GetAndDelReturn, LoadCountDel, At, Goto, shared
  <2>2. /\ fifo # <<>> /\ buf[a] = Whole(Head(fifo))
        /\ Segment(front, QueueCount - 1, QNode, Tail(fifo)) /\ rear = Slot(front + QueueCount - 1)
    BY <1>2, <2>1 DEF Leaving
  <2> QED
    BY <1>3, <2>1, <2>2 DEF Leaving
<1>13. CASE GetAndDelReturn(a)
  <2>1. /\ ~Poll(a) /\ pc[a] = "storeCountDel" /\ pc'[a] = "idle" /\ UNCHANGED <<front, rear, QNode>>
        /\ QueueCount' = reg[a] - 1 /\ taken' = Append(taken, buf[a])
        /\ owed' = (IF fifo = <<>> THEN owed ELSE Append(owed, Whole(Head(fifo))))
        /\ fifo' = (IF fifo = <<>> THEN fifo ELSE Tail(fifo))
    BY <1>1, <1>13 DEF Poll, MayStart, GetAndDelReturn, At, Goto
  <2>2. /\ fifo # <<>> /\ buf[a] = Whole(Head(fifo)) /\ reg[a] = QueueCount
        /\ Segment(front, QueueCount - 1, QNode, Tail(fifo)) /\ rear = Slot(front + QueueCount - 1)
    BY <1>2, <2>1 DEF Leaving
  <2>3. taken' = owed' /\ fifo' = Tail(fifo) /\ QueueCount' = QueueCount - 1
    BY <2>1, <2>2
  <2>4. front + QueueCount - 1 = front + (QueueCount - 1)
    BY <1>1, <2>2 DEF Segment
  <2>5. InRing'
    BY <2>1, <2>2, <2>3, <2>4 DEF InRing
  <2>6. fifo' \in Seq(Messages)
    BY <2>2, <2>3 DEF Segment
  <2> QED
    BY <2>1, <2>3, <2>5, <2>6
<1> QED
  BY <1>5, <1>6, <1>7, <1>8, <1>9, <1>10, <1>11, <1>12, <1>13 DEF GetAndDelStep

LEMMA NextSerial == Bounds /\ Serial /\ [Next]_vars => Serial'
<1> SUFFICES ASSUME Bounds, Serial, [Next]_vars PROVE Serial'
  OBVIOUS
<1>1. ASSUME NEW a \in Actors, CallStep(a) PROVE Serial'
  <2> SUFFICES ASSUME ~overlapped' PROVE Serial'
    BY DEF Serial
  <2>1. /\ Setting /\ Moves(a) /\ \A b \in Actors \ {a} : pc'[b] = "idle"
        /\ fifo \in Seq(Messages) /\ taken = owed /\ (pc[a] = "idle" => InRing)
        /\ a \in Producers /\ pc[a] # "idle" => Entering(a)
        /\ a \in Consumers /\ pc[a] # "idle" => Leaving(a)
    BY <1>1, OneAtATime DEF Bounds
  <2>2. ~(a \in Producers /\ a \in Consumers)
    BY <2>1 DEF Setting
  <2>3. CASE a \in Producers /\ EnQueueStep(a)
    <3>1. fifo' \in Seq(Messages) /\ taken' = owed' /\ IF pc'[a] = "idle" THEN InRing' ELSE Entering(a)'
      BY <2>1, <2>3, EntersAlone
    <3> QED
      BY <2>1, <2>2, <2>3, <3>1, SerialAfter
  <2>4. CASE a \in Consumers /\ GetAndDelStep(a)
    <3>1. fifo' \in Seq(Messages) /\ taken' = owed' /\ IF pc'[a] = "idle" THEN InRing' ELSE Leaving(a)'
      BY <2>1, <2>4, LeavesAlone
    <3> QED
      BY <2>1, <2>2, <2>4, <3>1, SerialAfter
  <2> QED
    BY <1>1, <2>3, <2>4 DEF CallStep
<1>2. CASE Next
  BY <1>1, <1>2 DEF Next, CallStep, Actors
<1>3. CASE UNCHANGED vars
  BY <1>3 DEF vars, shared, history, setup, Serial, Alone, AllIdle, InRing, Entering, Leaving, Free, Room, MsgId, Actors
<1> QED
  BY <1>2, <1>3

LEMMA InitSerial == Init => Serial
<1> SUFFICES ASSUME Init PROVE Serial
  OBVIOUS
<1>1. /\ \A a \in Actors : pc[a] = "idle"
      /\ front = 0 /\ rear = 0 /\ QueueCount = 0 /\ fifo = <<>> /\ taken = owed
  BY DEF Init
<1>2. InRing
  BY <1>1, SegmentEmpty, RaceAssumption DEF InRing, Slot
<1> QED
  BY <1>1, <1>2 DEF Serial, Alone, Actors

(* As long as no call began inside another one, the accesses of Queue.c in  *)
(* their order (Queue.c:42-57, 70-85) amount to LossyFifo: the ring holds   *)
(* what LossyFifo would hold whenever no call is in progress, and the       *)
(* consumers were given exactly what LossyFifo would have given.            *)
THEOREM SerialCallsAgree == Spec => []AgreesWithFifo
<1>1. Bounds /\ Serial => AgreesWithFifo
  <2> SUFFICES ASSUME Serial, ~overlapped
               PROVE  taken = owed /\ (AllIdle => Contents = [i \in DOMAIN fifo |-> Whole(fifo[i])])
    BY DEF AgreesWithFifo
  <2> SUFFICES ASSUME AllIdle PROVE Contents = [i \in DOMAIN fifo |-> Whole(fifo[i])]
    BY DEF Serial
  <2>1. /\ front \in 0 .. MaxCount - 1 /\ QueueCount \in 0 .. MaxCount /\ fifo \in Seq(Messages)
        /\ Len(fifo) = QueueCount
        /\ \A i \in 1 .. QueueCount : QNode[Slot(front + i - 1)] = Whole(fifo[i])
    BY DEF Serial, InRing, Segment
  <2>2. DOMAIN fifo = 1 .. QueueCount
    BY <2>1
  <2>3. \A i \in 1 .. QueueCount : (front + i - 1) % MaxCount = Slot(front + i - 1)
    <3>1. \A i \in 0 .. 2 * MaxCount - 1 : i % MaxCount = Slot(i)
      BY RaceAssumption DEF Slot
    <3>2. \A i \in 1 .. QueueCount : front + i - 1 \in 0 .. 2 * MaxCount - 1
      BY <2>1, RaceAssumption
    <3> QED
      BY <3>1, <3>2
  <2> QED
    BY <2>1, <2>2, <2>3 DEF Contents
<1>2. Init => Bounds /\ Serial
  BY InitBounds, InitSerial
<1>3. (Bounds /\ Serial) /\ [Next]_vars => (Bounds /\ Serial)'
  BY NextBounds, NextSerial
<1> QED
  BY <1>1, <1>2, <1>3, PTL DEF Spec
=============================================================================
