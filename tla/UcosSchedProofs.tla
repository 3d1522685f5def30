--------------------------- MODULE UcosSchedProofs ---------------------------
(****************************************************************************)
(* Theorems on UcosSched, for every set of tasks, handlers, preemption      *)
(* priorities and bounds that satisfy UcosAssumption.                       *)
(*                                                                          *)
(* Everything rests on one fact about the kernel's view of interrupts:      *)
(* OSIntNesting counts the announced handlers between OSIntEnter and        *)
(* OSIntExit, and a handler that is not off is on the stack.                *)
(****************************************************************************)
EXTENDS UcosSched, FiniteSetTheorems, SequenceTheorems, NaturalsInduction,
        WellFoundedInduction, TLAPS

(* The announced handlers between OSIntEnter and OSIntExit. *)
Outside == {"off", "enter", "leave"}
Counted == {h \in Announced : pc[h] \notin Outside}

NestingCounted == OSIntNesting = Cardinality(Counted)
ActiveOnStack ==
  \A h \in Handlers : pc[h] # "off" => \E i \in 1 .. Len(isr) : isr[i] = h

IInv == TypeOK /\ NestingCounted /\ ActiveOnStack
-----------------------------------------------------------------------------
NatLess == {p \in Nat \X Nat : p[1] < p[2]}

LEMMA NatLessWellFounded == IsWellFoundedOn(NatLess, Nat)
BY NatLessThanWellFounded DEF NatLess, OpToRel

(* OS_SchedNew's scan of OSRdyTbl finds a member below no other.            *)
LEMMA HighestIsLeast ==
  ASSUME NEW S, S \subseteq Nat, S # {}
  PROVE  Highest(S) \in S /\ \A u \in S : Highest(S) <= u
<1>1. PICK x \in S : \A y \in S : ~(<<y, x>> \in NatLess)
  BY WFMin, NatLessWellFounded
<1>2. \A y \in S : x <= y
  <2>1. SUFFICES ASSUME NEW y \in S PROVE ~(y < x)
    OBVIOUS
  <2>2. x \in Nat /\ y \in Nat /\ <<y, x>> \notin NatLess
    BY <1>1
  <2>. QED  BY <2>2 DEF NatLess
<1>. QED  BY <1>2 DEF Highest

LEMMA HighestType == ASSUME NEW S \in SUBSET Tasks
                     PROVE  Highest(S) \in Tasks \cup {NoTask}
<1>1. CASE S = {}  BY <1>1 DEF Highest
<1>2. CASE S # {}  BY <1>2, HighestIsLeast, UcosAssumption
<1>. QED  BY <1>1, <1>2

(* Tasks and handlers are different things.  *)
LEMMA Disjoint == Tasks \cap Handlers = {} /\ NoTask \notin Handlers
BY UcosAssumption DEF NoTask

(* Who runs: a handler while the stack is not empty, else the current task. *)
LEMMA Runner ==
  ASSUME TypeOK, NEW w, Running(w)
  PROVE  /\ w \in Tasks => isr = <<>> /\ w = OSPrioCur /\ ~PendSV
         /\ w \in Handlers => isr # <<>> /\ w = Head(isr)
<1>1. isr # <<>> => Head(isr) \in Handlers
  BY HeadTailProperties DEF TypeOK
<1>. QED  BY <1>1, Disjoint DEF Running, TypeOK, NoTask

(* With no handler on the stack the nesting count is zero.  *)
LEMMA NoNesting == ASSUME IInv, isr = <<>> PROVE OSIntNesting = 0
<1>1. Counted = {}
  BY UcosAssumption DEF IInv, ActiveOnStack, Counted, Outside
<1>. QED  BY <1>1, FS_EmptySet DEF IInv, NestingCounted

(* An announced handler between OSIntEnter and OSIntExit is counted.  *)
LEMMA Nesting ==
  ASSUME IInv, NEW h \in Announced, pc[h] \notin Outside
  PROVE  OSIntNesting > 0
<1>1. IsFiniteSet(Counted)
  BY FS_Subset, UcosAssumption DEF Counted
<1>2. h \in Counted
  BY DEF Counted
<1>. QED  BY <1>1, <1>2, FS_EmptySet, FS_CardinalityType DEF IInv, NestingCounted
-----------------------------------------------------------------------------
(* The initial states. *)
LEMMA InitIInv == Init => IInv
<1>. SUFFICES ASSUME Init PROVE IInv
  OBVIOUS
<1>1. Highest(Tasks) \in Tasks \cup {NoTask}
  BY HighestType
<1>2. TypeOK
  <2>1. isr \in Seq(Handlers)
    BY DEF Init
  <2>2. /\ OSQEntries \in 0 .. QSize /\ posted \in 0 .. MaxPosts
        /\ OSTCBDly \in [Tasks -> 0 .. MaxDly]
    BY UcosAssumption DEF Init
  <2>3. pc \in [Tasks \cup Handlers -> TaskLabels \cup HandlerLabels]
    BY DEF Init, TaskLabels, HandlerLabels
  <2>. QED  BY <1>1, <2>1, <2>2, <2>3 DEF Init, TypeOK
<1>3. \A h \in Handlers : pc[h] = "off"
  BY Disjoint DEF Init
<1>4. Counted = {}
  BY <1>3, UcosAssumption DEF Counted, Outside
<1>. QED  BY <1>2, <1>3, <1>4, FS_EmptySet DEF Init, IInv, NestingCounted, ActiveOnStack
-----------------------------------------------------------------------------
(* How a step of w moves it, and what that leaves of the count of handlers. *)
LEMMA Moves ==
  ASSUME TypeOK, NEW w \in Tasks \cup Handlers, NEW l \in TaskLabels \cup HandlerLabels,
         Goto(w, l)
  PROVE  pc' \in [Tasks \cup Handlers -> TaskLabels \cup HandlerLabels]
BY DEF TypeOK, Goto

(* A move between two places inside OSIntEnter .. OSIntExit changes nothing. *)
LEMMA Stays ==
  ASSUME IInv, NEW w \in Tasks \cup Handlers, NEW l, Goto(w, l),
         l \notin Outside, pc[w] \notin Outside,
         UNCHANGED <<isr, OSIntNesting>>
  PROVE  NestingCounted' /\ ActiveOnStack'
<1>1. pc \in [Tasks \cup Handlers -> TaskLabels \cup HandlerLabels]
  BY DEF IInv, TypeOK
<1>2. Counted' = Counted
  BY <1>1, UcosAssumption DEF Counted, Goto
<1>3. ActiveOnStack'
  BY <1>1 DEF IInv, ActiveOnStack, Goto, Outside
<1>. QED  BY <1>2, <1>3 DEF IInv, NestingCounted

(* A step that leaves pc and the stack alone changes nothing either. *)
LEMMA Still ==
  ASSUME IInv, UNCHANGED <<pc, isr, OSIntNesting>>
  PROVE  NestingCounted' /\ ActiveOnStack'
BY DEF IInv, NestingCounted, ActiveOnStack, Counted

(* OS_SchedNew selects a task, or nothing when no task is ready. *)
LEMMA SchedNewType ==
  ASSUME TypeOK, NEW S \in SUBSET Tasks, SchedNew(S) \/ UNCHANGED switch
  PROVE  OSPrioHighRdy' \in Tasks \cup {NoTask} /\ PendSV' \in BOOLEAN
<1>1. CASE SchedNew(S)  BY <1>1, HighestType DEF SchedNew, TypeOK
<1>2. CASE UNCHANGED switch  BY <1>2 DEF switch, TypeOK
<1>. QED  BY <1>1, <1>2

(* Kernel calls that tasks and handlers make. *)
LEMMA ServiceStep ==
  ASSUME IInv, NEW w \in Tasks \cup Handlers, Service(w)
  PROVE  IInv'
<1>0. TypeOK
  BY DEF IInv
<1>1. CASE DelayMs(w)
  <2>. PICK n \in 0 .. MaxDly :
         /\ \/ /\ OSRdyTbl' = OSRdyTbl \ {OSPrioCur}
               /\ OSTCBDly' = [OSTCBDly EXCEPT ![OSPrioCur] = n]
               /\ Goto(w, "dlySched")
            \/ Goto(w, "lock") /\ UNCHANGED <<OSRdyTbl, OSTCBDly>>
         /\ UNCHANGED <<events, OSPrioCur, switch, nesting, isr>>
    BY <1>1 DEF DelayMs
  <2>1. pc[w] \notin Outside
    BY <1>1 DEF DelayMs, At, Outside
  <2>2. NestingCounted' /\ ActiveOnStack'
    BY <2>1, Stays DEF nesting, Outside
  <2>3. pc' \in [Tasks \cup Handlers -> TaskLabels \cup HandlerLabels]
    BY <1>0, Moves DEF TaskLabels
  <2>. QED  BY <1>0, <2>2, <2>3 DEF IInv, TypeOK, events, switch, nesting
<1>2. CASE OSSchedLock(w)
  <2>1. NestingCounted' /\ ActiveOnStack'
    BY <1>2, Stays DEF OSSchedLock, At, Outside
  <2>2. pc' \in [Tasks \cup Handlers -> TaskLabels \cup HandlerLabels]
    BY <1>0, <1>2, Moves DEF TaskLabels, OSSchedLock
  <2>. QED  BY <1>0, <1>2, <2>1, <2>2 DEF OSSchedLock, IInv, TypeOK, events, switch
<1>3. CASE OSSchedUnlock(w)
  <2>1. NestingCounted' /\ ActiveOnStack'
    BY <1>3, Stays DEF OSSchedUnlock, At, Outside
  <2>2. pc' \in [Tasks \cup Handlers -> TaskLabels \cup HandlerLabels]
    BY <1>0, <1>3, Moves DEF TaskLabels, OSSchedUnlock
  <2>3. OSLockNesting' \in Nat
    BY <1>0, <1>3 DEF OSSchedUnlock, TypeOK
  <2>. QED  BY <1>0, <1>3, <2>1, <2>2, <2>3 DEF OSSchedUnlock, IInv, TypeOK, events, switch
<1>4. CASE OS_Sched(w)
  <2>1. /\ pc[w] \notin Outside
        /\ AfterSched[pc[w]] \in TaskLabels /\ AfterSched[pc[w]] \notin Outside
    BY <1>4 DEF OS_Sched, AfterSched, Outside, TaskLabels
  <2>2. NestingCounted' /\ ActiveOnStack'
    BY <1>4, <2>1, Stays DEF OS_Sched, nesting
  <2>3. pc' \in [Tasks \cup Handlers -> TaskLabels \cup HandlerLabels]
    BY <1>0, <1>4, <2>1, Moves DEF OS_Sched
  <2>4. OSPrioHighRdy' \in Tasks \cup {NoTask} /\ PendSV' \in BOOLEAN
    BY <1>0, <1>4, SchedNewType DEF OS_Sched, TypeOK
  <2>. QED  BY <1>0, <1>4, <2>2, <2>3, <2>4 DEF OS_Sched, IInv, TypeOK, events, nesting
<1>5. CASE OSQPostDirect(w)
  <2>1. NestingCounted' /\ ActiveOnStack'
    BY <1>5, Stays DEF OSQPostDirect, At, Outside, nesting
  <2>2. pc' \in [Tasks \cup Handlers -> TaskLabels \cup HandlerLabels]
    BY <1>0, <1>5, Moves DEF TaskLabels, OSQPostDirect
  <2>3. Highest(OSEventTbl) \in Tasks
    BY <1>0, <1>5, HighestIsLeast, UcosAssumption DEF OSQPostDirect, TypeOK
  <2>4. posted' \in 0 .. MaxPosts
    BY <1>0, <1>5, UcosAssumption DEF OSQPostDirect, TypeOK
  <2>5. 0 \in 0 .. MaxDly
    BY UcosAssumption
  <2>. DEFINE t == Highest(OSEventTbl)
  <2>. HIDE DEF t
  <2>6. /\ OSTCBDly' = [OSTCBDly EXCEPT ![t] = 0]
        /\ OSTCBMsg' = OSTCBMsg \cup {t}
        /\ OSTCBStat' = [OSTCBStat EXCEPT ![t] = "rdy"]
        /\ OSTCBStatPend' = [OSTCBStatPend EXCEPT ![t] = "ok"]
        /\ OSRdyTbl' = OSRdyTbl \cup {t}
        /\ OSEventTbl' = OSEventTbl \ {t}
        /\ UNCHANGED <<OSQEntries, got, OSPrioCur, switch, nesting, isr>>
    BY <1>5 DEF OSQPostDirect, t
  <2>7. t \in Tasks
    BY <2>3 DEF t
  <2>. QED  BY <1>0, <2>1, <2>2, <2>4, <2>5, <2>6, <2>7 DEF IInv, TypeOK, switch, nesting
<1>6. CASE OSQPostQueue(w)
  <2>1. NestingCounted' /\ ActiveOnStack'
    BY <1>6, Still DEF OSQPostQueue, nesting
  <2>2. posted' \in 0 .. MaxPosts /\ OSQEntries' \in 0 .. QSize
    BY <1>0, <1>6, UcosAssumption DEF OSQPostQueue, TypeOK
  <2>. QED  BY <1>0, <1>6, <2>1, <2>2 DEF OSQPostQueue, IInv, TypeOK, switch, nesting
<1>. QED  BY <1>1, <1>2, <1>3, <1>4, <1>5, <1>6 DEF Service

(* Kernel calls of tasks only. *)
LEMMA TaskStepKeeps ==
  ASSUME IInv, NEW t \in Tasks, TaskStep(t)
  PROVE  IInv'
<1>0. TypeOK
  BY DEF IInv
<1>1. CASE Service(t)
  BY <1>1, ServiceStep
<1>2. CASE OSQPendTake(t)
  <2>1. NestingCounted' /\ ActiveOnStack'
    BY <1>2, Still DEF OSQPendTake, nesting
  <2>2. OSQEntries' \in 0 .. QSize /\ got' \in Nat
    BY <1>0, <1>2, UcosAssumption DEF OSQPendTake, TypeOK
  <2>. QED  BY <1>0, <1>2, <2>1, <2>2 DEF OSQPendTake, IInv, TypeOK, switch, nesting
<1>3. CASE OSQPendWait(t)
  <2>1. NestingCounted' /\ ActiveOnStack'
    BY <1>3, Stays DEF OSQPendWait, At, Outside, nesting
  <2>2. pc' \in [Tasks \cup Handlers -> TaskLabels \cup HandlerLabels]
    BY <1>0, <1>3, Moves DEF TaskLabels, OSQPendWait
  <2>. QED  BY <1>0, <1>3, <2>1, <2>2 DEF OSQPendWait, IInv, TypeOK, switch, nesting
<1>4. CASE OSQPendEnd(t)
  <2>1. NestingCounted' /\ ActiveOnStack'
    BY <1>4, Stays DEF OSQPendEnd, At, Outside, nesting
  <2>2. pc' \in [Tasks \cup Handlers -> TaskLabels \cup HandlerLabels]
    BY <1>0, <1>4, Moves DEF TaskLabels, OSQPendEnd
  <2>3. got' \in Nat
    BY <1>0, <1>4 DEF OSQPendEnd, TypeOK
  <2>. QED  BY <1>0, <1>4, <2>1, <2>2, <2>3 DEF OSQPendEnd, IInv, TypeOK, switch, nesting
<1>. QED  BY <1>1, <1>2, <1>3, <1>4 DEF TaskStep

(* OSIntEnter adds its handler to the count and OSIntExit takes it out.     *)
LEMMA EnterCounts ==
  ASSUME IInv, NEW h \in Announced, OSIntEnter(h)
  PROVE  NestingCounted'
<1>1. pc \in [Tasks \cup Handlers -> TaskLabels \cup HandlerLabels]
  BY DEF IInv, TypeOK
<1>2. Counted' = Counted \cup {h} /\ h \notin Counted
  BY <1>1, UcosAssumption DEF Counted, OSIntEnter, At, Goto, Outside
<1>3. IsFiniteSet(Counted)
  BY FS_Subset, UcosAssumption DEF Counted
<1>4. Cardinality(Counted \cup {h}) = Cardinality(Counted) + 1
  BY <1>2, <1>3, FS_AddElement
<1>. QED  BY <1>2, <1>4 DEF IInv, NestingCounted, OSIntEnter

LEMMA ExitCounts ==
  ASSUME IInv, NEW h \in Announced, OSIntExit(h)
  PROVE  NestingCounted'
<1>1. pc \in [Tasks \cup Handlers -> TaskLabels \cup HandlerLabels]
  BY DEF IInv, TypeOK
<1>2. Counted' = Counted \ {h} /\ h \in Counted
  BY <1>1, UcosAssumption DEF Counted, OSIntExit, At, Goto, Outside
<1>3. IsFiniteSet(Counted)
  BY FS_Subset, UcosAssumption DEF Counted
<1>4. Cardinality(Counted \ {h}) = Cardinality(Counted) - 1
  BY <1>2, <1>3, FS_RemoveElement
<1>. QED  BY <1>2, <1>4 DEF IInv, NestingCounted, OSIntExit

(* The steps by which a handler begins, is announced and ends.              *)
LEMMA HandlerStepKeeps ==
  ASSUME IInv, NEW h \in Handlers, Interrupt(h) \/ HandlerStep(h)
  PROVE  IInv'
<1>0. /\ TypeOK
      /\ pc \in [Tasks \cup Handlers -> TaskLabels \cup HandlerLabels]
  BY DEF IInv, TypeOK
<1>1. CASE Service(h)
  BY <1>1, ServiceStep
<1>2. CASE Interrupt(h)
  <2>1. /\ isr' \in Seq(Handlers)
        /\ Len(isr') = Len(isr) + 1 /\ isr'[1] = h
        /\ \A i \in 1 .. Len(isr) : isr'[i + 1] = isr[i]
    <3>1. <<h>> \in Seq(Handlers) /\ Len(<<h>>) = 1 /\ isr \in Seq(Handlers)
      BY <1>0 DEF TypeOK
    <3>. HIDE DEF IInv
    <3>2. isr' = <<h>> \o isr
      BY <1>2 DEF Interrupt
    <3>. QED  BY <3>1, <3>2, ConcatProperties, LenProperties
  <2>2. pc' \in [Tasks \cup Handlers -> TaskLabels \cup HandlerLabels]
    BY <1>0, <1>2, Moves DEF HandlerLabels, Interrupt
  <2>3. ActiveOnStack'
    <3>. SUFFICES ASSUME NEW g \in Handlers, pc'[g] # "off"
                  PROVE  \E i \in 1 .. Len(isr') : isr'[i] = g
      BY DEF ActiveOnStack
    <3>1. CASE g = h
      BY <1>0, <2>1, <3>1, LenProperties DEF TypeOK
    <3>2. CASE g # h
      <4>1. PICK i \in 1 .. Len(isr) : isr[i] = g
        BY <1>0, <1>2, <3>2 DEF IInv, ActiveOnStack, Interrupt, Goto
      <4>2. i + 1 \in 1 .. Len(isr')
        BY <1>0, <2>1, LenProperties DEF TypeOK
      <4>. QED  BY <2>1, <4>1, <4>2
    <3>. QED  BY <3>1, <3>2
  <2>4. Counted' = Counted
    BY <1>0, <1>2, UcosAssumption DEF Counted, Interrupt, Goto, Outside
  <2>5. NestingCounted'
    BY <1>2, <2>4 DEF IInv, NestingCounted, Interrupt, nesting
  <2>. QED  BY <1>0, <1>2, <2>1, <2>2, <2>3, <2>5
            DEF Interrupt, IInv, TypeOK, events, switch, nesting
<1>3. CASE OSIntEnter(h)
  <2>1. NestingCounted'
    BY <1>3, EnterCounts DEF OSIntEnter
  <2>2. ActiveOnStack'
    BY <1>0, <1>3 DEF IInv, ActiveOnStack, OSIntEnter, At, Goto
  <2>3. pc' \in [Tasks \cup Handlers -> TaskLabels \cup HandlerLabels]
    BY <1>0, <1>3, Moves DEF HandlerLabels, OSIntEnter
  <2>. QED  BY <1>0, <1>3, <2>1, <2>2, <2>3 DEF OSIntEnter, IInv, TypeOK, events, switch
<1>4. CASE OSIntExit(h)
  <2>1. NestingCounted'
    BY <1>4, ExitCounts DEF OSIntExit
  <2>2. ActiveOnStack'
    BY <1>0, <1>4 DEF IInv, ActiveOnStack, OSIntExit, At, Goto
  <2>3. pc' \in [Tasks \cup Handlers -> TaskLabels \cup HandlerLabels]
    BY <1>0, <1>4, Moves DEF HandlerLabels, OSIntExit
  <2>4. OSIntNesting' \in Nat
    BY <1>0, <1>4, Nesting DEF OSIntExit, At, Outside, TypeOK
  <2>5. OSPrioHighRdy' \in Tasks \cup {NoTask} /\ PendSV' \in BOOLEAN
    BY <1>0, <1>4, SchedNewType DEF OSIntExit, TypeOK
  <2>. QED  BY <1>0, <1>4, <2>1, <2>2, <2>3, <2>4, <2>5 DEF OSIntExit, IInv, TypeOK, events
<1>5. CASE Return(h)
  <2>1. isr # <<>> /\ h = Head(isr)
    BY <1>0, <1>5, Runner DEF Return, At
  <2>2. /\ isr' \in Seq(Handlers)
        /\ Len(isr') = Len(isr) - 1 /\ isr[1] = h
        /\ \A i \in 2 .. Len(isr) : isr'[i - 1] = isr[i]
    BY <1>0, <1>5, <2>1, HeadTailProperties, LenProperties DEF Return, TypeOK
  <2>3. pc' \in [Tasks \cup Handlers -> TaskLabels \cup HandlerLabels]
    BY <1>0, <1>5, Moves DEF HandlerLabels, Return
  <2>4. ActiveOnStack'
    <3>. SUFFICES ASSUME NEW g \in Handlers, pc'[g] # "off"
                  PROVE  \E i \in 1 .. Len(isr') : isr'[i] = g
      BY DEF ActiveOnStack
    <3>1. g # h /\ pc[g] # "off"
      BY <1>0, <1>5 DEF Return, Goto
    <3>2. PICK i \in 1 .. Len(isr) : isr[i] = g
      BY <3>1 DEF IInv, ActiveOnStack
    <3>3. i \in 2 .. Len(isr) /\ i - 1 \in 1 .. Len(isr')
      BY <1>0, <2>2, <3>1, <3>2, LenProperties DEF TypeOK
    <3>. QED  BY <2>2, <3>2, <3>3
  <2>5. Counted' = Counted
    BY <1>0, <1>5, UcosAssumption DEF Counted, Return, At, Goto, Outside
  <2>6. NestingCounted'
    BY <1>5, <2>5 DEF IInv, NestingCounted, Return, nesting
  <2>. QED  BY <1>0, <1>5, <2>2, <2>3, <2>4, <2>6
            DEF Return, IInv, TypeOK, events, switch, nesting
<1>. QED  BY <1>1, <1>2, <1>3, <1>4, <1>5 DEF HandlerStep

(* The tick and the context switch.                                         *)
LEMMA ExceptionKeeps ==
  ASSUME IInv, SysTick_Handler \/ PendSV_Handler
  PROVE  IInv'
<1>0. TypeOK
  BY DEF IInv
<1>1. CASE SysTick_Handler
  <2>1. NestingCounted' /\ ActiveOnStack'
    BY <1>1, Still DEF SysTick_Handler, nesting
  <2>2. OSRdyTbl' \subseteq Tasks
    BY <1>0, <1>1 DEF SysTick_Handler, TypeOK
  <2>3. OSPrioHighRdy' \in Tasks \cup {NoTask} /\ PendSV' \in BOOLEAN
    BY <1>0, <1>1, <2>2, SchedNewType DEF SysTick_Handler
  <2>4. OSTCBDly' \in [Tasks -> 0 .. MaxDly]
    BY <1>0, <1>1, UcosAssumption DEF SysTick_Handler, TypeOK
  <2>5. /\ OSTCBStat' \in [Tasks -> {"rdy", "q"}]
        /\ OSTCBStatPend' \in [Tasks -> {"ok", "timeout"}]
    BY <1>0, <1>1 DEF SysTick_Handler, TypeOK
  <2>. QED  BY <1>0, <1>1, <2>1, <2>2, <2>3, <2>4, <2>5
            DEF SysTick_Handler, IInv, TypeOK, nesting
<1>2. CASE PendSV_Handler
  <2>1. NestingCounted' /\ ActiveOnStack'
    BY <1>2, Still DEF PendSV_Handler, nesting
  <2>. QED  BY <1>0, <1>2, <2>1 DEF PendSV_Handler, IInv, TypeOK, events, nesting
<1>. QED  BY <1>1, <1>2

LEMMA NextIInv == IInv /\ [Next]_vars => IInv'
<1>. SUFFICES ASSUME IInv, [Next]_vars PROVE IInv'
  OBVIOUS
<1>1. CASE Next
  BY <1>1, TaskStepKeeps, HandlerStepKeeps, ExceptionKeeps DEF Next
<1>2. CASE UNCHANGED vars
  <2>1. NestingCounted' /\ ActiveOnStack'
    BY <1>2, Still DEF vars, nesting
  <2>. QED  BY <1>2, <2>1 DEF vars, events, switch, nesting, IInv, TypeOK
<1>. QED  BY <1>1, <1>2

LEMMA AlwaysIInv == Spec => []IInv
BY InitIInv, NextIInv, PTL DEF Spec

(* The kernel's variables keep their types, whatever the handlers do; in    *)
(* particular OSIntExit and OSSchedUnlock never count below zero.           *)
THEOREM TypeCorrect == Spec => []TypeOK
<1>1. IInv => TypeOK
  BY DEF IInv
<1>. QED  BY <1>1, AlwaysIInv, PTL
-----------------------------------------------------------------------------
(* If only announced handlers reach delay_ms, whoever calls OSTimeDly with  *)
(* effect, or OSQPend, is the current task itself, and not the idle task.   *)
LEMMA OnlyTasksBlock ==
  ASSUME IInv, Delaying \subseteq Announced, NEW w \in Tasks \cup Handlers,
         At(w, "run"), MayDelay(w), OSIntNesting = 0
  PROVE  w \in Tasks \ {Idle} /\ w = OSPrioCur /\ isr = <<>>
<1>1. w \notin Delaying
  <2>. SUFFICES ASSUME w \in Delaying PROVE FALSE
    OBVIOUS
  <2>1. w \in Announced /\ pc[w] \notin Outside
    BY DEF At, Outside
  <2>. QED  BY <2>1, Nesting
<1>2. w \in Tasks \ {Idle}
  BY <1>1 DEF MayDelay
<1>. QED  BY <1>2, Runner DEF At, IInv

(* What a step does to the ready list under that assumption: nothing is     *)
(* taken off it but the running task, by itself, and never the idle task.   *)
LEMMA WhoLeavesReadyList ==
  ASSUME IInv, Delaying \subseteq Announced, [Next]_vars
  PROVE  \/ OSRdyTbl \subseteq OSRdyTbl'
         \/ isr = <<>> /\ OSPrioCur # Idle /\ OSRdyTbl' = OSRdyTbl \ {OSPrioCur}
<1>1. ASSUME NEW w \in Tasks \cup Handlers, Service(w)
      PROVE  \/ OSRdyTbl \subseteq OSRdyTbl'
             \/ isr = <<>> /\ OSPrioCur # Idle /\ OSRdyTbl' = OSRdyTbl \ {OSPrioCur}
  <2>1. CASE DelayMs(w)
    BY <2>1, OnlyTasksBlock DEF DelayMs
  <2>2. CASE ~DelayMs(w)
    BY <1>1, <2>2
       DEF Service, OSSchedLock, OSSchedUnlock, OS_Sched, OSQPostDirect, OSQPostQueue
  <2>. QED  BY <2>1, <2>2
<1>2. ASSUME NEW t \in Tasks, TaskStep(t)
      PROVE  \/ OSRdyTbl \subseteq OSRdyTbl'
             \/ isr = <<>> /\ OSPrioCur # Idle /\ OSRdyTbl' = OSRdyTbl \ {OSPrioCur}
  <2>1. CASE OSQPendWait(t)
    <3>1. isr = <<>> /\ t = OSPrioCur
      BY <2>1, Runner DEF OSQPendWait, At, IInv
    <3>. QED  BY <2>1, <3>1, UcosAssumption DEF OSQPendWait
  <2>. QED  BY <1>1, <1>2, <2>1 DEF TaskStep, OSQPendTake, OSQPendEnd
<1>3. ASSUME NEW h \in Handlers, Interrupt(h) \/ HandlerStep(h)
      PROVE  \/ OSRdyTbl \subseteq OSRdyTbl'
             \/ isr = <<>> /\ OSPrioCur # Idle /\ OSRdyTbl' = OSRdyTbl \ {OSPrioCur}
  BY <1>1, <1>3 DEF HandlerStep, Interrupt, OSIntEnter, OSIntExit, Return
<1>4. CASE SysTick_Handler \/ PendSV_Handler \/ UNCHANGED vars
  BY <1>4 DEF SysTick_Handler, PendSV_Handler, vars
<1>. QED  BY <1>2, <1>3, <1>4 DEF Next

(* The idle task stays ready, so that OS_SchedNew finds a task, provided    *)
(* every handler that reaches delay_ms calls OSIntEnter first.  USART2's    *)
(* does not, and sched_idle shows what follows.                             *)
THEOREM IdleStaysReady ==
  Delaying \subseteq Announced => (Spec => []IdleAlwaysReady)
<1>. SUFFICES ASSUME Delaying \subseteq Announced
              PROVE  Spec => []IdleAlwaysReady
  OBVIOUS
<1>1. Init => IdleAlwaysReady
  BY UcosAssumption DEF Init, IdleAlwaysReady
<1>2. IInv /\ IdleAlwaysReady /\ [Next]_vars => IdleAlwaysReady'
  BY WhoLeavesReadyList DEF IdleAlwaysReady
<1>. QED  BY <1>1, <1>2, AlwaysIInv, PTL DEF Spec

(* Under the same assumption no step inside a handler, the tick's included, *)
(* takes a task off the ready list.                                         *)
THEOREM HandlersBlockNoTask ==
  Delaying \subseteq Announced => (Spec => InterruptsBlockNoTask)
<1>. SUFFICES ASSUME Delaying \subseteq Announced
              PROVE  Spec => InterruptsBlockNoTask
  OBVIOUS
<1>1. IInv /\ [Next]_vars => [isr # <<>> => OSRdyTbl \subseteq OSRdyTbl']_vars
  BY WhoLeavesReadyList
<1>. QED  BY <1>1, AlwaysIInv, PTL DEF Spec, InterruptsBlockNoTask
-----------------------------------------------------------------------------
(* delay_us: the strengthening says that the lock is held and that no       *)
(* switch is pending while a task is in the loop, and that no handler is    *)
(* ever in delay_us, which is what sched_delay violates.                    *)
BusyIsCurrent ==
  /\ \A t \in Tasks : pc[t] = "busy" => t = OSPrioCur /\ OSLockNesting > 0 /\ ~PendSV
  /\ \A h \in Handlers : pc[h] \notin {"dlySched", "lock", "busy"}

LEMMA BusyKept ==
  ASSUME IInv, BusyIsCurrent, Delaying = {}, [Next]_vars
  PROVE  BusyIsCurrent'
<1>0. /\ TypeOK
      /\ pc \in [Tasks \cup Handlers -> TaskLabels \cup HandlerLabels]
  BY DEF IInv, TypeOK
<1>1. ASSUME NEW w \in Tasks \cup Handlers, Service(w)
      PROVE  BusyIsCurrent'
  <2>1. CASE DelayMs(w)
    <3>1. w \in Tasks /\ w \notin Handlers
      BY <2>1, Disjoint DEF DelayMs, MayDelay
    <3>. QED  BY <1>0, <2>1, <3>1 DEF DelayMs, At, Goto, BusyIsCurrent, switch, nesting
  <2>2. CASE OSSchedLock(w)
    <3>1. w \in Tasks /\ w \notin Handlers
      BY <1>1, <2>2, Disjoint DEF OSSchedLock, At, BusyIsCurrent
    <3>2. w = OSPrioCur /\ ~PendSV /\ isr = <<>>
      BY <1>0, <2>2, <3>1, Runner DEF OSSchedLock, At
    <3>3. OSLockNesting' > 0
      BY <1>0, <2>2, <3>2, NoNesting DEF OSSchedLock, TypeOK
    <3>. QED  BY <1>0, <2>2, <3>1, <3>2, <3>3 DEF OSSchedLock, Goto, BusyIsCurrent, switch
  <2>3. CASE OSSchedUnlock(w)
    <3>1. w \in Tasks /\ w = OSPrioCur /\ w \notin Handlers
      BY <1>1, <2>3, Disjoint DEF OSSchedUnlock, At, BusyIsCurrent
    <3>2. \A t \in Tasks : pc'[t] # "busy"
      BY <1>0, <2>3, <3>1 DEF OSSchedUnlock, Goto, BusyIsCurrent
    <3>3. \A h \in Handlers : pc'[h] = pc[h]
      BY <1>0, <2>3, <3>1 DEF OSSchedUnlock, Goto
    <3>. QED  BY <3>2, <3>3 DEF BusyIsCurrent
  <2>4. CASE OS_Sched(w)
    <3>1. pc[w] = "dlySched" => w \in Tasks /\ w \notin Handlers
      BY <1>1, Disjoint DEF BusyIsCurrent
    <3>2. /\ pc' = [pc EXCEPT ![w] = AfterSched[pc[w]]]
          /\ AfterSched[pc[w]] # "busy"
          /\ AfterSched[pc[w]] = "lock" => pc[w] = "dlySched"
          /\ AfterSched[pc[w]] # "dlySched"
      BY <2>4 DEF OS_Sched, AfterSched, Goto
    <3>3. OSLockNesting > 0 => PendSV' = PendSV
      BY <1>0, <2>4 DEF OS_Sched, switch, TypeOK
    <3>4. \A h \in Handlers : pc'[h] \notin {"dlySched", "lock", "busy"}
      BY <1>0, <3>1, <3>2 DEF BusyIsCurrent
    <3>5. \A t \in Tasks : pc'[t] = "busy" => pc[t] = "busy"
      BY <1>0, <3>2
    <3>. QED  BY <2>4, <3>3, <3>4, <3>5 DEF OS_Sched, BusyIsCurrent, nesting
  <2>5. CASE OSQPostDirect(w)
    BY <1>0, <2>5 DEF OSQPostDirect, Goto, BusyIsCurrent, switch, nesting
  <2>6. CASE OSQPostQueue(w)
    BY <2>6 DEF OSQPostQueue, BusyIsCurrent, switch, nesting
  <2>. QED  BY <1>1, <2>1, <2>2, <2>3, <2>4, <2>5, <2>6 DEF Service
<1>2. ASSUME NEW t \in Tasks, TaskStep(t)
      PROVE  BusyIsCurrent'
  <2>1. CASE OSQPendTake(t)
    BY <2>1 DEF OSQPendTake, BusyIsCurrent, switch, nesting
  <2>2. CASE OSQPendWait(t)
    BY <1>0, <2>2, Disjoint DEF OSQPendWait, Goto, BusyIsCurrent, switch, nesting
  <2>3. CASE OSQPendEnd(t)
    BY <1>0, <2>3, Disjoint DEF OSQPendEnd, Goto, BusyIsCurrent, switch, nesting
  <2>. QED  BY <1>1, <1>2, <2>1, <2>2, <2>3 DEF TaskStep
<1>3. ASSUME NEW h \in Handlers, Interrupt(h) \/ HandlerStep(h)
      PROVE  BusyIsCurrent'
  <2>1. CASE Interrupt(h)
    BY <1>0, <2>1, Disjoint DEF Interrupt, Goto, BusyIsCurrent, switch, nesting
  <2>2. CASE OSIntEnter(h)
    BY <1>0, <2>2, Disjoint DEF OSIntEnter, Goto, BusyIsCurrent, switch
  <2>3. CASE OSIntExit(h)
    <3>1. OSLockNesting > 0 => PendSV' = PendSV
      BY <1>0, <2>3 DEF OSIntExit, switch, TypeOK
    <3>. QED  BY <1>0, <2>3, <3>1, Disjoint DEF OSIntExit, Goto, BusyIsCurrent
  <2>4. CASE Return(h)
    BY <1>0, <2>4, Disjoint DEF Return, Goto, BusyIsCurrent, switch, nesting
  <2>. QED  BY <1>1, <1>3, <2>1, <2>2, <2>3, <2>4 DEF HandlerStep
<1>4. CASE SysTick_Handler
  <2>1. OSLockNesting > 0 => PendSV' = PendSV
    BY <1>0, <1>4 DEF SysTick_Handler, switch, TypeOK
  <2>. QED  BY <1>4, <2>1 DEF SysTick_Handler, BusyIsCurrent, nesting
<1>5. CASE PendSV_Handler
  BY <1>5 DEF PendSV_Handler, BusyIsCurrent, nesting
<1>6. CASE UNCHANGED vars
  BY <1>6 DEF vars, BusyIsCurrent, switch, nesting
<1>. QED  BY <1>2, <1>3, <1>4, <1>5, <1>6 DEF Next

(* delay_us is not interrupted by another task, provided no handler calls   *)
(* delay_ms: a handler's OSSchedUnlock would undo the task's OSSchedLock.   *)
THEOREM DelayUsKeepsCpu ==
  Delaying = {} => (Spec => []DelayUsNotPreempted)
<1>. SUFFICES ASSUME Delaying = {}
              PROVE  Spec => []DelayUsNotPreempted
  OBVIOUS
<1>1. Init => BusyIsCurrent
  BY Disjoint DEF Init, BusyIsCurrent
<1>2. IInv /\ BusyIsCurrent /\ [Next]_vars => BusyIsCurrent'
  BY BusyKept
<1>3. BusyIsCurrent => DelayUsNotPreempted
  BY DEF BusyIsCurrent, DelayUsNotPreempted
<1>. QED  BY <1>1, <1>2, <1>3, AlwaysIInv, PTL DEF Spec
-----------------------------------------------------------------------------
(****************************************************************************)
(* The most urgent ready task runs, and no message is lost or doubled, when *)
(* only announced handlers reach delay_ms.                                  *)
(*                                                                          *)
(* OS_SchedNew is called after the change that makes it necessary, in       *)
(* another critical section, and the switch it requests comes later still.  *)
(* The strengthening says who still owes the call: a handler inside         *)
(* OSIntEnter .. OSIntExit, a handler before OS_Sched, the current task     *)
(* before OS_Sched, or the one that will unlock the scheduler.  Where       *)
(* nobody owes it, the choice is right.                                     *)
(****************************************************************************)
OwesSched == {"dlySched", "pendSched", "sched"}
NoHandlerOwes == OSIntNesting = 0 /\ \A h \in Handlers : pc[h] # "sched"

TasksOnly == OSPrioCur \in Tasks /\ OSPrioHighRdy \in Tasks
BareNeverDelay ==
  \A h \in Handlers \ Announced : pc[h] \notin {"dlySched", "lock", "busy"}
LockedIsBusy ==
  OSLockNesting > 0 => OSLockNesting = 1 /\ ~PendSV /\ pc[OSPrioCur] = "busy"
SwitchChosen == PendSV /\ NoHandlerOwes => OSPrioHighRdy = Highest(OSRdyTbl)
RunnerChosen ==
  ~PendSV /\ NoHandlerOwes /\ OSLockNesting = 0 /\ pc[OSPrioCur] \notin OwesSched
    => OSPrioCur = Highest(OSRdyTbl)

Sane == IInv /\ IdleAlwaysReady /\ TasksOnly /\ BareNeverDelay /\ LockedIsBusy
Settled == SwitchChosen /\ RunnerChosen
-----------------------------------------------------------------------------
LEMMA Types ==
  ASSUME IInv
  PROVE  /\ pc \in [Tasks \cup Handlers -> TaskLabels \cup HandlerLabels]
         /\ OSLockNesting \in Nat /\ OSIntNesting \in Nat /\ OSRdyTbl \subseteq Tasks
         /\ PendSV \in BOOLEAN
BY DEF IInv, TypeOK

(* A task that executes is alone: no handler is active.  *)
LEMMA TaskAlone ==
  ASSUME Sane, NEW t \in Tasks, Running(t)
  PROVE  /\ t = OSPrioCur /\ ~PendSV /\ OSIntNesting = 0 /\ isr = <<>>
         /\ \A h \in Handlers : pc[h] = "off"
<1>1. t = OSPrioCur /\ ~PendSV /\ isr = <<>>
  BY Runner DEF Sane, IInv
<1>2. OSIntNesting = 0
  BY <1>1, NoNesting DEF Sane
<1>3. \A h \in Handlers : pc[h] = "off"
  BY <1>1 DEF Sane, IInv, ActiveOnStack
<1>. QED  BY <1>1, <1>2, <1>3

(* The same for one that executes a kernel call with the scheduler unlocked.*)
LEMMA TaskUnlocked ==
  ASSUME Sane, NEW t \in Tasks, Running(t), pc[t] # "busy"
  PROVE  OSLockNesting = 0
BY TaskAlone, Types DEF Sane, LockedIsBusy

(* delay_ms in a handler happens at a nesting above zero.  *)
LEMMA DelayingIsNested ==
  ASSUME Sane, NEW h \in Handlers, pc[h] \in {"dlySched", "lock", "busy"}
  PROVE  OSIntNesting > 0
<1>1. h \in Announced /\ pc[h] \notin Outside
  BY DEF Sane, BareNeverDelay, Outside
<1>. QED  BY <1>1, Nesting DEF Sane

(* OS_SchedNew on a list that holds the idle task settles the choice. *)
LEMMA SchedNewSettles ==
  ASSUME TasksOnly, SchedNew(OSRdyTbl'), OSPrioCur' = OSPrioCur,
         OSRdyTbl' \subseteq Tasks, Idle \in OSRdyTbl', PendSV \in BOOLEAN
  PROVE  OSPrioHighRdy' \in Tasks /\ Settled'
<1>1. Highest(OSRdyTbl') \in OSRdyTbl'
  BY HighestIsLeast, UcosAssumption
<1>2. OSPrioHighRdy' \in Tasks
  BY <1>1 DEF SchedNew
<1>3. SwitchChosen'
  BY DEF SwitchChosen, SchedNew
<1>4. RunnerChosen'
  BY DEF RunnerChosen, SchedNew
<1>. QED  BY <1>2, <1>3, <1>4 DEF Settled

(* While a handler owes the choice, or the scheduler is locked, nothing is  *)
(* promised.                                                                *)
LEMMA OwedSettles ==
  ASSUME ~NoHandlerOwes'  PROVE Settled'
BY DEF Settled, SwitchChosen, RunnerChosen

LEMMA LockedSettles ==
  ASSUME LockedIsBusy', OSLockNesting' > 0  PROVE Settled'
BY DEF Settled, SwitchChosen, RunnerChosen, LockedIsBusy

(* A step that changes neither list, choice nor nesting, and no label that  *)
(* owes the choice. *)
LEMMA SameSettles ==
  ASSUME Settled, UNCHANGED <<OSRdyTbl, OSPrioCur, switch, OSIntNesting>>,
         OSLockNesting' = 0 => OSLockNesting = 0,
         \A h \in Handlers : pc[h] = "sched" => pc'[h] = "sched",
         pc[OSPrioCur] \in OwesSched => pc'[OSPrioCur] \in OwesSched
  PROVE  Settled'
BY DEF Settled, SwitchChosen, RunnerChosen, NoHandlerOwes, switch
-----------------------------------------------------------------------------
LEMMA InitSettled == Init => Sane /\ Settled
<1>. SUFFICES ASSUME Init PROVE Sane /\ Settled
  OBVIOUS
<1>1. Highest(Tasks) \in Tasks
  BY HighestIsLeast, UcosAssumption
<1>2. IdleAlwaysReady /\ TasksOnly
  BY <1>1, UcosAssumption DEF Init, IdleAlwaysReady, TasksOnly
<1>3. BareNeverDelay
  BY Disjoint DEF Init, BareNeverDelay
<1>4. LockedIsBusy
  BY DEF Init, LockedIsBusy
<1>5. Settled
  BY DEF Init, Settled, SwitchChosen, RunnerChosen
<1>. QED  BY <1>2, <1>3, <1>4, <1>5, InitIInv DEF Sane
-----------------------------------------------------------------------------
Kept == TasksOnly' /\ BareNeverDelay' /\ LockedIsBusy' /\ Settled'

(* The kernel calls of a task, one lemma for each that owes something.      *)
LEMMA TaskService ==
  ASSUME Sane, Settled, NEW t \in Tasks, Service(t), IInv', Idle \in OSRdyTbl'
  PROVE  Kept
<1>0. /\ pc \in [Tasks \cup Handlers -> TaskLabels \cup HandlerLabels]
      /\ OSLockNesting \in Nat /\ OSIntNesting \in Nat /\ PendSV \in BOOLEAN
      /\ t \notin Handlers /\ TasksOnly /\ BareNeverDelay /\ LockedIsBusy
      /\ OSRdyTbl' \subseteq Tasks
  BY Types, Disjoint DEF Sane, IInv, TypeOK
<1>1. Running(t)
  BY DEF Service, DelayMs, OSSchedLock, OSSchedUnlock, OS_Sched, OSQPostDirect,
         OSQPostQueue, At
<1>2. /\ t = OSPrioCur /\ ~PendSV /\ OSIntNesting = 0 /\ isr = <<>>
      /\ \A h \in Handlers : pc[h] = "off"
  BY <1>1, TaskAlone
<1>3. CASE DelayMs(t)
  <2>1. OSLockNesting = 0
    BY <1>1, <1>3, TaskUnlocked DEF DelayMs, At
  <2>2. \/ pc' = [pc EXCEPT ![t] = "dlySched"]
        \/ pc' = [pc EXCEPT ![t] = "lock"] /\ OSRdyTbl' = OSRdyTbl
    BY <1>3 DEF DelayMs, Goto
  <2>3. UNCHANGED <<OSPrioCur, OSPrioHighRdy, PendSV, OSLockNesting, OSIntNesting>>
    BY <1>3 DEF DelayMs, switch, nesting
  <2>4. Settled'
    <3>1. CASE pc' = [pc EXCEPT ![t] = "dlySched"]
      BY <1>0, <1>2, <2>3, <3>1 DEF Settled, SwitchChosen, RunnerChosen, OwesSched
    <3>2. CASE pc' = [pc EXCEPT ![t] = "lock"] /\ OSRdyTbl' = OSRdyTbl
      <4>1. pc[t] = "run"
        BY <1>3 DEF DelayMs, At
      <4>. QED  BY <1>0, <1>2, <2>3, <3>2, <4>1, SameSettles DEF switch, OwesSched
    <3>. QED  BY <2>2, <3>1, <3>2
  <2>. QED  BY <1>0, <2>1, <2>2, <2>3, <2>4
            DEF Kept, TasksOnly, BareNeverDelay, LockedIsBusy
<1>4. CASE OSSchedLock(t)
  <2>1. OSLockNesting = 0
    BY <1>1, <1>4, TaskUnlocked DEF OSSchedLock, At
  <2>2. /\ pc' = [pc EXCEPT ![t] = "busy"] /\ OSLockNesting' = 1
        /\ UNCHANGED <<OSPrioCur, OSPrioHighRdy, PendSV>>
    BY <1>2, <1>4, <2>1 DEF OSSchedLock, Goto, switch
  <2>3. TasksOnly' /\ BareNeverDelay' /\ LockedIsBusy'
    BY <1>0, <1>2, <2>2 DEF TasksOnly, BareNeverDelay, LockedIsBusy
  <2>. QED  BY <2>2, <2>3, LockedSettles DEF Kept
<1>5. CASE OSSchedUnlock(t)
  <2>1. /\ pc[t] = "busy" /\ OSLockNesting \in {0, 1} /\ OSLockNesting' = 0
        /\ pc' = [pc EXCEPT ![t] = IF OSLockNesting = 1 THEN "sched" ELSE "run"]
        /\ UNCHANGED <<OSPrioCur, OSPrioHighRdy, PendSV, OSRdyTbl, OSIntNesting>>
    BY <1>0, <1>2, <1>5 DEF OSSchedUnlock, At, Goto, switch, LockedIsBusy
  <2>2. Settled'
    <3>1. CASE OSLockNesting = 1
      BY <1>0, <1>2, <2>1, <3>1 DEF Settled, SwitchChosen, RunnerChosen, OwesSched
    <3>2. CASE OSLockNesting = 0
      BY <1>0, <1>2, <2>1, <3>2, SameSettles DEF switch, OwesSched
    <3>. QED  BY <2>1, <3>1, <3>2
  <2>. QED  BY <1>0, <2>1, <2>2 DEF Kept, TasksOnly, BareNeverDelay, LockedIsBusy
<1>6. CASE OS_Sched(t)
  <2>1. pc[t] \in OwesSched
    BY <1>6 DEF OS_Sched, AfterSched, OwesSched
  <2>2. OSLockNesting = 0
    BY <1>1, <2>1, TaskUnlocked DEF OwesSched
  <2>3. /\ SchedNew(OSRdyTbl) /\ pc' = [pc EXCEPT ![t] = AfterSched[pc[t]]]
        /\ UNCHANGED <<OSPrioCur, OSRdyTbl, OSLockNesting, OSIntNesting>>
    BY <1>2, <1>6, <2>2 DEF OS_Sched, Goto, nesting
  <2>4. OSPrioHighRdy' \in Tasks /\ Settled'
    BY <1>0, <2>3, SchedNewSettles
  <2>. QED  BY <1>0, <2>2, <2>3, <2>4 DEF Kept, TasksOnly, BareNeverDelay, LockedIsBusy
<1>7. CASE OSQPostDirect(t)
  <2>1. OSLockNesting = 0
    BY <1>1, <1>7, TaskUnlocked DEF OSQPostDirect, At
  <2>2. /\ pc' = [pc EXCEPT ![t] = "sched"]
        /\ UNCHANGED <<OSPrioCur, OSPrioHighRdy, PendSV, OSLockNesting, OSIntNesting>>
    BY <1>7 DEF OSQPostDirect, Goto, switch, nesting
  <2>3. Settled'
    BY <1>0, <1>2, <2>2 DEF Settled, SwitchChosen, RunnerChosen, OwesSched
  <2>. QED  BY <1>0, <2>1, <2>2, <2>3 DEF Kept, TasksOnly, BareNeverDelay, LockedIsBusy
<1>8. CASE OSQPostQueue(t)
  <2>1. UNCHANGED <<OSPrioCur, OSRdyTbl, switch, nesting, pc>>
    BY <1>8 DEF OSQPostQueue
  <2>2. Settled'
    BY <2>1, SameSettles DEF nesting
  <2>. QED  BY <1>0, <2>1, <2>2
            DEF Kept, TasksOnly, BareNeverDelay, LockedIsBusy, switch, nesting
<1>. QED  BY <1>3, <1>4, <1>5, <1>6, <1>7, <1>8 DEF Service

(* OSQPend, which only tasks call. *)
LEMMA TaskPend ==
  ASSUME Sane, Settled, NEW t \in Tasks,
         OSQPendTake(t) \/ OSQPendWait(t) \/ OSQPendEnd(t)
  PROVE  Kept
<1>0. /\ pc \in [Tasks \cup Handlers -> TaskLabels \cup HandlerLabels]
      /\ t \notin Handlers /\ TasksOnly /\ BareNeverDelay /\ LockedIsBusy
  BY Types, Disjoint DEF Sane
<1>1. Running(t) /\ pc[t] \in {"run", "pendEnd"}
  BY DEF OSQPendTake, OSQPendWait, OSQPendEnd, At
<1>2. /\ t = OSPrioCur /\ ~PendSV /\ OSLockNesting = 0
      /\ \A h \in Handlers : pc[h] = "off"
  BY <1>1, TaskAlone, TaskUnlocked
<1>3. UNCHANGED <<OSPrioCur, OSPrioHighRdy, PendSV, OSLockNesting, OSIntNesting>>
  BY DEF OSQPendTake, OSQPendWait, OSQPendEnd, switch, nesting
<1>4. CASE OSQPendWait(t)
  <2>1. pc' = [pc EXCEPT ![t] = "pendSched"]
    BY <1>4 DEF OSQPendWait, Goto
  <2>2. Settled'
    BY <1>0, <1>2, <1>3, <2>1 DEF Settled, SwitchChosen, RunnerChosen, OwesSched
  <2>. QED  BY <1>0, <1>2, <1>3, <2>1, <2>2
            DEF Kept, TasksOnly, BareNeverDelay, LockedIsBusy
<1>5. CASE OSQPendTake(t) \/ OSQPendEnd(t)
  <2>1. OSRdyTbl' = OSRdyTbl /\ (pc' = pc \/ pc' = [pc EXCEPT ![t] = "run"])
    BY <1>5 DEF OSQPendTake, OSQPendEnd, Goto
  <2>2. Settled'
    BY <1>0, <1>1, <1>2, <1>3, <2>1, SameSettles DEF switch, OwesSched
  <2>. QED  BY <1>0, <1>2, <1>3, <2>1, <2>2
            DEF Kept, TasksOnly, BareNeverDelay, LockedIsBusy
<1>. QED  BY <1>4, <1>5
-----------------------------------------------------------------------------
(* A handler that moves to l leaves the current task where it is.           *)
LEMMA HandlerMoves ==
  ASSUME Sane, NEW h \in Handlers, NEW l, Goto(h, l),
         h \in Announced \/ l \notin {"dlySched", "lock", "busy"},
         OSLockNesting' \in {0, OSLockNesting}, OSPrioCur' = OSPrioCur,
         OSLockNesting' > 0 => PendSV' = PendSV
  PROVE  /\ pc'[OSPrioCur] = pc[OSPrioCur] /\ pc'[h] = l
         /\ \A g \in Handlers \ {h} : pc'[g] = pc[g]
         /\ BareNeverDelay' /\ LockedIsBusy'
<1>1. OSPrioCur \in Tasks /\ OSPrioCur # h
  BY Disjoint DEF Sane, TasksOnly
<1>2. /\ pc'[OSPrioCur] = pc[OSPrioCur] /\ pc'[h] = l
      /\ \A g \in Handlers \ {h} : pc'[g] = pc[g]
  BY <1>1, Types DEF Goto, Sane
<1>3. BareNeverDelay'
  BY <1>2 DEF Sane, BareNeverDelay
<1>4. LockedIsBusy'
  BY <1>2 DEF Sane, LockedIsBusy
<1>. QED  BY <1>2, <1>3, <1>4

LEMMA HandlerService ==
  ASSUME Sane, Settled, Delaying \subseteq Announced, NEW h \in Handlers, Service(h),
         IInv', Idle \in OSRdyTbl'
  PROVE  Kept
<1>0. /\ OSLockNesting \in Nat /\ OSIntNesting \in Nat /\ PendSV \in BOOLEAN
      /\ TasksOnly /\ OSRdyTbl' \subseteq Tasks
  BY Types DEF Sane, IInv, TypeOK
<1>1. CASE DelayMs(h)
  <2>1. h \in Announced /\ OSIntNesting > 0
    <3>1. h \in Announced /\ pc[h] \notin Outside
      BY <1>1, Disjoint DEF DelayMs, MayDelay, At, Outside
    <3>. QED  BY <3>1, Nesting DEF Sane
  <2>2. Goto(h, "lock") /\ UNCHANGED <<OSPrioCur, switch, nesting>>
    BY <1>0, <1>1, <2>1 DEF DelayMs
  <2>3. BareNeverDelay' /\ LockedIsBusy'
    BY <2>1, <2>2, HandlerMoves DEF switch, nesting
  <2>4. Settled'
    BY <1>0, <2>1, <2>2, OwedSettles DEF NoHandlerOwes, nesting
  <2>. QED  BY <1>0, <2>2, <2>3, <2>4 DEF Kept, TasksOnly, switch
<1>2. CASE OSSchedLock(h) \/ OSSchedUnlock(h)
  <2>1. OSIntNesting > 0 /\ h \in Announced
    BY <1>2, DelayingIsNested DEF OSSchedLock, OSSchedUnlock, At, Sane, BareNeverDelay
  <2>2. /\ OSLockNesting' \in {0, OSLockNesting}
        /\ \E l \in {"busy", "run"} : Goto(h, l)
        /\ UNCHANGED <<OSPrioCur, switch, OSIntNesting>>
    BY <1>0, <1>2, <2>1 DEF OSSchedLock, OSSchedUnlock, Sane, LockedIsBusy
  <2>3. BareNeverDelay' /\ LockedIsBusy'
    BY <2>1, <2>2, HandlerMoves DEF switch
  <2>4. Settled'
    BY <1>0, <2>1, <2>2, OwedSettles DEF NoHandlerOwes
  <2>. QED  BY <1>0, <2>2, <2>3, <2>4 DEF Kept, TasksOnly, switch
<1>3. CASE OS_Sched(h)
  <2>1. /\ Goto(h, AfterSched[pc[h]])
        /\ UNCHANGED <<OSPrioCur, nesting, OSRdyTbl>>
        /\ IF OSIntNesting = 0 /\ OSLockNesting = 0 THEN SchedNew(OSRdyTbl) ELSE UNCHANGED switch
    BY <1>3 DEF OS_Sched
  <2>2. h \in Announced \/ AfterSched[pc[h]] \notin {"dlySched", "lock", "busy"}
    BY <1>3 DEF OS_Sched, AfterSched, Sane, BareNeverDelay
  <2>3. OSLockNesting' > 0 => PendSV' = PendSV
    BY <1>0, <2>1 DEF switch, nesting
  <2>4. BareNeverDelay' /\ LockedIsBusy'
    BY <2>1, <2>2, <2>3, HandlerMoves DEF nesting
  <2>5. OSPrioHighRdy' \in Tasks /\ Settled'
    <3>1. CASE OSIntNesting = 0 /\ OSLockNesting = 0
      <4>1. SchedNew(OSRdyTbl')
        BY <2>1, <3>1
      <4>. QED  BY <1>0, <2>1, <4>1, SchedNewSettles
    <3>2. CASE OSIntNesting > 0
      BY <1>0, <2>1, <3>2, OwedSettles DEF NoHandlerOwes, nesting, switch, TasksOnly
    <3>3. CASE OSLockNesting > 0
      BY <1>0, <2>1, <2>4, <3>3, LockedSettles DEF nesting, switch, TasksOnly
    <3>. QED  BY <1>0, <3>1, <3>2, <3>3
  <2>. QED  BY <1>0, <2>1, <2>4, <2>5 DEF Kept, TasksOnly
<1>4. CASE OSQPostDirect(h)
  <2>1. Goto(h, "sched") /\ UNCHANGED <<OSPrioCur, switch, nesting>>
    BY <1>4 DEF OSQPostDirect
  <2>2. BareNeverDelay' /\ LockedIsBusy' /\ pc'[h] = "sched"
    BY <2>1, HandlerMoves DEF switch, nesting
  <2>3. Settled'
    BY <2>2, OwedSettles DEF NoHandlerOwes
  <2>. QED  BY <1>0, <2>1, <2>2, <2>3 DEF Kept, TasksOnly, switch
<1>5. CASE OSQPostQueue(h)
  <2>1. UNCHANGED <<OSPrioCur, OSRdyTbl, switch, nesting, pc>>
    BY <1>5 DEF OSQPostQueue
  <2>2. Settled'
    BY <2>1, SameSettles DEF nesting
  <2>. QED  BY <2>1, <2>2
            DEF Sane, Kept, TasksOnly, BareNeverDelay, LockedIsBusy, switch, nesting
<1>. QED  BY <1>1, <1>2, <1>3, <1>4, <1>5 DEF Service

(* Handlers begin, are announced and end. *)
LEMMA HandlerBrackets ==
  ASSUME Sane, Settled, NEW h \in Handlers, IInv', Idle \in OSRdyTbl',
         Interrupt(h) \/ OSIntEnter(h) \/ OSIntExit(h) \/ Return(h)
  PROVE  Kept
<1>0. /\ OSLockNesting \in Nat /\ OSIntNesting \in Nat /\ PendSV \in BOOLEAN
      /\ TasksOnly /\ OSRdyTbl' \subseteq Tasks
  BY Types DEF Sane, IInv, TypeOK
<1>1. /\ \E l \in {"enter", "run", "leave", "off"} : Goto(h, l)
      /\ UNCHANGED <<OSPrioCur, OSRdyTbl, OSLockNesting>>
      /\ pc[h] # "sched"
  BY DEF Interrupt, OSIntEnter, OSIntExit, Return, At, nesting
<1>2. OSLockNesting' > 0 => PendSV' = PendSV
  BY <1>0 DEF Interrupt, OSIntEnter, OSIntExit, Return, switch, nesting
<1>3. /\ pc'[OSPrioCur] = pc[OSPrioCur]
      /\ \A g \in Handlers \ {h} : pc'[g] = pc[g]
      /\ BareNeverDelay' /\ LockedIsBusy'
  <2>1. PICK l \in {"enter", "run", "leave", "off"} : Goto(h, l)
    BY <1>1
  <2>. QED  BY <1>1, <1>2, <2>1, HandlerMoves
<1>4. CASE Interrupt(h) \/ Return(h)
  <2>1. UNCHANGED <<switch, OSIntNesting>>
    BY <1>4 DEF Interrupt, Return, nesting
  <2>2. Settled'
    BY <1>1, <1>3, <2>1, SameSettles
  <2>. QED  BY <1>0, <1>1, <1>3, <2>1, <2>2 DEF Kept, TasksOnly, switch
<1>5. CASE OSIntEnter(h)
  <2>1. OSIntNesting' > 0 /\ UNCHANGED switch
    BY <1>0, <1>5 DEF OSIntEnter
  <2>2. Settled'
    BY <2>1, OwedSettles DEF NoHandlerOwes
  <2>. QED  BY <1>0, <1>1, <1>3, <2>1, <2>2 DEF Kept, TasksOnly, switch
<1>6. CASE OSIntExit(h)
  <2>1. OSIntNesting > 0
    BY <1>6, Nesting DEF OSIntExit, At, Outside, Sane
  <2>2. OSPrioHighRdy' \in Tasks /\ Settled'
    <3>1. CASE OSIntNesting = 1 /\ OSLockNesting = 0
      <4>1. SchedNew(OSRdyTbl')
        BY <1>1, <1>6, <3>1 DEF OSIntExit
      <4>. QED  BY <1>0, <1>1, <4>1, SchedNewSettles
    <3>2. CASE OSIntNesting > 1
      BY <1>0, <1>6, <3>2, OwedSettles DEF NoHandlerOwes, OSIntExit, switch, TasksOnly
    <3>3. CASE OSLockNesting > 0
      BY <1>0, <1>1, <1>3, <1>6, <3>3, LockedSettles DEF OSIntExit, switch, TasksOnly
    <3>. QED  BY <1>0, <2>1, <3>1, <3>2, <3>3
  <2>. QED  BY <1>0, <1>1, <1>3, <2>2 DEF Kept, TasksOnly
<1>. QED  BY <1>4, <1>5, <1>6

(* The tick chooses itself; PendSV makes the choice the current task. *)
LEMMA Exceptions ==
  ASSUME Sane, Settled, IInv', Idle \in OSRdyTbl', SysTick_Handler \/ PendSV_Handler
  PROVE  Kept
<1>0. /\ OSLockNesting \in Nat /\ OSIntNesting \in Nat /\ PendSV \in BOOLEAN
      /\ TasksOnly /\ BareNeverDelay /\ LockedIsBusy /\ OSRdyTbl' \subseteq Tasks
  BY Types DEF Sane, IInv, TypeOK
<1>1. CASE SysTick_Handler
  <2>1. /\ UNCHANGED <<OSPrioCur, nesting, pc>>
        /\ IF OSIntNesting = 0 /\ OSLockNesting = 0 THEN SchedNew(OSRdyTbl') ELSE UNCHANGED switch
    BY <1>1 DEF SysTick_Handler
  <2>2. BareNeverDelay' /\ LockedIsBusy'
    BY <1>0, <2>1 DEF BareNeverDelay, LockedIsBusy, nesting, switch
  <2>3. OSPrioHighRdy' \in Tasks /\ Settled'
    <3>1. CASE OSIntNesting = 0 /\ OSLockNesting = 0
      BY <1>0, <2>1, <3>1, SchedNewSettles
    <3>2. CASE OSIntNesting > 0
      BY <1>0, <2>1, <3>2, OwedSettles DEF NoHandlerOwes, nesting, switch, TasksOnly
    <3>3. CASE OSLockNesting > 0
      BY <1>0, <2>1, <2>2, <3>3, LockedSettles DEF nesting, switch, TasksOnly
    <3>. QED  BY <1>0, <3>1, <3>2, <3>3
  <2>. QED  BY <1>0, <2>1, <2>2, <2>3 DEF Kept, TasksOnly
<1>2. CASE PendSV_Handler
  <2>1. /\ isr = <<>> /\ PendSV /\ ~PendSV' /\ OSPrioCur' = OSPrioHighRdy
        /\ UNCHANGED <<OSRdyTbl, OSPrioHighRdy, OSIntNesting, OSLockNesting, pc>>
    BY <1>2 DEF PendSV_Handler, nesting
  <2>2. NoHandlerOwes
    <3>1. \A h \in Handlers : pc[h] = "off"
      BY <2>1 DEF Sane, IInv, ActiveOnStack
    <3>. QED  BY <2>1, <3>1, NoNesting DEF NoHandlerOwes, Sane
  <2>3. OSPrioCur' = Highest(OSRdyTbl')
    BY <2>1, <2>2 DEF Settled, SwitchChosen
  <2>4. Settled'
    BY <2>1, <2>3 DEF Settled, SwitchChosen, RunnerChosen
  <2>5. LockedIsBusy'
    BY <1>0, <2>1 DEF LockedIsBusy
  <2>. QED  BY <1>0, <2>1, <2>4, <2>5 DEF Kept, TasksOnly, BareNeverDelay
<1>. QED  BY <1>1, <1>2

LEMMA NextSettled ==
  ASSUME Sane, Settled, Delaying \subseteq Announced, [Next]_vars
  PROVE  Sane' /\ Settled'
<1>1. IInv'
  BY NextIInv DEF Sane
<1>2. Idle \in OSRdyTbl'
  BY WhoLeavesReadyList DEF Sane, IdleAlwaysReady
<1>3. Kept
  <2>1. CASE \E t \in Tasks : TaskStep(t)
    BY <1>1, <1>2, <2>1, TaskService, TaskPend DEF TaskStep
  <2>2. CASE \E h \in Handlers : Interrupt(h) \/ HandlerStep(h)
    BY <1>1, <1>2, <2>2, HandlerService, HandlerBrackets DEF HandlerStep
  <2>3. CASE SysTick_Handler \/ PendSV_Handler
    BY <1>1, <1>2, <2>3, Exceptions
  <2>4. CASE UNCHANGED vars
    <3>1. UNCHANGED <<OSPrioCur, OSRdyTbl, switch, nesting, pc>>
      BY <2>4 DEF vars
    <3>2. Settled'
      BY <3>1, SameSettles DEF nesting
    <3>. QED  BY <3>1, <3>2
              DEF Sane, Kept, TasksOnly, BareNeverDelay, LockedIsBusy, switch, nesting
  <2>. QED  BY <2>1, <2>2, <2>3, <2>4 DEF Next
<1>. QED  BY <1>1, <1>2, <1>3 DEF Kept, Sane, IdleAlwaysReady

LEMMA AlwaysSettled ==
  Delaying \subseteq Announced => (Spec => [](Sane /\ Settled))
<1>. SUFFICES ASSUME Delaying \subseteq Announced
              PROVE  Spec => [](Sane /\ Settled)
  OBVIOUS
<1>1. (Sane /\ Settled) /\ [Next]_vars => (Sane /\ Settled)'
  BY NextSettled
<1>. QED  BY <1>1, InitSettled, PTL DEF Spec

(* A task that executes owes nothing, and nobody else does. *)
LEMMA RunnerIsReady ==
  ASSUME Sane, Settled, isr = <<>>, ~PendSV, OSLockNesting = 0,
         pc[OSPrioCur] \notin OwesSched
  PROVE  OSPrioCur \in OSRdyTbl /\ \A t \in OSRdyTbl : OSPrioCur <= t
<1>1. \A h \in Handlers : pc[h] = "off"
  BY DEF Sane, IInv, ActiveOnStack
<1>2. NoHandlerOwes
  BY <1>1, NoNesting DEF NoHandlerOwes, Sane
<1>3. OSPrioCur = Highest(OSRdyTbl)
  BY <1>2 DEF Settled, RunnerChosen
<1>4. OSRdyTbl \subseteq Nat /\ OSRdyTbl # {}
  BY Types, UcosAssumption DEF Sane, IdleAlwaysReady
<1>. QED  BY <1>3, <1>4, HighestIsLeast

(* Whenever a task executes outside the kernel with the scheduler unlocked, *)
(* it is the most urgent ready task, however handlers nest and whatever     *)
(* they post, if those that reach delay_ms are announced.                   *)
THEOREM RightTaskRuns ==
  Delaying \subseteq Announced => (Spec => []HighestPriorityRuns)
<1>. SUFFICES ASSUME Delaying \subseteq Announced
              PROVE  Spec => []HighestPriorityRuns
  OBVIOUS
<1>1. Sane /\ Settled => HighestPriorityRuns
  BY RunnerIsReady DEF HighestPriorityRuns, OwesSched
<1>. QED  BY <1>1, AlwaysSettled, PTL
-----------------------------------------------------------------------------
(****************************************************************************)
(* OSQPend, OSQPost and the tick's time-outs: no message is lost, doubled   *)
(* or invented.  A receiver between its wait and its return is in exactly   *)
(* one of three situations: it waits, it holds a message, or it timed out   *)
(* and is still in the wait list, where a post may yet find it.             *)
(* That a receiver returns only in the last two needs the scheduler: a task *)
(* that executes is ready (TaskAlone, RunnerIsReady).                       *)
(****************************************************************************)
Waits == {"pendSched", "pendEnd"}

Holds(t) == /\ pc[t] \in Waits /\ t \notin OSEventTbl
            /\ OSTCBStatPend[t] = "ok" /\ t \in OSRdyTbl /\ OSTCBDly[t] = 0
Listed(t) == /\ pc[t] \in Waits
             /\ t \in OSRdyTbl => OSTCBStatPend[t] = "timeout" /\ OSTCBDly[t] = 0
             /\ t \notin OSRdyTbl => OSTCBStatPend[t] = "ok" /\ OSTCBStat[t] = "q"

MailPlaces ==
  /\ \A t \in OSTCBMsg : Holds(t)
  /\ \A t \in OSEventTbl : Listed(t)
  /\ \A t \in Tasks : pc[t] \in Waits => t \in OSTCBMsg \/ t \in OSEventTbl

MailOK == MailPlaces /\ MailConserved
-----------------------------------------------------------------------------
LEMMA TasksFinite == IsFiniteSet(Tasks)
BY FS_BoundedSetOfNaturals, UcosAssumption

LEMMA MailTypes ==
  ASSUME IInv
  PROVE  /\ IsFiniteSet(OSTCBMsg) /\ OSTCBMsg \subseteq Tasks /\ OSEventTbl \subseteq Tasks
         /\ OSRdyTbl \subseteq Tasks
         /\ Cardinality(OSTCBMsg) \in Nat /\ posted \in Nat /\ got \in Nat /\ OSQEntries \in Nat
         /\ pc \in [Tasks \cup Handlers -> TaskLabels \cup HandlerLabels]
         /\ OSTCBDly \in [Tasks -> 0 .. MaxDly]
         /\ OSTCBStat \in [Tasks -> {"rdy", "q"}]
         /\ OSTCBStatPend \in [Tasks -> {"ok", "timeout"}]
<1>1. OSTCBMsg \subseteq Tasks
  BY DEF IInv, TypeOK
<1>2. IsFiniteSet(OSTCBMsg)
  BY <1>1, TasksFinite, FS_Subset
<1>. QED  BY <1>1, <1>2, FS_CardinalityType, UcosAssumption DEF IInv, TypeOK

(* A step that leaves the queue alone, and every waiting task where it is.  *)
LEMMA MailStill ==
  ASSUME IInv, MailOK, UNCHANGED events,
         \A t \in Tasks : /\ pc'[t] \in Waits <=> pc[t] \in Waits
                          /\ pc[t] \in Waits => (t \in OSRdyTbl' <=> t \in OSRdyTbl)
                          /\ pc[t] \in Waits => OSTCBDly'[t] = OSTCBDly[t]
  PROVE  MailOK'
<1>1. MailConserved'
  BY DEF MailOK, MailConserved, events
<1>2. MailPlaces'
  BY MailTypes DEF MailOK, MailPlaces, Holds, Listed, events
<1>. QED  BY <1>1, <1>2 DEF MailOK

(* The same, for a step that moves w and changes neither list nor delays.   *)
LEMMA MailMove ==
  ASSUME IInv, MailOK, UNCHANGED <<events, OSRdyTbl, OSTCBDly>>,
         NEW w \in Tasks \cup Handlers, NEW l, Goto(w, l),
         w \in Handlers \/ (l \in Waits <=> pc[w] \in Waits)
  PROVE  MailOK'
<1>1. \A t \in Tasks : pc'[t] \in Waits <=> pc[t] \in Waits
  BY MailTypes, Disjoint DEF Goto
<1>. QED  BY <1>1, MailStill

(* OSQPost finds a task in the wait list, timed out or not, ...             *)
LEMMA MailPostDirect ==
  ASSUME IInv, MailOK, NEW w \in Tasks \cup Handlers, OSQPostDirect(w)
  PROVE  MailOK'
<1>1. Highest(OSEventTbl) \in OSEventTbl /\ Highest(OSEventTbl) \in Tasks
  BY MailTypes, HighestIsLeast, UcosAssumption DEF OSQPostDirect
<1>2. PICK t \in Tasks :
      /\ t \in OSEventTbl
      /\ OSTCBDly' = [OSTCBDly EXCEPT ![t] = 0]
      /\ OSTCBMsg' = OSTCBMsg \cup {t}
      /\ OSTCBStat' = [OSTCBStat EXCEPT ![t] = "rdy"]
      /\ OSTCBStatPend' = [OSTCBStatPend EXCEPT ![t] = "ok"]
      /\ OSRdyTbl' = OSRdyTbl \cup {t}
      /\ OSEventTbl' = OSEventTbl \ {t}
      /\ posted' = posted + 1
      /\ UNCHANGED <<OSQEntries, got>>
      /\ pc' = [pc EXCEPT ![w] = "sched"] /\ pc[w] = "run"
  BY <1>1 DEF OSQPostDirect, Goto, At
<1>3. Listed(t) /\ t \notin OSTCBMsg
  BY <1>2 DEF MailOK, MailPlaces, Holds
<1>4. MailConserved'
  <2>1. Cardinality(OSTCBMsg') = Cardinality(OSTCBMsg) + 1
    BY <1>2, <1>3, MailTypes, FS_AddElement
  <2>. QED  BY <1>2, <2>1, MailTypes DEF MailOK, MailConserved
<1>5. \A u \in Tasks : pc'[u] \in Waits <=> pc[u] \in Waits
  BY <1>2, MailTypes DEF Waits
<1>6. Holds(t)'
  BY <1>2, <1>3, <1>5, MailTypes DEF Holds, Listed
<1>7. \A u \in OSTCBMsg : Holds(u)'
  <2>. SUFFICES ASSUME NEW u \in OSTCBMsg PROVE Holds(u)'
    OBVIOUS
  <2>1. Holds(u) /\ u # t /\ u \in Tasks
    BY <1>3, MailTypes DEF MailOK, MailPlaces
  <2>. QED  BY <1>2, <1>5, <2>1, MailTypes DEF Holds
<1>8. \A u \in OSEventTbl' : Listed(u)'
  <2>. SUFFICES ASSUME NEW u \in OSEventTbl' PROVE Listed(u)'
    OBVIOUS
  <2>1. Listed(u) /\ u # t /\ u \in Tasks
    BY <1>2, MailTypes DEF MailOK, MailPlaces
  <2>. QED  BY <1>2, <1>5, <2>1, MailTypes DEF Listed
<1>9. \A u \in Tasks : pc'[u] \in Waits => u \in OSTCBMsg' \/ u \in OSEventTbl'
  BY <1>2, <1>5 DEF MailOK, MailPlaces
<1>. QED  BY <1>2, <1>4, <1>6, <1>7, <1>8, <1>9 DEF MailOK, MailPlaces

(* ... or leaves the message in the queue, where OSQPend may find it.       *)
LEMMA MailQueue ==
  ASSUME IInv, MailOK, NEW w, OSQPostQueue(w) \/ OSQPendTake(w)
  PROVE  MailOK'
<1>1. MailConserved'
  BY MailTypes DEF OSQPostQueue, OSQPendTake, MailOK, MailConserved
<1>2. MailPlaces'
  BY DEF OSQPostQueue, OSQPendTake, MailOK, MailPlaces, Holds, Listed
<1>. QED  BY <1>1, <1>2 DEF MailOK

LEMMA MailPendWait ==
  ASSUME IInv, MailOK, NEW t \in Tasks, OSQPendWait(t)
  PROVE  MailOK'
<1>1. /\ pc[t] = "run" /\ pc' = [pc EXCEPT ![t] = "pendSched"]
      /\ OSTCBStat' = [OSTCBStat EXCEPT ![t] = "q"]
      /\ OSTCBStatPend' = [OSTCBStatPend EXCEPT ![t] = "ok"]
      /\ OSEventTbl' = OSEventTbl \cup {t} /\ OSRdyTbl' = OSRdyTbl \ {t}
      /\ \E n \in 0 .. MaxDly : OSTCBDly' = [OSTCBDly EXCEPT ![t] = n]
      /\ UNCHANGED <<OSTCBMsg, OSQEntries, posted, got>>
  BY DEF OSQPendWait, Goto, At
<1>2. t \notin OSTCBMsg /\ t \notin OSEventTbl
  BY <1>1 DEF MailOK, MailPlaces, Holds, Listed, Waits
<1>3. MailConserved'
  BY <1>1 DEF MailOK, MailConserved
<1>4. Listed(t)'
  BY <1>1, MailTypes DEF Listed, Waits
<1>5. ASSUME NEW u \in Tasks \ {t}
      PROVE  /\ Holds(u) => Holds(u)'
             /\ Listed(u) => Listed(u)'
             /\ pc'[u] = pc[u]
  BY <1>1, <1>5, MailTypes DEF Holds, Listed
<1>6. MailPlaces'
  BY <1>1, <1>2, <1>4, <1>5, MailTypes DEF MailOK, MailPlaces
<1>. QED  BY <1>3, <1>6 DEF MailOK

(* A receiver that returns is ready, hence holds a message or timed out.    *)
LEMMA MailPendEnd ==
  ASSUME Sane, Settled, MailOK, NEW t \in Tasks, OSQPendEnd(t)
  PROVE  MailOK'
<1>0. IInv
  BY DEF Sane
<1>1. /\ pc[t] = "pendEnd" /\ pc' = [pc EXCEPT ![t] = "run"] /\ Running(t)
      /\ got' = IF OSTCBStatPend[t] = "ok" THEN got + 1 ELSE got
      /\ OSEventTbl' = IF OSTCBStatPend[t] = "ok" THEN OSEventTbl ELSE OSEventTbl \ {t}
      /\ OSTCBStat' = [OSTCBStat EXCEPT ![t] = "rdy"]
      /\ OSTCBStatPend' = [OSTCBStatPend EXCEPT ![t] = "ok"]
      /\ OSTCBMsg' = OSTCBMsg \ {t}
      /\ UNCHANGED <<OSRdyTbl, OSTCBDly, OSQEntries, posted>>
  BY DEF OSQPendEnd, Goto, At
<1>2. t \in OSRdyTbl
  <2>1. t = OSPrioCur /\ ~PendSV /\ isr = <<>> /\ OSLockNesting = 0
    BY <1>1, TaskAlone, TaskUnlocked
  <2>2. pc[OSPrioCur] \notin OwesSched
    BY <1>1, <2>1 DEF OwesSched
  <2>. QED  BY <2>1, <2>2, RunnerIsReady
<1>3. \/ t \in OSTCBMsg /\ OSTCBStatPend[t] = "ok" /\ t \notin OSEventTbl
      \/ t \notin OSTCBMsg /\ OSTCBStatPend[t] = "timeout"
  BY <1>1, <1>2 DEF MailOK, MailPlaces, Holds, Listed, Waits
<1>4. MailConserved'
  <2>1. CASE t \in OSTCBMsg
    <3>1. Cardinality(OSTCBMsg') = Cardinality(OSTCBMsg) - 1
      BY <1>0, <1>1, <2>1, MailTypes, FS_RemoveElement
    <3>. QED  BY <1>0, <1>1, <1>3, <2>1, <3>1, MailTypes DEF MailOK, MailConserved
  <2>2. CASE t \notin OSTCBMsg
    <3>1. OSTCBMsg' = OSTCBMsg
      BY <1>1, <2>2
    <3>. QED  BY <1>1, <1>3, <2>2, <3>1 DEF MailOK, MailConserved
  <2>. QED  BY <2>1, <2>2
<1>5. t \notin OSTCBMsg' /\ t \notin OSEventTbl'
  BY <1>1, <1>3
<1>6. ASSUME NEW u \in Tasks \ {t}
      PROVE  /\ Holds(u) => Holds(u)'
             /\ Listed(u) => Listed(u)'
             /\ pc'[u] = pc[u]
             /\ u \in OSEventTbl' <=> u \in OSEventTbl
             /\ u \in OSTCBMsg' <=> u \in OSTCBMsg
  BY <1>0, <1>1, <1>6, MailTypes DEF Holds, Listed
<1>7. pc'[t] \notin Waits
  BY <1>0, <1>1, MailTypes DEF Waits
<1>8. MailPlaces'
  <2>1. OSTCBMsg' \subseteq Tasks \ {t} /\ OSEventTbl' \subseteq Tasks \ {t}
    BY <1>0, <1>1, <1>5, MailTypes
  <2>. QED  BY <1>5, <1>6, <1>7, <2>1 DEF MailOK, MailPlaces
<1>. QED  BY <1>4, <1>8 DEF MailOK

(* The tick times out who waits; who holds a message has no delay left.     *)
LEMMA MailTick ==
  ASSUME IInv, MailOK, SysTick_Handler
  PROVE  MailOK'
<1>1. /\ \A t \in Tasks : OSTCBDly'[t] = IF t # Idle /\ OSTCBDly[t] > 0
                                        THEN OSTCBDly[t] - 1 ELSE OSTCBDly[t]
      /\ \A t \in Tasks : OSTCBStat'[t] = IF Due(t) THEN "rdy" ELSE OSTCBStat[t]
      /\ \A t \in Tasks : OSTCBStatPend'[t] =
           IF Due(t) THEN IF OSTCBStat[t] = "q" THEN "timeout" ELSE "ok" ELSE OSTCBStatPend[t]
      /\ \A t \in Tasks : t \in OSRdyTbl' <=> t \in OSRdyTbl \/ Due(t)
      /\ UNCHANGED <<OSTCBMsg, OSEventTbl, OSQEntries, posted, got, pc>>
  BY DEF SysTick_Handler
<1>2. MailConserved'
  BY <1>1 DEF MailOK, MailConserved
<1>3. ASSUME NEW t \in Tasks, Holds(t) PROVE Holds(t)'
  BY <1>1, <1>3, MailTypes DEF Holds, Due
<1>4. ASSUME NEW t \in Tasks, Listed(t) PROVE Listed(t)'
  BY <1>1, <1>4, MailTypes DEF Listed, Due
<1>5. MailPlaces'
  BY <1>1, <1>3, <1>4, MailTypes DEF MailOK, MailPlaces
<1>. QED  BY <1>2, <1>5 DEF MailOK

(* delay_ms puts off the current task, which is not waiting for mail. *)
LEMMA MailDelay ==
  ASSUME Sane, Settled, MailOK, Delaying \subseteq Announced,
         NEW w \in Tasks \cup Handlers, DelayMs(w)
  PROVE  MailOK'
<1>0. IInv
  BY DEF Sane
<1>1. /\ UNCHANGED events /\ pc[w] = "run"
      /\ \/ /\ OSIntNesting = 0 /\ Goto(w, "dlySched")
            /\ OSRdyTbl' = OSRdyTbl \ {OSPrioCur}
            /\ \E n \in 0 .. MaxDly : OSTCBDly' = [OSTCBDly EXCEPT ![OSPrioCur] = n]
         \/ Goto(w, "lock") /\ UNCHANGED <<OSRdyTbl, OSTCBDly>>
  BY DEF DelayMs, At
<1>2. CASE Goto(w, "lock") /\ UNCHANGED <<OSRdyTbl, OSTCBDly>>
  BY <1>0, <1>1, <1>2, MailMove DEF Waits
<1>3. CASE /\ OSIntNesting = 0 /\ Goto(w, "dlySched")
           /\ OSRdyTbl' = OSRdyTbl \ {OSPrioCur}
           /\ \E n \in 0 .. MaxDly : OSTCBDly' = [OSTCBDly EXCEPT ![OSPrioCur] = n]
  <2>1. w \in Tasks /\ w = OSPrioCur
    BY <1>0, <1>3, OnlyTasksBlock DEF DelayMs
  <2>2. \A t \in Tasks : pc'[t] \in Waits <=> pc[t] \in Waits
    BY <1>0, <1>1, <1>3, MailTypes DEF Goto, Waits
  <2>3. \A t \in Tasks : pc[t] \in Waits => t # OSPrioCur
    BY <1>1, <2>1 DEF Waits
  <2>4. \A t \in Tasks : pc[t] \in Waits =>
          (t \in OSRdyTbl' <=> t \in OSRdyTbl) /\ OSTCBDly'[t] = OSTCBDly[t]
    BY <1>0, <1>3, <2>3, MailTypes
  <2>. QED  BY <1>0, <1>1, <2>2, <2>4, MailStill
<1>. QED  BY <1>1, <1>2, <1>3

LEMMA MailService ==
  ASSUME Sane, Settled, MailOK, Delaying \subseteq Announced,
         NEW w \in Tasks \cup Handlers, Service(w)
  PROVE  MailOK'
<1>0. IInv
  BY DEF Sane
<1>1. CASE DelayMs(w)
  BY <1>1, MailDelay
<1>2. CASE OSSchedLock(w)
  BY <1>0, <1>2, MailMove DEF OSSchedLock, At, Waits
<1>3. CASE OSSchedUnlock(w)
  BY <1>0, <1>3, MailMove DEF OSSchedUnlock, At, Waits
<1>4. CASE OS_Sched(w)
  <2>1. AfterSched[pc[w]] \in Waits <=> pc[w] \in Waits
    BY <1>4 DEF OS_Sched, AfterSched, Waits
  <2>. QED  BY <1>0, <1>4, <2>1, MailMove DEF OS_Sched
<1>5. CASE OSQPostDirect(w)
  BY <1>0, <1>5, MailPostDirect
<1>6. CASE OSQPostQueue(w)
  BY <1>0, <1>6, MailQueue
<1>. QED  BY <1>1, <1>2, <1>3, <1>4, <1>5, <1>6 DEF Service

LEMMA NextMail ==
  ASSUME Sane, Settled, MailOK, Delaying \subseteq Announced, [Next]_vars
  PROVE  MailOK'
<1>0. IInv
  BY DEF Sane
<1>1. ASSUME NEW t \in Tasks, TaskStep(t) PROVE MailOK'
  BY <1>0, <1>1, MailService, MailQueue, MailPendWait, MailPendEnd DEF TaskStep
<1>2. ASSUME NEW h \in Handlers, Interrupt(h) \/ HandlerStep(h) PROVE MailOK'
  <2>1. CASE Service(h)
    BY <2>1, MailService
  <2>2. CASE Interrupt(h) \/ OSIntEnter(h) \/ OSIntExit(h) \/ Return(h)
    <3>1. /\ \E l \in {"enter", "run", "leave", "off"} : Goto(h, l)
          /\ UNCHANGED <<events, OSRdyTbl, OSTCBDly>>
      BY <2>2 DEF Interrupt, OSIntEnter, OSIntExit, Return
    <3>. QED  BY <1>0, <3>1, MailMove
  <2>. QED  BY <1>2, <2>1, <2>2 DEF HandlerStep
<1>3. CASE SysTick_Handler
  BY <1>0, <1>3, MailTick
<1>4. CASE PendSV_Handler \/ UNCHANGED vars
  <2>1. UNCHANGED <<events, OSRdyTbl, OSTCBDly, pc>>
    BY <1>4 DEF PendSV_Handler, vars
  <2>. QED  BY <1>0, <2>1, MailStill
<1>. QED  BY <1>1, <1>2, <1>3, <1>4 DEF Next

LEMMA AlwaysMail ==
  Delaying \subseteq Announced => (Spec => [](Sane /\ Settled /\ MailOK))
<1>. SUFFICES ASSUME Delaying \subseteq Announced
              PROVE  Spec => [](Sane /\ Settled /\ MailOK)
  OBVIOUS
<1>1. Init => MailOK
  <2>. SUFFICES ASSUME Init PROVE MailOK
    OBVIOUS
  <2>1. MailConserved
    BY FS_EmptySet DEF Init, MailConserved
  <2>2. MailPlaces
    BY DEF Init, MailPlaces, Waits
  <2>. QED  BY <2>1, <2>2 DEF MailOK
<1>2. (Sane /\ Settled /\ MailOK) /\ [Next]_vars => (Sane /\ Settled /\ MailOK)'
  BY NextSettled, NextMail
<1>. QED  BY <1>1, <1>2, InitSettled, PTL DEF Spec

(* Whatever races the tick's time-out and a post run, a message OSQPost     *)
(* accepted is queued, held by one task or returned by OSQPend, once.       *)
THEOREM NoMailLost ==
  Delaying \subseteq Announced => (Spec => []MailConserved)
<1>. SUFFICES ASSUME Delaying \subseteq Announced
              PROVE  Spec => []MailConserved
  OBVIOUS
<1>1. MailOK => MailConserved
  BY DEF MailOK
<1>. QED  BY <1>1, AlwaysMail, PTL

(* A task that comes back from its wait was given a message or timed out.   *)
THEOREM OneReasonToWake ==
  Delaying \subseteq Announced => (Spec => []WakesForOneReason)
<1>. SUFFICES ASSUME Delaying \subseteq Announced
              PROVE  Spec => []WakesForOneReason
  OBVIOUS
<1>1. IInv /\ MailOK => WakesForOneReason
  BY MailTypes DEF MailOK, MailPlaces, Holds, Listed, WakesForOneReason, Waits
<1>2. Sane => IInv
  BY DEF Sane
<1>. QED  BY <1>1, <1>2, AlwaysMail, PTL
=============================================================================
