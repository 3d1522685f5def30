------------------------------ MODULE UcosSched ------------------------------
(****************************************************************************)
(* The uC/OS-II scheduler as the robot uses it: task delays and delay_ms    *)
(* (SYSTEM/delay/delay.c), one message queue (the lwIP mailboxes), the tick *)
(* and interrupt handlers that nest, announced to the kernel or not.        *)
(* SysTick_Handler, USART1_IRQHandler call OSIntEnter and OSIntExit; the    *)
(* handlers of USART2, USART3, USART6, TIM7 and ETH do not ("bare").        *)
(*                                                                          *)
(* A critical section is one step; an interrupt may come between any two.   *)
(* A context switch is the PendSV exception, less urgent than all others.   *)
(* Tasks are named by their priorities.                                     *)
(****************************************************************************)
EXTENDS Integers, Sequences, FiniteSets

CONSTANTS Tasks, Idle,      \* priorities; the idle task's is the largest
          Receivers,        \* tasks that pend on the queue
          Posters,          \* tasks and handlers that post to it
          Handlers,         \* interrupt handlers other than SysTick
          Announced,        \* those that call OSIntEnter and OSIntExit
          Delaying,         \* those that call MessageHandle, hence delay_ms
          Level,            \* handler -> preemption priority, 0 most urgent
          QSize,            \* OSQSize
          MaxDly,           \* bound: ticks of a delay or a timeout
          MaxPosts          \* bound: messages posted

NoTask == 0    \* OSPrioHighRdy when no bit of OSRdyTbl is set (OSUnMapTbl[0])

ASSUME UcosAssumption ==
  /\ Tasks \subseteq Nat \ {0} /\ Idle \in Tasks /\ \A t \in Tasks : t <= Idle
  /\ Receivers \subseteq Tasks \ {Idle} /\ Posters \subseteq (Tasks \ {Idle}) \cup Handlers
  /\ Announced \subseteq Handlers /\ Delaying \subseteq Handlers
  /\ Handlers \cap Nat = {} /\ IsFiniteSet(Handlers) /\ Level \in [Handlers -> Nat]
  /\ QSize \in Nat /\ MaxDly \in Nat \ {0} /\ MaxPosts \in Nat

VARIABLES
  OSRdyTbl,        \* set of ready tasks
  OSTCBDly,        \* task -> ticks left
  OSTCBStat,       \* task -> "rdy" or "q"
  OSTCBStatPend,   \* task -> "ok" or "timeout"
  OSTCBMsg,        \* tasks that hold a message posted directly to them
  OSEventTbl,      \* tasks in the queue's wait list
  OSQEntries,
  OSPrioCur,       \* the task that runs, or was interrupted
  OSPrioHighRdy,
  PendSV,          \* the exception is pending
  OSIntNesting, OSLockNesting,
  isr,             \* active handlers, the running one first
  pc,              \* where each task and handler is
  posted, got      \* messages accepted by OSQPost, returned by OSQPend

events == <<OSTCBStat, OSTCBStatPend, OSTCBMsg, OSEventTbl, OSQEntries, posted, got>>
switch == <<OSPrioHighRdy, PendSV>>
nesting == <<OSIntNesting, OSLockNesting>>
vars == <<OSRdyTbl, OSTCBDly, events, OSPrioCur, switch, nesting, isr, pc>>

Highest(S) == IF S = {} THEN NoTask ELSE CHOOSE t \in S : \A u \in S : t <= u

Init ==
  /\ OSRdyTbl = Tasks
  /\ OSTCBDly = [t \in Tasks |-> 0]
  /\ OSTCBStat = [t \in Tasks |-> "rdy"] /\ OSTCBStatPend = [t \in Tasks |-> "ok"]
  /\ OSTCBMsg = {} /\ OSEventTbl = {} /\ OSQEntries = 0
  /\ OSPrioCur = Highest(Tasks) /\ OSPrioHighRdy = Highest(Tasks) /\ PendSV = FALSE
  /\ OSIntNesting = 0 /\ OSLockNesting = 0
  /\ isr = <<>>
  /\ pc = [w \in Tasks \cup Handlers |-> IF w \in Tasks THEN "run" ELSE "off"]
  /\ posted = 0 /\ got = 0

(* The CPU executes the innermost handler, else the current task once no    *)
(* PendSV is pending.                                                       *)
Running(w) == IF isr = <<>> THEN ~PendSV /\ w = OSPrioCur ELSE w = Head(isr)
At(w, l) == Running(w) /\ pc[w] = l
Goto(w, l) == pc' = [pc EXCEPT ![w] = l]

(* OS_SchedNew and the request for a switch, when the ready tasks are S.    *)
SchedNew(S) ==
  /\ OSPrioHighRdy' = Highest(S)
  /\ PendSV' = (PendSV \/ Highest(S) # OSPrioCur)
-----------------------------------------------------------------------------
(* Tasks, and handlers that call kernel services                            *)

MayDelay(w) == w \in (Tasks \ {Idle}) \cup Delaying

DelayMsAnywhere(w) ==      \* slip: delay_ms and OSTimeDly ignore OSIntNesting
  /\ At(w, "run") /\ MayDelay(w)
  /\ \E n \in 1 .. MaxDly :
       /\ OSLockNesting = 0
       /\ OSRdyTbl' = OSRdyTbl \ {OSPrioCur}
       /\ OSTCBDly' = [OSTCBDly EXCEPT ![OSPrioCur] = n]
       /\ Goto(w, "dlySched")
  /\ UNCHANGED <<events, OSPrioCur, switch, nesting, isr>>

(* delay_ms: OSTimeDly for the whole ticks (none in an announced handler,   *)
(* or for less than a tick), then delay_us for the rest.  OSTimeDly puts    *)
(* off the current task, whoever calls; a locked scheduler makes it return. *)
DelayMs(w) ==
  /\ At(w, "run") /\ MayDelay(w)
  /\ \E n \in 0 .. MaxDly :
       IF n > 0 /\ OSIntNesting = 0 /\ OSLockNesting = 0
       THEN /\ OSRdyTbl' = OSRdyTbl \ {OSPrioCur}
            /\ OSTCBDly' = [OSTCBDly EXCEPT ![OSPrioCur] = n]
            /\ Goto(w, "dlySched")
       ELSE Goto(w, "lock") /\ UNCHANGED <<OSRdyTbl, OSTCBDly>>
  /\ UNCHANGED <<events, OSPrioCur, switch, nesting, isr>>

OSSchedLock(w) ==          \* delay_us begins
  /\ At(w, "lock") /\ Goto(w, "busy")
  /\ OSLockNesting' = IF OSIntNesting = 0 THEN OSLockNesting + 1 ELSE OSLockNesting
  /\ UNCHANGED <<OSRdyTbl, OSTCBDly, events, OSPrioCur, switch, OSIntNesting, isr>>

UnlockUnchecked(w) ==      \* slip: decrements a count of zero
  /\ At(w, "busy")
  /\ OSLockNesting' = OSLockNesting - 1
  /\ Goto(w, IF OSLockNesting = 1 /\ OSIntNesting = 0 THEN "sched" ELSE "run")
  /\ UNCHANGED <<OSRdyTbl, OSTCBDly, events, OSPrioCur, switch, OSIntNesting, isr>>

UnlockNoSched(w) ==        \* slip: the last unlock does not reschedule
  /\ At(w, "busy") /\ Goto(w, "run")
  /\ OSLockNesting' = IF OSLockNesting > 0 THEN OSLockNesting - 1 ELSE 0
  /\ UNCHANGED <<OSRdyTbl, OSTCBDly, events, OSPrioCur, switch, OSIntNesting, isr>>

OSSchedUnlock(w) ==        \* delay_us ends
  /\ At(w, "busy")
  /\ OSLockNesting' = IF OSLockNesting > 0 THEN OSLockNesting - 1 ELSE 0
  /\ Goto(w, IF OSLockNesting = 1 /\ OSIntNesting = 0 THEN "sched" ELSE "run")
  /\ UNCHANGED <<OSRdyTbl, OSTCBDly, events, OSPrioCur, switch, OSIntNesting, isr>>

(* OS_Sched, at the end of OSTimeDly, OSQPend, OSQPost and OSSchedUnlock.   *)
AfterSched == [dlySched |-> "lock", pendSched |-> "pendEnd", sched |-> "run"]
OS_Sched(w) ==
  /\ Running(w) /\ pc[w] \in DOMAIN AfterSched
  /\ IF OSIntNesting = 0 /\ OSLockNesting = 0 THEN SchedNew(OSRdyTbl) ELSE UNCHANGED switch
  /\ Goto(w, AfterSched[pc[w]])
  /\ UNCHANGED <<OSRdyTbl, OSTCBDly, events, OSPrioCur, nesting, isr>>

(* OSQPend takes a queued message ...                                       *)
OSQPendTake(t) ==
  /\ At(t, "run") /\ t \in Receivers /\ OSLockNesting = 0 /\ OSQEntries > 0
  /\ OSQEntries' = OSQEntries - 1 /\ got' = got + 1
  /\ UNCHANGED <<OSRdyTbl, OSTCBDly, OSTCBStat, OSTCBStatPend, OSTCBMsg, OSEventTbl,
                 posted, OSPrioCur, switch, nesting, isr, pc>>

(* ... or waits, for ever when the timeout is 0 ...                         *)
OSQPendWait(t) ==
  /\ At(t, "run") /\ t \in Receivers /\ OSLockNesting = 0 /\ OSQEntries = 0
  /\ \E timeout \in 0 .. MaxDly : OSTCBDly' = [OSTCBDly EXCEPT ![t] = timeout]
  /\ OSTCBStat' = [OSTCBStat EXCEPT ![t] = "q"]
  /\ OSTCBStatPend' = [OSTCBStatPend EXCEPT ![t] = "ok"]
  /\ OSEventTbl' = OSEventTbl \cup {t}
  /\ OSRdyTbl' = OSRdyTbl \ {t}
  /\ Goto(t, "pendSched")
  /\ UNCHANGED <<OSTCBMsg, OSQEntries, posted, got, OSPrioCur, switch, nesting, isr>>

PendEndStays(t) ==         \* slip: a timeout leaves the task in the wait list
  /\ At(t, "pendEnd") /\ Goto(t, "run")
  /\ got' = IF OSTCBStatPend[t] = "ok" THEN got + 1 ELSE got
  /\ OSTCBStat' = [OSTCBStat EXCEPT ![t] = "rdy"]
  /\ OSTCBStatPend' = [OSTCBStatPend EXCEPT ![t] = "ok"]
  /\ OSTCBMsg' = OSTCBMsg \ {t}
  /\ UNCHANGED <<OSRdyTbl, OSTCBDly, OSEventTbl, OSQEntries, posted, OSPrioCur, switch, nesting, isr>>

(* ... and looks why it runs again.                                         *)
OSQPendEnd(t) ==
  /\ At(t, "pendEnd") /\ Goto(t, "run")
  /\ got' = IF OSTCBStatPend[t] = "ok" THEN got + 1 ELSE got
  /\ OSEventTbl' = IF OSTCBStatPend[t] = "ok" THEN OSEventTbl ELSE OSEventTbl \ {t}
  /\ OSTCBStat' = [OSTCBStat EXCEPT ![t] = "rdy"]
  /\ OSTCBStatPend' = [OSTCBStatPend EXCEPT ![t] = "ok"]
  /\ OSTCBMsg' = OSTCBMsg \ {t}
  /\ UNCHANGED <<OSRdyTbl, OSTCBDly, OSQEntries, posted, OSPrioCur, switch, nesting, isr>>

PostNotReady(w) ==         \* slip: the receiver is not put on the ready list
  /\ At(w, "run") /\ w \in Posters /\ posted < MaxPosts /\ OSEventTbl # {}
  /\ LET t == Highest(OSEventTbl)
     IN /\ OSTCBDly' = [OSTCBDly EXCEPT ![t] = 0]
        /\ OSTCBMsg' = OSTCBMsg \cup {t}
        /\ OSTCBStat' = [OSTCBStat EXCEPT ![t] = "rdy"]
        /\ OSTCBStatPend' = [OSTCBStatPend EXCEPT ![t] = "ok"]
        /\ OSEventTbl' = OSEventTbl \ {t}
  /\ posted' = posted + 1
  /\ Goto(w, "sched")
  /\ UNCHANGED <<OSRdyTbl, OSQEntries, got, OSPrioCur, switch, nesting, isr>>

(* OSQPost hands the message to the most urgent waiting task                *)
(* (OS_EventTaskRdy) ...                                                    *)
OSQPostDirect(w) ==
  /\ At(w, "run") /\ w \in Posters /\ posted < MaxPosts /\ OSEventTbl # {}
  /\ LET t == Highest(OSEventTbl)
     IN /\ OSTCBDly' = [OSTCBDly EXCEPT ![t] = 0]
        /\ OSTCBMsg' = OSTCBMsg \cup {t}
        /\ OSTCBStat' = [OSTCBStat EXCEPT ![t] = "rdy"]
        /\ OSTCBStatPend' = [OSTCBStatPend EXCEPT ![t] = "ok"]
        /\ OSRdyTbl' = OSRdyTbl \cup {t}
        /\ OSEventTbl' = OSEventTbl \ {t}
  /\ posted' = posted + 1
  /\ Goto(w, "sched")
  /\ UNCHANGED <<OSQEntries, got, OSPrioCur, switch, nesting, isr>>

(* ... or queues it; a full queue refuses it, which changes nothing.        *)
OSQPostQueue(w) ==
  /\ At(w, "run") /\ w \in Posters /\ posted < MaxPosts
  /\ OSEventTbl = {} /\ OSQEntries < QSize
  /\ OSQEntries' = OSQEntries + 1 /\ posted' = posted + 1
  /\ UNCHANGED <<OSRdyTbl, OSTCBDly, OSTCBStat, OSTCBStatPend, OSTCBMsg, OSEventTbl,
                 got, OSPrioCur, switch, nesting, isr, pc>>
-----------------------------------------------------------------------------
(* Exceptions                                                               *)

Interruptible(l) == IF isr = <<>> THEN TRUE ELSE l < Level[Head(isr)]

DueOnlyPending(t) ==       \* slip: the bit is set inside "if pending"
  t # Idle /\ OSTCBDly[t] = 1 /\ OSTCBStat[t] = "q"

Due(t) == t # Idle /\ OSTCBDly[t] = 1

TickTimesOutAsOk ==        \* slip: OSTimeTick does not note the timeout
  /\ Interruptible(0)
  /\ OSTCBDly' = [t \in Tasks |-> IF t # Idle /\ OSTCBDly[t] > 0 THEN OSTCBDly[t] - 1 ELSE OSTCBDly[t]]
  /\ OSTCBStat' = [t \in Tasks |-> IF Due(t) THEN "rdy" ELSE OSTCBStat[t]]
  /\ OSRdyTbl' = OSRdyTbl \cup {t \in Tasks : Due(t)}
  /\ IF OSIntNesting = 0 /\ OSLockNesting = 0 THEN SchedNew(OSRdyTbl') ELSE UNCHANGED switch
  /\ UNCHANGED <<OSTCBStatPend, OSTCBMsg, OSEventTbl, OSQEntries, posted, got, OSPrioCur, nesting, isr, pc>>

(* SysTick_Handler: OSIntEnter, OSTimeTick (whose walk over the tasks ends  *)
(* at the idle task), OSIntExit.  No other exception preempts it.           *)
SysTick_Handler ==
  /\ Interruptible(0)
  /\ OSTCBDly' = [t \in Tasks |-> IF t # Idle /\ OSTCBDly[t] > 0 THEN OSTCBDly[t] - 1 ELSE OSTCBDly[t]]
  /\ OSTCBStat' = [t \in Tasks |-> IF Due(t) THEN "rdy" ELSE OSTCBStat[t]]
  /\ OSTCBStatPend' = [t \in Tasks |->
       IF Due(t) THEN IF OSTCBStat[t] = "q" THEN "timeout" ELSE "ok" ELSE OSTCBStatPend[t]]
  /\ OSRdyTbl' = OSRdyTbl \cup {t \in Tasks : Due(t)}
  /\ IF OSIntNesting = 0 /\ OSLockNesting = 0 THEN SchedNew(OSRdyTbl') ELSE UNCHANGED switch
  /\ UNCHANGED <<OSTCBMsg, OSEventTbl, OSQEntries, posted, got, OSPrioCur, nesting, isr, pc>>

Interrupt(h) ==            \* the hardware enters a handler
  /\ pc[h] = "off" /\ Interruptible(Level[h])
  /\ isr' = <<h>> \o isr
  /\ Goto(h, IF h \in Announced THEN "enter" ELSE "run")
  /\ UNCHANGED <<OSRdyTbl, OSTCBDly, events, OSPrioCur, switch, nesting>>

OSIntEnter(h) ==
  /\ h \in Announced /\ At(h, "enter") /\ Goto(h, "run")
  /\ OSIntNesting' = OSIntNesting + 1
  /\ UNCHANGED <<OSRdyTbl, OSTCBDly, events, OSPrioCur, switch, OSLockNesting, isr>>

OSIntExit(h) ==
  /\ h \in Announced /\ At(h, "run") /\ Goto(h, "leave")
  /\ OSIntNesting' = OSIntNesting - 1
  /\ IF OSIntNesting = 1 /\ OSLockNesting = 0 THEN SchedNew(OSRdyTbl) ELSE UNCHANGED switch
  /\ UNCHANGED <<OSRdyTbl, OSTCBDly, events, OSPrioCur, OSLockNesting, isr>>

Return(h) ==               \* the handler ends
  /\ At(h, IF h \in Announced THEN "leave" ELSE "run") /\ Goto(h, "off")
  /\ isr' = Tail(isr)
  /\ UNCHANGED <<OSRdyTbl, OSTCBDly, events, OSPrioCur, switch, nesting>>

(* The switch to OSPrioHighRdy; with NoTask the code loads the stack        *)
(* pointer through a null pointer, and no task runs any more.               *)
PendSV_Handler ==
  /\ isr = <<>> /\ PendSV
  /\ PendSV' = FALSE
  /\ OSPrioCur' = OSPrioHighRdy
  /\ UNCHANGED <<OSRdyTbl, OSTCBDly, events, OSPrioHighRdy, nesting, isr, pc>>

Service(w) ==
  \/ DelayMs(w) \/ OSSchedLock(w) \/ OSSchedUnlock(w) \/ OS_Sched(w)
  \/ OSQPostDirect(w) \/ OSQPostQueue(w)
TaskStep(t) == Service(t) \/ OSQPendTake(t) \/ OSQPendWait(t) \/ OSQPendEnd(t)
HandlerStep(h) == Service(h) \/ OSIntEnter(h) \/ OSIntExit(h) \/ Return(h)

Next ==
  \/ \E t \in Tasks : TaskStep(t)
  \/ \E h \in Handlers : Interrupt(h) \/ HandlerStep(h)
  \/ SysTick_Handler \/ PendSV_Handler

Spec == Init /\ [][Next]_vars

(* Handlers end (one handles one message, so it delays once or twice and    *)
(* leaves), and interrupts leave the CPU time for the tick, the switch and  *)
(* the tasks: a tick that is pending wins over every handler of its level,  *)
(* and bytes and packets come far apart.  The kernel is what decides which  *)
(* task runs, so only the current one is ever enabled.                      *)
Proceed(w) == OS_Sched(w) \/ OSSchedLock(w) \/ OSSchedUnlock(w)
Fairness ==
  /\ \A h \in Handlers : SF_vars(OSIntEnter(h) \/ Proceed(h)) /\ SF_vars(OSIntExit(h) \/ Return(h))
  /\ SF_vars(SysTick_Handler) /\ SF_vars(PendSV_Handler)
  /\ \A t \in Tasks : SF_vars(Proceed(t) \/ OSQPendEnd(t))

LiveSpec == Spec /\ Fairness
-----------------------------------------------------------------------------
TaskLabels == {"run", "dlySched", "lock", "busy", "sched", "pendSched", "pendEnd"}
HandlerLabels == {"off", "enter", "run", "dlySched", "lock", "busy", "sched", "leave"}

TypeOK ==
  /\ OSRdyTbl \subseteq Tasks
  /\ OSTCBDly \in [Tasks -> 0 .. MaxDly]
  /\ OSTCBStat \in [Tasks -> {"rdy", "q"}]
  /\ OSTCBStatPend \in [Tasks -> {"ok", "timeout"}]
  /\ OSTCBMsg \subseteq Tasks /\ OSEventTbl \subseteq Tasks
  /\ OSQEntries \in 0 .. QSize
  /\ OSPrioCur \in Tasks \cup {NoTask} /\ OSPrioHighRdy \in Tasks \cup {NoTask}
  /\ PendSV \in BOOLEAN
  /\ OSIntNesting \in Nat /\ OSLockNesting \in Nat
  /\ isr \in Seq(Handlers)
  /\ pc \in [Tasks \cup Handlers -> TaskLabels \cup HandlerLabels]
  /\ posted \in 0 .. MaxPosts /\ got \in Nat

(* The idle task is never put off, so OS_SchedNew always finds a task: it   *)
(* relies on that (os_core.c:1680) and tests nothing.                       *)
IdleAlwaysReady == Idle \in OSRdyTbl

(* Whenever a task executes outside the kernel with the scheduler unlocked, *)
(* it is the most urgent ready task, although a switch may have been put    *)
(* off by a nested handler, a lock or a bare handler's post.                *)
HighestPriorityRuns ==
  isr = <<>> /\ ~PendSV /\ OSLockNesting = 0 /\ OSPrioCur \in Tasks =>
    (pc[OSPrioCur] \in {"run", "lock", "busy", "pendEnd"} =>
       OSPrioCur \in OSRdyTbl /\ \A t \in OSRdyTbl : OSPrioCur <= t)

(* delay.c:53 and 134: delay_us locks the scheduler so that no other task   *)
(* runs before its loop has ended.                                          *)
DelayUsNotPreempted == \A t \in Tasks : pc[t] = "busy" => t = OSPrioCur

(* delay.c:32: nothing is scheduled in an interrupt, which delay_ms decides *)
(* by OSIntNesting; so no handler takes a task off the ready list.          *)
InterruptsBlockNoTask == [][isr # <<>> => OSRdyTbl \subseteq OSRdyTbl']_vars

(* Whatever races the tick's timeout and a post run, a message OSQPost      *)
(* accepted is queued, held by one task or returned by OSQPend, once.       *)
MailConserved == posted = OSQEntries + Cardinality(OSTCBMsg) + got

(* A task that comes back from its wait was given a message or timed out,   *)
(* never both and never neither.                                            *)
WakesForOneReason ==
  \A t \in Tasks : pc[t] = "pendEnd" /\ t \in OSRdyTbl =>
    (OSTCBStatPend[t] = "ok") = (t \in OSTCBMsg)

(* Every delay and every timed wait ends, though the tick can fall anywhere  *)
(* inside OSTimeDly, OSQPend and OSQPost.                                    *)
DelaysEnd == \A t \in Tasks : OSTCBDly[t] > 0 ~> t \in OSRdyTbl

(* The most urgent receiver gets every message handed to it, although        *)
(* handlers and locked tasks put the switch to it off.                       *)
MailIsTaken ==
  \A t \in Receivers : t = Highest(Tasks) => (t \in OSTCBMsg ~> t \notin OSTCBMsg)
=============================================================================
