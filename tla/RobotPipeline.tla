---------------------------- MODULE RobotPipeline ----------------------------
(****************************************************************************)
(* The command path of the robot: sources (interrupt handlers and tasks)    *)
(* call MessageHandle (MOTORDRIVER/message.c), which polls the three motor  *)
(* drives, answers, and turns motion commands into CAN frames on the driver *)
(* command queue DCQ; can_thread (HARDWARE/CAN/can.c) sends one frame at a  *)
(* time and reads at most one answer after each.                            *)
(*                                                                          *)
(* A call of Queue.c is one step here (InterQueueRace opens it up); between *)
(* calls a more urgent actor may run.  Time is left out: a wait ends at     *)
(* some later point.  A message MessageHandle rejects (wrong head or        *)
(* length, message.c:86) changes nothing and is not among the inputs; a bad *)
(* XOR check is only printed (message.c:99-103), so it is no input either.  *)
(****************************************************************************)
EXTENDS Integers, Sequences, FiniteSets

CONSTANTS Sources,     \* callers of MessageHandle
          Interrupts,  \* those that are interrupt handlers
          can,         \* can_thread
          Prio,        \* actor -> urgency, the smaller the more urgent
          Inputs,      \* the messages that may arrive
          MaxCount,    \* capacity of DCQ
          MaxMsgs,     \* bound: messages that arrive
          MaxLate,     \* bound: answers a drive gives later than 3 ms
          MaxLoss      \* bound: frames the bus loses

Drives == {"FRONT", "LEFT", "RIGHT"}
Cmds == {"mode", "angle", "motion", "query", "other"}   \* 0x01 0x60 0x80 0x81
RxDepth == 3                                            \* CAN receive FIFO

ASSUME PipelineAssumption ==
  /\ Interrupts \subseteq Sources /\ can \notin Sources
  /\ Prio \in [Sources \cup {can} -> Nat]
  /\ \A a, b \in Sources \cup {can} : Prio[a] = Prio[b] => a = b
  /\ Inputs \subseteq [cmd : Cmds, auto : BOOLEAN, len4 : BOOLEAN]
  /\ MaxCount \in Nat /\ MaxCount >= 6     \* what InitDriverCmdQueue enqueues
  /\ {MaxMsgs, MaxLate, MaxLoss} \subseteq Nat

VARIABLES
  booting,    \* frames InitDriver (main.c:109) has still to enqueue
  started,    \* OSStart has run: tasks are scheduled
  DCQ,        \* driver command queue, oldest first
  isAuto,
  pc,         \* source -> "idle", "enqueue", "wait", "answer", "dispatch"
  msg,        \* source -> the message it handles
  req,        \* source -> the number of that message, in order of arrival
  todo,       \* source -> frames it has still to enqueue
  polls,      \* source -> MotionFeedbackHandle calls begun for this message
  canPc,      \* "poll", "busy" (frame sent, 3 ms to wait), "sleep"
  rx,         \* CAN receive FIFO of the controller
  answers,    \* drive -> answers it has still to put on the bus
  cur,        \* drive -> the poll whose answer CruPosition/CruVelocity holds
  target,     \* drive -> the motion command it follows (0: none)
  enabled,    \* drives that were enabled
  arrived, motions, late, losses,        \* counters
  flushed,    \* DCQ has been flushed                         (history)
  overlapped, \* set points of two commands were interleaved  (history)
  lastPoll,   \* drive -> the last poll enqueued for it       (history)
  replies     \* message -> feedback messages sent for it     (history)

sources == <<pc, msg, req, todo, polls>>
bus == <<rx, answers, target, enabled>>
counters == <<arrived, motions, late, losses>>
history == <<flushed, overlapped, lastPoll, replies>>
vars == <<booting, started, DCQ, isAuto, sources, canPc, bus, cur, counters, history>>

Frame(d, o, k) == [to |-> d, op |-> o, n |-> k]
ForEach(o, k) == <<Frame("FRONT", o, k), Frame("LEFT", o, k), Frame("RIGHT", o, k)>>

(* InitDriver addresses 0x604.. and SendCan adds 0x600 once more, so these  *)
(* frames reach no drive.                                                   *)
InitDriverFrames == [i \in 1 .. 9 |-> Frame("nobody", "setup", 0)]

EnableTwoDrives == ForEach("tvel", 0) \o <<Frame("FRONT", "enable", 0), Frame("LEFT", "enable", 0)>>   \* slip

(* InitDriverCmdQueue: profile velocity for each drive, then enable.        *)
InitDriverCmds == ForEach("tvel", 0) \o ForEach("enable", 0)

Init ==
  /\ booting = InitDriverFrames /\ started = FALSE
  /\ DCQ = InitDriverCmds
  /\ isAuto = FALSE
  /\ pc = [s \in Sources |-> "idle"]
  /\ msg = [s \in Sources |-> [cmd |-> "other", auto |-> FALSE, len4 |-> FALSE]]
  /\ req = [s \in Sources |-> 0]
  /\ todo = [s \in Sources |-> <<>>]
  /\ polls = [s \in Sources |-> 0]
  /\ canPc = "poll"
  /\ rx = <<>> /\ answers = [d \in Drives |-> <<>>]
  /\ cur = [d \in Drives |-> 0]
  /\ target = [d \in Drives |-> 0] /\ enabled = {}
  /\ arrived = 0 /\ motions = 0 /\ late = 0 /\ losses = 0
  /\ flushed = FALSE /\ overlapped = FALSE
  /\ lastPoll = [d \in Drives |-> 0]
  /\ replies = [r \in 1 .. MaxMsgs |-> 0]

FlushLate(f) ==            \* slip: > for >=
  /\ DCQ' = IF Len(DCQ) > MaxCount THEN <<f>> ELSE Append(DCQ, f)
  /\ flushed' = (flushed \/ Len(DCQ) > MaxCount)

(* EnDriverCmdQueue: EnQueueinter on DCQ, which flushes when it is full.    *)
EnQueue(f) ==
  /\ DCQ' = IF Len(DCQ) >= MaxCount THEN <<f>> ELSE Append(DCQ, f)
  /\ flushed' = (flushed \/ Len(DCQ) >= MaxCount)

(* Strict preemption by priority; a task that waits or sleeps lets others   *)
(* run, an interrupt handler never does.                                    *)
Active(a) == IF a = can THEN started /\ canPc # "sleep" ELSE pc[a] \notin {"idle", "wait"}
MayRun(a) ==
  /\ a \in Interrupts \/ started
  /\ \A b \in (Sources \cup {can}) \ {a} : Active(b) => Prio[b] > Prio[a]
-----------------------------------------------------------------------------
(* main, before and at OSStart.                                             *)
BootEnqueue ==
  /\ ~started /\ booting # <<>> /\ \A s \in Sources : ~Active(s)
  /\ EnQueue(Head(booting)) /\ booting' = Tail(booting)
  /\ UNCHANGED <<started, isAuto, sources, canPc, bus, cur, counters, overlapped, lastPoll, replies>>

OSStart ==
  /\ ~started /\ booting = <<>> /\ \A s \in Sources : ~Active(s)
  /\ started' = TRUE
  /\ UNCHANGED <<booting, DCQ, isAuto, sources, canPc, bus, cur, counters, history>>

(* MessageHandle accepts a message and begins with MotionFeedbackHandle.    *)
Receive(s) ==
  /\ pc[s] = "idle" /\ MayRun(s) /\ arrived < MaxMsgs
  /\ \E m \in Inputs : msg' = [msg EXCEPT ![s] = m]
  /\ arrived' = arrived + 1
  /\ req' = [req EXCEPT ![s] = arrived + 1]
  /\ polls' = [polls EXCEPT ![s] = 1]
  /\ todo' = [todo EXCEPT ![s] = ForEach("get", arrived + 1)]
  /\ pc' = [pc EXCEPT ![s] = "enqueue"]
  /\ UNCHANGED <<booting, started, DCQ, isAuto, canPc, bus, cur, motions, late, losses, history>>

(* After the polls comes delay_ms(10): a task sleeps, an interrupt does not. *)
AfterPolls(s) == IF s \in Interrupts THEN "answer" ELSE "wait"

(* The next EnDriverCmdQueue of a sequence of three; after the set points   *)
(* MessageHandle returns.  Set points overlap when another source has begun *)
(* a motion command and not finished it.                                    *)
Enqueue(s) ==
  /\ pc[s] = "enqueue" /\ MayRun(s)
  /\ LET f == Head(todo[s])
         after == IF f.op = "set" THEN "idle" ELSE AfterPolls(s)
     IN /\ EnQueue(f)
        /\ pc' = [pc EXCEPT ![s] = IF Len(todo[s]) > 1 THEN "enqueue" ELSE after]
        /\ lastPoll' = IF f.op = "get" THEN [lastPoll EXCEPT ![f.to] = f.n] ELSE lastPoll
        /\ overlapped' = (overlapped \/
             (f.op = "set" /\ \E r \in Sources \ {s} : todo[r] # <<>> /\ Head(todo[r]).op = "set"))
  /\ todo' = [todo EXCEPT ![s] = Tail(@)]
  /\ UNCHANGED <<booting, started, isAuto, msg, req, polls, canPc, bus, cur, counters, replies>>

Wake(s) ==
  /\ pc[s] = "wait" /\ MayRun(s)
  /\ pc' = [pc EXCEPT ![s] = "answer"]
  /\ UNCHANGED <<booting, started, DCQ, isAuto, msg, req, todo, polls, canPc, bus, cur, counters, history>>

AnswerShared(s) ==         \* slip: one message structure for all sources
  /\ pc[s] = "answer" /\ MayRun(s)
  /\ replies' = [replies EXCEPT ![arrived] = @ + 1]
  /\ pc' = [pc EXCEPT ![s] = IF polls[s] = 1 THEN "dispatch" ELSE "idle"]
  /\ UNCHANGED <<booting, started, DCQ, isAuto, msg, req, todo, polls, canPc, bus, cur, counters, flushed, overlapped, lastPoll>>

(* EnFeedBackMsgQueue ends MotionFeedbackHandle; its second call, for 0x81, *)
(* ends MessageHandle.                                                      *)
Answer(s) ==
  /\ pc[s] = "answer" /\ MayRun(s)
  /\ replies' = [replies EXCEPT ![req[s]] = @ + 1]
  /\ pc' = [pc EXCEPT ![s] = IF polls[s] = 1 THEN "dispatch" ELSE "idle"]
  /\ UNCHANGED <<booting, started, DCQ, isAuto, msg, req, todo, polls, canPc, bus, cur, counters, flushed, overlapped, lastPoll>>

Obeys(m) == (m.cmd = "angle" /\ ~isAuto) \/ (m.cmd = "motion" /\ isAuto)

SetPointsLeftTwice(k) ==   \* slip: a copied line
  <<Frame("FRONT", "set", k), Frame("LEFT", "set", k), Frame("LEFT", "set", k)>>
SetPoints(k) == ForEach("set", k)

(* The switch on Cmd: a motion command of the current mode ...              *)
DispatchMotion(s) ==
  /\ pc[s] = "dispatch" /\ MayRun(s) /\ Obeys(msg[s]) /\ msg[s].len4
  /\ motions' = motions + 1
  /\ todo' = [todo EXCEPT ![s] = SetPoints(motions + 1)]
  /\ pc' = [pc EXCEPT ![s] = "enqueue"]
  /\ UNCHANGED <<booting, started, DCQ, isAuto, msg, req, polls, canPc, bus, cur, arrived, late, losses, history>>

(* ... a query, which polls and answers a second time ...                   *)
DispatchQuery(s) ==
  /\ pc[s] = "dispatch" /\ MayRun(s) /\ msg[s].cmd = "query"
  /\ polls' = [polls EXCEPT ![s] = 2]
  /\ todo' = [todo EXCEPT ![s] = ForEach("get", req[s])]
  /\ pc' = [pc EXCEPT ![s] = "enqueue"]
  /\ UNCHANGED <<booting, started, DCQ, isAuto, msg, req, canPc, bus, cur, counters, history>>

(* ... a change of mode, or a command that is ignored.                      *)
DispatchOther(s) ==
  /\ pc[s] = "dispatch" /\ MayRun(s)
  /\ msg[s].cmd # "query" /\ ~(Obeys(msg[s]) /\ msg[s].len4)
  /\ isAuto' = IF msg[s].cmd = "mode" THEN msg[s].auto ELSE isAuto
  /\ pc' = [pc EXCEPT ![s] = "idle"]
  /\ UNCHANGED <<booting, started, DCQ, msg, req, todo, polls, canPc, bus, cur, counters, history>>
-----------------------------------------------------------------------------
(* can_thread                                                               *)

(* What a drive does with a frame, and the one answer it owes for it.       *)
Deliver(f) ==
  /\ target' = IF f.op = "set" THEN [target EXCEPT ![f.to] = f.n] ELSE target
  /\ enabled' = IF f.op = "enable" THEN enabled \cup {f.to} ELSE enabled
  /\ answers' = [answers EXCEPT ![f.to] = Append(@, f)]

SendNoWaitForAck ==        \* slip: waits for an answer only after a poll
  /\ canPc = "poll" /\ MayRun(can) /\ DCQ # <<>>
  /\ DCQ' = Tail(DCQ)
  /\ canPc' = IF Head(DCQ).op = "get" THEN "busy" ELSE "poll"
  /\ IF Head(DCQ).to \in Drives THEN Deliver(Head(DCQ)) ELSE UNCHANGED <<target, enabled, answers>>
  /\ UNCHANGED <<booting, started, isAuto, sources, rx, cur, counters, history>>

SendNotDeleting ==         \* slip: GetQueueinter for GetAndDelQueueinter
  /\ canPc = "poll" /\ MayRun(can) /\ DCQ # <<>>
  /\ canPc' = "busy"
  /\ IF Head(DCQ).to \in Drives THEN Deliver(Head(DCQ)) ELSE UNCHANGED <<target, enabled, answers>>
  /\ UNCHANGED <<booting, started, DCQ, isAuto, sources, rx, cur, counters, history>>

(* GetAndDelQueueinter and SendCan; delay_ms(3) follows.                    *)
CanSend ==
  /\ canPc = "poll" /\ MayRun(can) /\ DCQ # <<>>
  /\ DCQ' = Tail(DCQ)
  /\ canPc' = "busy"
  /\ IF Head(DCQ).to \in Drives THEN Deliver(Head(DCQ)) ELSE UNCHANGED <<target, enabled, answers>>
  /\ UNCHANGED <<booting, started, isAuto, sources, rx, cur, counters, history>>

RetryLost ==               \* slip: a frame that failed is queued again
  /\ canPc = "poll" /\ MayRun(can) /\ DCQ # <<>> /\ losses < MaxLoss
  /\ DCQ' = Append(Tail(DCQ), Head(DCQ))
  /\ canPc' = "busy"
  /\ losses' = losses + 1
  /\ UNCHANGED <<booting, started, isAuto, sources, bus, cur, arrived, motions, late, history>>

(* Automatic retransmission is off and SendCan's result is ignored.         *)
CanSendLost ==
  /\ canPc = "poll" /\ MayRun(can) /\ DCQ # <<>> /\ losses < MaxLoss
  /\ DCQ' = Tail(DCQ)
  /\ canPc' = "busy"
  /\ losses' = losses + 1
  /\ UNCHANGED <<booting, started, isAuto, sources, bus, cur, arrived, motions, late, history>>

StoreAnyAnswer(f) == IF f.op # "tvel" THEN [cur EXCEPT ![f.to] = f.n] ELSE cur   \* slip

(* FeedbackMessge stores the value an answer to a poll carries.             *)
FeedbackMessge(f) == IF f.op = "get" THEN [cur EXCEPT ![f.to] = f.n] ELSE cur

(* ReadCan takes one frame.                                                 *)
CanRead ==
  /\ canPc = "busy" /\ MayRun(can) /\ rx # <<>>
  /\ cur' = FeedbackMessge(Head(rx))
  /\ rx' = Tail(rx)
  /\ canPc' = "poll"
  /\ UNCHANGED <<booting, started, DCQ, isAuto, sources, answers, target, enabled, counters, history>>

(* ReadCan finds nothing; late when a drive still owes an answer.           *)
CanReadNothing ==
  /\ canPc = "busy" /\ MayRun(can) /\ rx = <<>>
  /\ canPc' = "poll"
  /\ \/ /\ \A d \in Drives : answers[d] = <<>>
        /\ UNCHANGED late
     \/ /\ \E d \in Drives : answers[d] # <<>>
        /\ late < MaxLate /\ late' = late + 1
  /\ UNCHANGED <<booting, started, DCQ, isAuto, sources, bus, cur, arrived, motions, losses, history>>

(* The queue is empty: delay_ms(5) twice.                                   *)
CanSleep ==
  /\ canPc = "poll" /\ MayRun(can) /\ DCQ = <<>>
  /\ canPc' = "sleep"
  /\ UNCHANGED <<booting, started, DCQ, isAuto, sources, bus, cur, counters, history>>

CanWake ==
  /\ canPc = "sleep" /\ MayRun(can)
  /\ canPc' = "poll"
  /\ UNCHANGED <<booting, started, DCQ, isAuto, sources, bus, cur, counters, history>>

(* A drive answers; a full receive FIFO overwrites its newest frame         *)
(* (CAN_RFLM = DISABLE).                                                    *)
DriveAnswers(d) ==
  /\ answers[d] # <<>>
  /\ rx' = IF Len(rx) < RxDepth THEN Append(rx, Head(answers[d]))
           ELSE [rx EXCEPT ![RxDepth] = Head(answers[d])]
  /\ answers' = [answers EXCEPT ![d] = Tail(@)]
  /\ UNCHANGED <<booting, started, DCQ, isAuto, sources, canPc, cur, target, enabled, counters, history>>

Handle(s) ==
  \/ Enqueue(s) \/ Wake(s) \/ Answer(s)
  \/ DispatchMotion(s) \/ DispatchQuery(s) \/ DispatchOther(s)
CanStep == CanSend \/ CanSendLost \/ CanRead \/ CanReadNothing \/ CanSleep \/ CanWake

Next ==
  \/ BootEnqueue \/ OSStart
  \/ \E s \in Sources : Receive(s) \/ Handle(s)
  \/ CanStep
  \/ \E d \in Drives : DriveAnswers(d)

(* The CPU never idles while an actor can go on, and the bus delivers       *)
(* answers.  A handler less urgent than can_thread runs only in its         *)
(* sleeps, which end and begin again for ever: it is enabled again and      *)
(* again, not continuously, and each sleep gives it the CPU, hence SF.      *)
Fairness ==
  /\ WF_vars(BootEnqueue) /\ WF_vars(OSStart)
  /\ \A s \in Sources : SF_vars(Handle(s))
  /\ WF_vars(CanStep)
  /\ \A d \in Drives : WF_vars(DriveAnswers(d))

Spec == Init /\ [][Next]_vars /\ Fairness
-----------------------------------------------------------------------------
TypeOK ==
  /\ Len(booting) <= 9 /\ started \in BOOLEAN
  /\ Len(DCQ) <= MaxCount
  /\ \A i \in DOMAIN DCQ : DCQ[i].to \in Drives \cup {"nobody"}
  /\ pc \in [Sources -> {"idle", "enqueue", "wait", "answer", "dispatch"}]
  /\ \A s \in Sources : (pc[s] = "enqueue") = (todo[s] # <<>>)
  /\ canPc \in {"poll", "busy", "sleep"}
  /\ Len(rx) <= RxDepth
  /\ \A d \in Drives : cur[d] <= arrived /\ target[d] <= motions
  /\ enabled \subseteq Drives

Settled ==
  /\ started /\ DCQ = <<>> /\ canPc # "busy"
  /\ \A s \in Sources : pc[s] = "idle"
  /\ \A d \in Drives : answers[d] = <<>>

(* can_thread reads one frame per frame it sends (can.c:42-48), so request   *)
(* and answer stay in step only while answers come in time: each late one    *)
(* leaves at most one frame that shifts every later read.                    *)
Unread == Len(rx) + Len(answers["FRONT"]) + Len(answers["LEFT"]) + Len(answers["RIGHT"])
SkewBounded == Unread <= late + (IF canPc = "busy" THEN 1 ELSE 0)

(* Nothing moves a drive that was not enabled first: InitDriverCmdQueue      *)
(* queues the enables before any source can queue a set point, and they are  *)
(* lost only by a flush of the queue or by the bus.                          *)
EnabledFirst ==
  ~flushed /\ losses = 0 => \A d \in Drives : target[d] # 0 => d \in enabled

(* When the robot has settled, the steering and both wheels follow the same  *)
(* command, the last one accepted, unless a flush, the bus or a more urgent  *)
(* source came between the three set points of a command.                    *)
TargetsCoherent ==
  Settled /\ ~flushed /\ losses = 0 /\ ~overlapped => \A d \in Drives : target[d] = motions

(* CruPosition and CruVelocity hold the newest poll of their drive once      *)
(* everything has settled, if no answer was late.                            *)
ValuesCurrent ==
  Settled /\ ~flushed /\ losses = 0 /\ late = 0 => cur = lastPoll

(* No drive goes back to an older command: flushes and lost frames may skip  *)
(* commands, and only interleaved set points reverse them.                   *)
NoRollback ==
  [][~overlapped' => \A d \in Drives : target'[d] >= target[d]]_vars

(* Every accepted message is answered (message.c:105), and can_thread works  *)
(* the queue off, whichever tasks and interrupts preempt it on the way.      *)
EveryMessageAnswered ==
  \A r \in 1 .. MaxMsgs : arrived >= r ~> replies[r] >= 1
QueueDrains == <>[](DCQ = <<>>)
=============================================================================
