# Verification of the stm32_robot firmware

TLA+ models, TLC runs and TLAPS proofs for the control firmware under
`src/NETCONN_TCP`: an STM32F407 that takes motion commands by UART, WiFi and
TCP and drives one steering and two wheel motors over CAN, on uC/OS-II and
lwIP 1.4.1. Paths below are relative to `src/NETCONN_TCP`.

## The system

### Components

| part | state | operations | talks to | module |
|---|---|---|---|---|
| Message queue, `MOTORDRIVER/Queue.c` | `front`, `rear`, `QueueCount`, the slots | enqueue, dequeue, peek, delete, reset; an enqueue on a full queue empties it first | called by everything below | `InterQueue`, `InterQueueRace` |
| Command path, `MOTORDRIVER/message.c` | `isAuto`, the queues `DCQ` (frames for the drives) and `FMQ` (feedback) | `MessageHandle`: poll the drives, wait 10 ms, reply, act on the command; `InitDriverCmdQueue`, `InitDriver` at boot | called from the USART1 and USART2 handlers and the TCP server, TCP client and WiFi tasks | `RobotPipeline`, `DriveCommands` |
| Conversions, `MOTORDRIVER/kinematics.c`, `ConvertData.c` | - | angle to pulses, speed to wheel speeds, bytes to integers and back | command path | `DriveCommands` |
| CAN task, `HARDWARE/CAN/can.c`, `MOTORDRIVER/driver.c` | the frame in its hands, the controller's receive FIFO, `CruPosition`, `CruLeftVelocity`, `CruRightVelocity` | take a frame from `DCQ`, send it, wait 3 ms, read one answer and store its value | drives | `RobotPipeline`, `DriveCommands` |
| Kernel, `UCOSII`, and `SYSTEM/delay/delay.c` | ready list, delays, event wait lists, interrupt and lock nesting, pools of control blocks | delay, pend, post, tick, schedule, lock, create a task | every task and handler | `UcosSched`, `Boot` |
| UART command parsers, `SYSTEM/usart`, `SYSTEM/USART2` | byte index and done flag | collect a frame, call `MessageHandle` in the handler | command path | `UsartFrame` |
| IMU, `EXTER_SENSOR/MPU6050.c`, `SYSTEM/USART6` | 33-byte window, done flag, `Yaw` | handler fills, task decodes and clears | command path (reads `Yaw`) | `ImuReceiver` |
| WiFi module, `ATK-WIFI`, `HARDWARE/USART3`, `HARDWARE/TIMER` | receive buffer and `USART3_RX_STA`, connection state | AT command with time-out; end of message by TIM7; hand over commands | command path, `FMQ` | `WifiAt` |
| Allocator, `MALLOC/malloc.c` | block map per pool | allocate, free | lwIP, port layer, WiFi task | `MyMalloc` |
| lwIP port, `LWIP/arch/sys_arch.c`, lwIP's timers | mailboxes, list of timers | fetch with time-out, arm and serve timers | kernel, lwIP | `SysTimeouts`, `TcpTasks` |
| TCP tasks, `LWIP/lwip_app` | connection, netconn and its mailbox | accept or connect, receive a command, send feedback | command path, `FMQ` | `TcpTasks` |
| Ethernet, `HARDWARE/ETHERNET`, `ethernetif.c` | two rings of descriptors | handler takes frames, `tcpip_thread` adds frames, DMA works on both | lwIP | `EthRings` |
| Start-up, `USER/main.c` | - | enables interrupts, creates queues and tasks, starts the kernel | all | `Boot` |

### What is hard

* No lock and no interrupt mask protects `DCQ`, `FMQ`, `isAuto`, the receive
  buffers or the allocator's map; their users are handlers and tasks of
  priorities 5, 6, 7, 8, 10 and 20.
* `MessageHandle` runs inside interrupt handlers and calls `delay_ms`. Some
  handlers tell the kernel that they are handlers, most do not; and while one is
  in `MessageHandle` the UARTs of the same priority lose bytes.
* Requests and answers on the CAN bus are matched by nothing but time; so are AT
  commands and their answers.
* No protocol on the serial lines has a mark that cannot also be data.
* A full queue is emptied, whatever is in it.
* Boot fills the queue before the task that empties it runs, while UART
  commands already arrive; tasks are created without a look at the result.

`hazards` in `PROJECT.json` lists each at its line, with the properties that
cover it.

## Modules

| module | what it is |
|---|---|
| `LossyFifo` | the abstract queue: FIFO, bounded, emptied by an enqueue when full |
| `InterQueue` | `Queue.c`, one action per function; refines `LossyFifo` |
| `InterQueueRace` | `EnQueueinter` and `GetAndDelQueueinter` access by access, callers preempting one another |
| `RobotPipeline` | `MessageHandle` in several sources, `DCQ`, `can_thread`, the bus and the drives, boot included |
| `DriveCommands` | the numbers of a command on their way to the drives and back |
| `UcosSched` | the kernel's scheduler, tick, delays, message queue and nested handlers |
| `UsartFrame` | the parser of command frames, byte by byte, with its line |
| `ImuReceiver` | USART6's handler, the decoding task and the sensor's bursts |
| `WifiAt` | USART3's and TIM7's handlers, the WiFi task's loop, the module |
| `MyMalloc` | the allocator, entry by entry, under preempting callers |
| `SysTimeouts` | lwIP's timers in `tcpip_thread`'s waits |
| `TcpTasks` | server and client task over netconn, with connections that end at any point |
| `EthRings` | both descriptor rings against the DMA |
| `Boot` | `main` among the handlers it enables; tasks and the kernel's pools |
| `InterQueueRaceProofs`, `RobotPipelineProofs`, `UcosSchedProofs`, `TcpTasksProofs` | TLAPS proofs about the module in the name |
| `StoreProofs` | TLAPS proofs about `InterQueue`, `MyMalloc` |
| `DriveCommandsProofs` | TLAPS proofs about `DriveCommands`, and about the parts of `MCParts` together |
| `LinesProofs` | TLAPS proofs about `UsartFrame`, `ImuReceiver`, `EthRings` |
| `PartsProofs` | TLAPS proofs about `Boot`, `WifiAt`, `SysTimeouts` |
| `MCInterQueueRace`, `MCRobotPipeline`, `MCUcosSched`, `MCTcpTasks` | constants for TLC |
| `MCParts`, `MCLines` | constants, and parts that share nothing side by side: each behaviour follows one of them, so one run checks them all |

Operators marked "slip" are plausible mistakes in the definition they stand
next to. They are in no next-state relation: each shows that a property would
notice that mistake.

### InterQueue and LossyFifo

The variables are the fields of `struct interQueue`, plus the caller's buffer
`pe` and the value returned. `EnQueueinter` is split in two actions by its
first `if`. `FifoSpec` says that the fields implement `LossyFifo` with the
sequence of the `QueueCount` slots from `front` as its contents.

### InterQueueRace

Each read or write of a field is a step (at -O0 `Q->rear++` is a load and a
store; `memcpy` of a message is two steps). Where the source reads a
non-volatile field again the model lets the compiler reuse the register. An
actor steps only while no more urgent actor is inside a call: the handler over
the tasks, tasks by their kernel priorities; this is exact because no call
blocks. `Setups` says which callers work on which queue: `DCQ` with its two
producers and `can_thread`, `FMQ` with its producer and its two consumers.
`fifo` and `owed` hold what the abstract queue would do if each call took effect
when it returns.

### RobotPipeline

One step is one call of `Queue.c`, one CAN frame or one wait. `pc[s]` is where
source `s` is in `MessageHandle`: it enqueues three polls, waits if it is a task
(a handler does not), replies, acts. `can_thread` is `CanSend`, then `CanRead`
or `CanReadNothing`, or a sleep. Frames keep addressee, kind and the number of
their command; a drive follows the last set point it got and owes one answer
per frame. The bus may lose `MaxLoss` frames and drives may be late `MaxLate`
times. The nine frames of `InitDriver` carry identifiers 0x604.. to which
`SendCan` adds 0x600 once more, so they reach no drive and only fill the queue.
History variables (`flushed`, `overlapped`, `lastPoll`, `replies`) record what
the properties relate.

### DriveCommands

The complement of `RobotPipeline`: no loss and one command at a time, but real
numbers. Commands and replies are 16-bit words in big-endian bytes, CAN frames
are bytes with `setSendFramData`'s order of the object and the value, the
identifiers pass through `SendCan`'s 0x600 and the drives' 0x580, the right
wheel is mirrored. A steering angle is named by its sine in thousandths; the
trigonometry of the linkage is the constant `Linkage`, a monotone table from
angle to pulses, and `getCurAngle` its inverse. Floats in between are integers
that round to zero, and the properties leave room for that (3 mm/s,
0.004 rad/s). A NaN converted to `int` may be any position. `Reply` may come before
the polls are answered (in a handler, which holds up `can_thread`) or after.

### UcosSched

Variables carry the kernel's names. Tasks are their priorities, `OSRdyTbl` is
the set of ready ones. Each critical section is a step; `pc` says where a task
or a handler is between them (after the state change, before `OS_Sched`; in
`delay_us` before the lock, in the loop). `isr` is the stack of active
handlers, entered by NVIC priority; SysTick is one step since nothing preempts
it. `PendSV` is a pending exception served when no handler is active, as the
port does. `Announced` handlers call `OSIntEnter` and `OSIntExit`; `Delaying`
handlers are those that reach `delay_ms` through `MessageHandle`. A handler
handles one message and leaves.

### UsartFrame

One step is one byte. `STA` and `done` are the index and bit 15 of
`USART_RX_STA`, `BUF` the memory from the buffer on: as far as a length byte can
take the index, not as far as the buffer goes. While `busy`, the handler is in
`MessageHandle`; the UART holds one byte (`DR`) and drops the rest. The line
starts in the middle of a frame. `whole` is a history variable: the frame on the
line found the parser idle and none of its bytes was dropped.

### ImuReceiver

Bursts of three packets follow one another; nothing but the mark 0x55, which may
also be a payload byte, tells where a window begins. One payload byte stands for
the two `Yaw` is computed from. The task's test, decoding and clearing are three
steps the handler may come between. `origin`, `clean` and `expected` record
what the window holds.

### WifiAt

A byte is a token that `strstr` or `strchr` looks for. USART3's handler is its
test and its store, with TIM7 (a more urgent handler) in between; TIM7 fires
when 1 ms passed without a byte that resets it. The task is the rounds of
`atk_8266_wifiap_test`: take a message, every `CheckAt` rounds end transparent
mode, ask `AT` and `CIPSTATUS` with a number of polls each, drop what came
meanwhile. The module answers commands in its own time, after they were given
up too, and sends notices and data of itself.

### MyMalloc and SysTimeouts

`MyMalloc`: `Scan`, `Mark` and `ClearMap` are one entry of the map each; a
task steps while no more urgent one is in a call. `disturbed` names the searches
that another call came into.
`SysTimeouts`: `timers` is the list with its relative times, `sys_timeout` the
insertion; a wait ends by its time-out or by a message after any number of
ticks. `waited`, `fetched`, `expired` and `instant` record what became of each timer
since it was armed.

### TcpTasks

One step is what a task does between two points where `tcpip_thread` may come
in, or one thing `tcpip_thread` does: a new connection, a segment, a FIN, a
reset, a failed connect, the end of a write. A netconn is its `pcb` state,
`last_err` and `recvmbox`; a segment is the number of its command or `Rejected`
(not exactly one command); the null message of a FIN is lost when the mailbox is
full, and a full mailbox is reported invalid. The client runs while the server is
blocked.

### EthRings

`rxOwn` and `txOwn` are the descriptors' OWN bits, moved by the DMA on one side
and the handler or `tcpip_thread` on the other, each with its own place in the
ring. The handler's test, its copy, the return of the descriptor and the
clearing of the interrupt bit are steps; so are the copy, the OWN bit and the
resume demand of a transmission. `accepted` and `overwritten` are history variables.

### Boot

`MainOrder` is the order of `main`'s calls, `lwip_comm_init`'s included; each is
a step, and handlers already enabled run in between. `tcbs`, `ecbs` and `qcbs` count
the control blocks left of `OS_MAX_TASKS`, `OS_MAX_EVENTS` and `OS_MAX_QS`.
Without an Ethernet link the TCP tasks are left out. After `OSStart` the start
task creates the rest and the TCP tasks take netconns, each two event blocks and
one queue.

## Runs

| run | asks | bounds |
|---|---|---|
| `race` | handler, tasks and `can_thread` preempting one another on `DCQ` and on `FMQ`: no stale resend, how far past the array, calls that do not overlap amount to the FIFO | 2 slots, 2 or 3 calls per producer: wrap, overflow, nesting three deep; the WiFi threshold of 10 of 40 becomes 1 of 2 |
| `pipeline_uart` | USART2 and the TCP server from boot on: answers in step, enables first, one target for all drives, current values | real capacity 40, two commands, one late answer, one lost frame |
| `pipeline_live` | USART2 and the WiFi task around `can_thread`: flushes never reverse commands, every message is answered, the queue drains | capacity 9, below the 15 frames of boot and in reach between set points; one lost frame; every kind of message |
| `sched` | right task, no mail lost or doubled, one reason to wake, no task blocked by a handler; delays end, mail is taken | three tasks, USART1's and Ethernet's handlers nesting with the tick, 2 posts, delays up to 2 ticks, one queue slot |
| `tcp` | pools accounted for, commands in order and once, feedback lost only where the client is caught; the loops wait again and again, closed connections are left | 3 netconns (all the kernel's blocks allow, see `Boot`), 2 netbufs, mailboxes of 2, 2 commands per connection, 1 feedback message |
| `parts` | queue against `LossyFifo`; allocator under three callers; timers; WiFi line; start-up order, tasks and pools; numbers of commands | 3 slots; 4 blocks of 2 bytes, sizes 0, 1 and 3, 2 regions each; timers of 11, 15 and 33 ms with ticks of 5; buffer of 3 tokens, 2 polls, 2 events of the module or lost bytes; the real `os_cfg.h`; six commands in any order: straight, reverse in a turn, both words at the end of their range, a speed that is cut to 1 m/s, a turn that cannot be driven, speed 0; four angles |
| `lines` | command frames, sensor windows and Ethernet frames reach the other side as sent, and each line comes back to work | frames with a head among the data and two lengths, 2 bytes dropped; packets of 3 bytes with the mark as payload, 1 missed; rings of 3 |
| `race_lost`, `sched_delay`, `sched_idle`, `tcp_reset`, `timeouts_early` | the disagreements below | |

Two commands are enough for the pipeline's properties: each relates at most two
commands (one overlapping or following the other) and the frames of boot. Two
ticks distinguish a delay that ends now, later, or is cut short. Three timers
give one before, between and behind; three callers of the allocator are one
preempted while it preempts. A ring of three is full, empty and in
between. A motion command is compared with its reply when it was given
`Settled` = 4 times before: polls are answered one command late at worst, and
the wheels' speeds depend on the angle the previous command has set.

Two bounds cut behaviours off. `InScope` (run `parts`) stops at a search of the
allocator that another `mymalloc` preempts and at a byte that USART3's handler
stores outside its buffer: both corrupt memory in the firmware, and what follows
is not a behaviour of the source. In `EthRings` at most one frame arrives while the handler
clears its interrupt bit (some cycles), and a frame fits one
descriptor (giant frames are filtered). Deadlock is not checked where a run
bounds the number of calls or messages, or where the source may be idle for ever.

### Fairness

* `RobotPipeline`: the CPU does not idle while an actor can go on and the bus
  delivers, so weak fairness on `can_thread`, the drives and boot. A task less
  urgent than `can_thread` runs only while that sleeps; the sleeps (two
  `delay_ms(5)`) end and begin for ever, and each gives the CPU to the task,
  which is strong fairness for `Handle`.
* `UcosSched`: interrupts leave the CPU time, so each exception and kernel call
  that is enabled again and again happens in the end. Nothing makes a task call
  anything: `DelayMs`, posts and pends have no fairness.
* `TcpTasks`: the server runs whenever it is not blocked (weak); the client only
  in the server's waits, so it is enabled again and again (strong); TCP answers
  a connect or gives up. Peers owe nothing.
* `lines`: the peers and the DMA go on (weak fairness of `Outside`), handlers
  and tasks are not held up for ever (weak fairness of `Inside`). That lwIP
  sends is not assumed. `FrameRecovers` needs that payloads look
  like a head only finitely often, `AngleReturns` that the task decodes in the
  pauses between bursts; both are stated as premises, since without them the
  parsers need not come back in step.

### Where code and comments disagree

* `race_lost` (`Queue.c:27`): an enqueue in the handler that falls inside the
  consumer's `QueueCount--` is overwritten; the message is in the array and not
  in the count.
* `sched_delay` (`delay.c:147`): `OSSchedLock` does nothing in an announced
  handler, `OSSchedUnlock` still decrements. A USART1 command while a task is in
  `delay_us` releases that task's lock.
* `sched_idle` (`os_core.c:1680`): USART2's handler is not announced, so in it
  `delay_ms(10)` believes that a task calls and puts the interrupted task off;
  when that is the idle task, no ready task is left and the scheduler selects
  priority 0, which does not exist.
* `tcp_reset` (`tcp_server_demo.c:97`): the server's loop ends on `ERR_CLSD`
  only. A reset while it is not waiting makes `netconn_recv` return `ERR_RST` at
  once for ever, and line 46's wait of 10 ms never happens again: no task below
  priority 6 runs.
* `timeouts_early` (`sys_arch.c:138`): `>` where `sys_arch_sem_wait` has `>=`. A
  message in the same tick counts as 2^32 - 1 ticks of waiting and the next
  timer is due at once.

Two more can be read off the models and have no run of their own:

* `main.c:165`: the KEY and the display task have the priorities of the CAN and
  the WiFi task and are never created; `BootSound` says that these two are all.
* `message.c:17`: `1000*1/340` is 2, so data 340 drives at 0.68 m/s and not at
  the 1.0 m/s of the comment (`vRatio`); `MotionReported` is about the former.

## Proofs

Checked by TLAPS for all values of the constants that satisfy the named
assumptions; every leaf is proved.

`StoreProofs`, the queue (`MaxCountAssumption`: a positive capacity): `TypeCorrect`,
`RingAlwaysConsistent` (`RingConsistent` is inductive with the type invariant)
and `ImplementsLossyFifo`, the refinement: per action, the contents computed
from the ring before and after are related by lemmas on `Slot` and `Wrap`.

`InterQueueRaceProofs` (`RaceAssumption`: positive capacities, at least one producer
and one consumer; any number of each):

* `FieldsBounded` (`OverrunBounded`) and `OneConsumerNeverStale` (`NoStaleResend`)
  from `Bounds`: a field exceeds its range only by callers that are between its
  increment and its wrap, and callers are nested, so the preempted one knows what
  the one above leaves behind (`CheckHolds`: the consumer's own test of
  `QueueCount` still holds when it calls).
* `SerialCallsAgree` (`AgreesWithFifo`) from `Serial`: while no call overlapped, at
  most one is in progress, and the ring is what `LossyFifo` holds, step by step
  of that call.

`RobotPipelineProofs` (`PipelineAssumption`: sources are handlers or tasks with
a priority, and the queue holds the six frames that `InitDriverCmdQueue` puts
into it). Any number of sources, messages, late answers and lost frames:
`TypeCorrect`, `SkewAlwaysBounded` (`SkewBounded`), `EnabledBeforeMoved`
(`EnabledFirst`), `TargetsAgree` (`TargetsCoherent`), `ValuesAreCurrent`
(`ValuesCurrent`), `NeverRolledBack` (`NoRollback`). `PipelineInvariant` says, for
each property, where things are on their way: `EnableOrder` (the enable is ahead
of every set point of its drive), `SetOrder` (numbers of set points grow from
the drives back through the queue to the sources, while commands are not
interleaved), `SetArrives` and `PollArrives` (the last set point and the last
poll of each drive have arrived or are somewhere between).

`StoreProofs`, the allocator (`MallocAssumption`), any number of tasks, blocks and regions:
`AllocatorTypes`, and `BlocksHaveOneOwner` (`AllocatorSound`). `Searched`: what a
search has counted is free, as long as nobody else marks; `MapRight`: the map's
entries are those of the regions, finished, being marked or being cleared.

`UcosSchedProofs` (`UcosAssumption`: priorities are positive, the idle task's is the
largest, handlers are finite and are not tasks). Any number of tasks, handlers
and nesting levels:

* `TypeCorrect`. The types are not inductive: `OSIntExit` decrements
  `OSIntNesting`. The strengthening `IInv` adds that `OSIntNesting` is the
  number of announced handlers between `OSIntEnter` and `OSIntExit`, and that a
  handler that is not off is on the stack. So an empty stack means nesting 0.
* `IdleStaysReady` and `HandlersBlockNoTask`, if `Delaying` handlers are
  `Announced`: then whoever passes the tests of `OSTimeDly` is a task, and the
  current one (`OnlyTasksBlock`). The firmware meets the assumption for USART1
  and not for USART2; `sched_idle` is what follows.
* `DelayUsKeepsCpu`, if no handler calls `delay_ms`: a task in the loop holds
  the lock and no switch is pending (`BusyIsCurrent`). `sched_delay` shows that
  the assumption is needed.
* `RightTaskRuns` (`HighestPriorityRuns`), if `Delaying` handlers are announced.
  The kernel reschedules in a later critical section than the change that makes
  it necessary, so the invariant `Settled` says who still owes the call: a
  handler inside `OSIntEnter` .. `OSIntExit` or before `OS_Sched`, the current
  task before `OS_Sched`, or the holder of the lock. Where nobody owes it, a
  pending switch leads to the most urgent ready task, or that task runs.
  `LockedIsBusy` is why an owing task is always the current one.
* `NoMailLost` and `OneReasonToWake`, under the same assumption. `MailPlaces`
  gives each receiver's situations: it waits, it holds a message, or it timed
  out and is still in the wait list. That one that returns is in one of the last
  two rests on `RightTaskRuns`: a task that executes is ready.

`LinesProofs`, the parsers (`FrameAssumption`: frames are what `MessageHandle` accepts
and fit the buffer; `Memory` is what a length byte can reach). For every
set of frames, head byte and number of lost bytes: `IndexStaysInMemory` and
`FramesHandled` (`FrameHandled`). The types need `LengthAhead`: while a message
is not complete, the index is at most what the length byte says it will be.
`FrameHandled` needs `HeldIsHead`: the only byte of a frame that finds the parser
idle and loses nothing to wait in the UART is its head.

`LinesProofs`, the IMU receiver (`ImuAssumption`: types differ, packets have a payload). For
every packet length and payload: `WindowFits`, and `WindowsDecoded`
(`WindowDecoded`). `Collected` says which bytes of which packet are in a clean
window that began at a packet, `TaskHoldsWindow` that the handler stores
nothing while the task works.

`TcpTasksProofs` (`TcpAssumption`), for any sizes of pools and mailboxes:
`MailboxesAndPoolsFit`, `PoolsComeBack` (`PoolsAccounted`), `LossIsAReset`
(`LossMeansStuck`), `CommandsInOrder` (`HandledInOrder`). The invariant's parts:
`Places` and `Owners` (where a task may be and which netconn it then has, no
two the same), `Bufs`, `Errors` (which error a task can meet where), `Count`
(feedback is queued, in hand or lost) and `Streams` (what was handled, and then
what waits in the mailbox, in increasing order, below what was sent).

`LinesProofs`, the rings (`EthAssumption`), of any size: `RingsStayRings`,
`SentAsAccepted` (`TxAsAccepted`) and `TakenInOrder` (`RxInOrder`). `TxRun` is the run
of the DMA's descriptors from `txCur` to `DMATxDescToSet` with its length,
`Intact` what their buffers hold; `RxRun` is the run of full descriptors from
the handler's to the DMA's, whose numbers grow. `LinesKeepTypes` (`LinesTypeOK`)
joins the three parts.

`PartsProofs`, the start. `BootAssumption` only says that the pools' sizes are
numbers; the theorems assume `Suffices`: 9 tasks, 10 events, 4 queues, where
`os_cfg.h` has 10, 10 and 5. `BootInv` says what follows from the call `main` has
reached: which tasks exist (`Created`), that a control block is left for every
call to come (`TcbsInv`), what an enabled handler can rely on (`IrqsInv`), and
that events and queues are the kernel's, lwIP's or a netconn's (`PoolsInv`).
`StartIsSound` is `BootSound`, `StartKeepsTypes` the pools' bounds.

`PartsProofs`, the WiFi module's line (`WifiAssumption`), for any length of the
buffer, number of polls and of lost bytes: `LineKeepsTypes`, `WholeMessages`
(`MessagesTaken`), `OwnAnswers` (`AnswerIsOwn`). `LineInv` says what can be left of a
message on the line, and that the byte the handler has tested for fits.
`Followed`: an "AA" in the buffer has its data behind it, or they are the next
byte, and then TIM7 cannot fire. `Fresh`: while the module owes an answer,
neither the line nor the buffer holds anything that reads like one.

`PartsProofs`, lwIP's timers (`TimeoutsAssumption`), for any handlers, delays and
tick: `TimersStayOnTime` (`TimersOnTime`) and `TimersKeepTypes`. The list is summed
up, and at first built, by recursive functions; what is needed of them is proved
by an induction over the set of numbers for which it holds (`Induction`), since
the library's induction theorems cannot be used. `Inserted` is what `sys_timeout` does, member by
member. From there on the list is a `Schedule`: each handler is in it once and
`due` says when; arming (`ArmedOnce`), expiry (`FirstGone`) and waiting
(`TimePasses`) are operations on `due`. The invariant `TimersInv` says that the schedule
is on time (`OnTime`); `OneRounding` and `OneMessage` are what a step may add.

`DriveCommandsProofs` (`LinkageAssumption`: the table grows with the angle, spans the
travel and no entry is beyond the linkage's reach; `WordsAssumption`: the
angles that are asked for are in it). For every such table and every set of
16-bit commands: `ReportsMotion` (`MotionReported`) and `DriveKeepsTypes`. The lemmas say
first what rounding to zero costs (`TruncIs`, `TruncTwice`) and that each encoding is
undone at the other end, for every value that fits (`WordBytes`, `ValueBytes`,
`AnswerIs`); that a search of the table finds the angle of its own entry
(`CurSineExact`); and that a speed that went through both wheels comes back within
2.298 mm/s (`VelocityBack`), with the turn that belongs to it (`ReplyNear`). `DriveInv` then
follows a command that is given again, frame by frame (`FrameOf`, `Done`): the
position is set in the first cycle and known in the second, the wheels are
told the speeds for that angle by the third and polled in the fourth, before the
reply to the fifth. `PartsKeepTypes` (`PartsTypeOK`) needs `Suffices` and joins the types of all six parts:
a step of one of them leaves the variables of the others alone.

Only model-checked: every liveness property (fairness and ENABLED are outside
TLAPS's reach here). Every invariant the passing runs check is proved.

## Not modelled

* Most of the repository's lines are tables and libraries: FatFs with its code
  pages, the register definitions and peripheral library of ST, lwIP's protocol core,
  USMART, fonts. They are not this program's logic.
* Board support: LCD, touch, SDIO, flash, EEPROM, keys, LEDs; the ultrasonic
  sensor, whose task is never created (`main.c:114`).
* Configuration: the PHY and the MAC, CAN timing and filters, the WiFi module's
  set-up at start, DHCP (`LWIP_DHCP` is 0). WiFi transmission of feedback.
* The linkage's trigonometry and float rounding (a table and integers instead).
* Kernel objects other than the message queue: semaphores, flags, suspension. The start
  task's `OSStatInit` measures an idle second in which other tasks run.
* Some weaknesses that leave nothing to state, or nothing after them that the
  source defines: the XOR check whose failure is not acted on (`message.c:99`);
  `memset` before the test for null (`sys_arch.c:62`); `sys_mbox_post`, which
  spins while a mailbox is full (`sys_arch.c:93`); a message completed between
  the WiFi task's two looks and dropped by `atk_8266_at_response`
  (`wifiap.c:85`); `sys_arch_mbox_tryfetch`, which waits a tick.

## Plan

Done: all parts in the table above. What is left, most important first:

1. The kernel's semaphores, which lwIP's API calls wait on, and mailboxes on
   `UcosSched`'s queue with `sys_mbox_post`'s spinning.
2. The WiFi task's transmission of feedback, in `InterQueueRace`'s setting.
