--------------------------------- MODULE Boot ---------------------------------
(****************************************************************************)
(* The start of the robot: main (USER/main.c) call by call, while the       *)
(* handlers it has enabled already run; the tasks it creates, the tasks     *)
(* start_task creates, and what the TCP tasks take from the kernel's pools  *)
(* before they serve anybody.  A handler is one step: what it uses has to   *)
(* be set up, what it hands on needs a task that takes it.                  *)
(****************************************************************************)
EXTENDS Integers, Sequences, FiniteSets

CONSTANTS OS_MAX_TASKS, OS_MAX_EVENTS, OS_MAX_QS    \* os_cfg.h: 10, 10 and 5

ASSUME BootAssumption == {OS_MAX_TASKS, OS_MAX_EVENTS, OS_MAX_QS} \subseteq Nat

Prio == [timer |-> 3, tcpip |-> 5, server |-> 6, client |-> 7, can |-> 8, key |-> 8, led |-> 9,
         wifi |-> 10, display |-> 10, start |-> 11, imu |-> 20, stat |-> 62, idle |-> 63]

(* What fills in a handler or a task, and the tasks that empty it.           *)
Servers == [DCQ |-> {"can"}, FMQ |-> {"wifi", "client"}, mbox |-> {"tcpip"},
            window |-> {"imu"}, uart3 |-> {"wifi"}]

OrderSwapped == <<      \* slip: the CAN task is created before OSInit
  "uart_init", "usart6_init", "usart3_init", "usart2_init", "InitDriverCmdQueue",
  "can_task_init", "OSInit", "MPU6050_task_init", "wifi_task_init",
  "ETH_Mem_Malloc", "LAN8720_Init", "tcpip_init", "netif_add",
  "tcp_client_init", "tcp_server_init", "start", "OSStart">>

(* main's calls and, from ETH_Mem_Malloc on, those of lwip_comm_init.        *)
MainOrder == <<
  "uart_init", "usart6_init", "usart3_init", "usart2_init", "InitDriverCmdQueue",
  "OSInit", "can_task_init", "MPU6050_task_init", "wifi_task_init",
  "ETH_Mem_Malloc", "LAN8720_Init", "tcpip_init", "netif_add",
  "tcp_client_init", "tcp_server_init", "start", "OSStart">>
Place(call) == CHOOSE k \in DOMAIN MainOrder : MainOrder[k] = call

VARIABLES
  main,         \* the call main is at; beyond the last: the tasks run
  todo,         \* tasks start_task has still to create
  tasks,        \* tasks that exist, by name
  refused,      \* tasks OSTaskCreate did not create
  tcbs, ecbs, qcbs,       \* control blocks of tasks, events and queues the kernel has left
  irqs,         \* interrupts that are enabled
  ready,        \* what has been set up
  netconns,     \* netconns that exist, by their owner
  denied,       \* owners that asked for one when the pools were empty
  fed,          \* queues something was put into
  early         \* <<handler, thing>>: used before it was set up

bootVars == <<main, todo, tasks, refused, tcbs, ecbs, qcbs, irqs, ready, netconns, denied,
              fed, early>>
kernel == <<tasks, refused, tcbs, ecbs, qcbs>>
lwip == <<netconns, denied>>
outside == <<fed, early>>

BootInit ==
  /\ main = 1 /\ todo = <<"led", "key", "display">>
  /\ tasks = {} /\ refused = {} /\ tcbs = 0 /\ ecbs = 0 /\ qcbs = 0
  /\ irqs = {} /\ ready = {} /\ netconns = {} /\ denied = {} /\ fed = {} /\ early = {}

Running == main > Len(MainOrder)
-----------------------------------------------------------------------------
(* OSTaskCreate refuses a priority that is taken, and a task without a TCB.  *)
OSTaskCreate(t) ==
  IF tcbs > 0 /\ \A u \in tasks : Prio[u] # Prio[t]
  THEN tasks' = tasks \cup {t} /\ tcbs' = tcbs - 1 /\ UNCHANGED refused
  ELSE refused' = refused \cup {t} /\ UNCHANGED <<tasks, tcbs>>

Calls(f) == ~Running /\ MainOrder[main] = f
Returns == main' = main + 1
Enables(f, irq, thing) ==
  /\ Calls(f) /\ Returns /\ irqs' = irqs \cup {irq} /\ ready' = ready \cup {thing}
  /\ UNCHANGED <<todo, kernel, lwip, outside>>
Creates(f, t) ==
  /\ Calls(f) /\ Returns /\ OSTaskCreate(t)
  /\ UNCHANGED <<todo, ecbs, qcbs, irqs, ready, lwip, outside>>

(* The interfaces; nothing but EnFeedBackMsgQueue needs another one's.       *)
Uarts ==
  \/ Enables("uart_init", "USART1", "USART1") \/ Enables("usart6_init", "USART6", "USART6")
  \/ Enables("usart3_init", "USART3", "USART3") \/ Enables("usart2_init", "USART2", "USART2")

InitDriverCmdQueue ==
  /\ Calls("InitDriverCmdQueue") /\ Returns /\ ready' = ready \cup {"DCQ", "FMQ"}
  /\ UNCHANGED <<todo, kernel, irqs, lwip, outside>>

(* The free lists, the idle and the statistics task, the timer task with its *)
(* two semaphores.                                                           *)
OSInit ==
  /\ Calls("OSInit") /\ Returns
  /\ tasks' = {"idle", "stat", "timer"} /\ tcbs' = OS_MAX_TASKS + 2 - 3
  /\ ecbs' = OS_MAX_EVENTS - 2 /\ qcbs' = OS_MAX_QS
  /\ UNCHANGED <<todo, refused, irqs, ready, lwip, outside>>

(* can_task_init stands for InitDriver too, which puts frames into DCQ.      *)
TaskInits ==
  \/ /\ Calls("can_task_init") /\ Returns /\ OSTaskCreate("can") /\ fed' = fed \cup {"DCQ"}
     /\ UNCHANGED <<todo, ecbs, qcbs, irqs, ready, lwip, early>>
  \/ Creates("MPU6050_task_init", "imu") \/ Creates("wifi_task_init", "wifi")
  \/ Creates("tcp_client_init", "client") \/ Creates("tcp_server_init", "server")
  \/ Creates("start", "start")

ETH_Mem_Malloc ==
  /\ Calls("ETH_Mem_Malloc") /\ Returns /\ ready' = ready \cup {"rings"}
  /\ UNCHANGED <<todo, kernel, irqs, lwip, outside>>

(* Without a link the PHY does not answer: lwip_comm_init returns 2 and main *)
(* leaves the TCP tasks out.                                                 *)
LAN8720_Init ==
  /\ Calls("LAN8720_Init") /\ (Returns \/ main' = Place("start"))
  /\ UNCHANGED <<todo, kernel, irqs, ready, lwip, outside>>

(* lwip_init's mem_mutex, the mailbox, tcpip_thread.                         *)
tcpip_init ==
  /\ Calls("tcpip_init") /\ Returns
  /\ ecbs' = ecbs - 2 /\ qcbs' = qcbs - 1 /\ ready' = ready \cup {"mbox"}
  /\ OSTaskCreate("tcpip")
  /\ UNCHANGED <<todo, irqs, lwip, outside>>

(* In a critical section; its ethernetif_init starts the DMA.                *)
netif_add == Enables("netif_add", "ETH", "netif")

OSStart ==
  /\ Calls("OSStart") /\ Returns
  /\ UNCHANGED <<todo, kernel, irqs, ready, lwip, outside>>
Main ==
  \/ Uarts \/ InitDriverCmdQueue \/ OSInit \/ TaskInits
  \/ ETH_Mem_Malloc \/ LAN8720_Init \/ tcpip_init \/ netif_add \/ OSStart
-----------------------------------------------------------------------------
(* start_task, which then suspends itself for good.                          *)
start_task ==
  /\ Running /\ "start" \in tasks /\ todo # <<>> /\ todo' = Tail(todo)
  /\ OSTaskCreate(Head(todo))
  /\ UNCHANGED <<main, ecbs, qcbs, irqs, ready, lwip, outside>>

(* netconn_alloc takes a semaphore and a mailbox.  The listener's mailbox is *)
(* exchanged for another one (do_listen).                                    *)
NetconnAlloc(owner) ==
  /\ IF ecbs >= 2 /\ qcbs >= 1
     THEN /\ netconns' = netconns \cup {owner} /\ ecbs' = ecbs - 2 /\ qcbs' = qcbs - 1
          /\ UNCHANGED denied
     ELSE denied' = denied \cup {owner} /\ UNCHANGED <<netconns, ecbs, qcbs>>
  /\ UNCHANGED <<main, todo, tasks, refused, tcbs, irqs, ready, outside>>

(* The server's task, the more urgent one, listens first.                    *)
TcpStarts ==
  /\ Running
  /\ \/ "server" \in tasks /\ "listener" \notin netconns \cup denied /\ NetconnAlloc("listener")
     \/ /\ "client" \in tasks /\ "client" \notin netconns
        /\ "server" \in tasks => "listener" \in netconns \cup denied
        /\ NetconnAlloc("client")
     \/ /\ "listener" \in netconns
        /\ \E p \in {"peer1", "peer2"} \ netconns : NetconnAlloc(p)
-----------------------------------------------------------------------------
Uses(h, things) == early' = early \cup {<<h, x>> : x \in things \ ready}
Feeds(qs) == fed' = fed \cup qs
Inside == <<main, todo, kernel, irqs, ready, lwip>>

(* A command: set points and polls, and its reply, which is also sent out on *)
(* USART6 (EnFeedBackMsgQueue).                                              *)
Command(u) ==
  /\ u \in irqs \cap {"USART1", "USART2"}
  /\ Uses(u, {"DCQ", "FMQ", "USART6"}) /\ Feeds({"DCQ", "FMQ"})
  /\ UNCHANGED Inside

(* The sensor, and the WiFi module.                                          *)
ByteCame ==
  /\ \/ "USART6" \in irqs /\ Feeds({"window"})
     \/ "USART3" \in irqs /\ Feeds({"uart3"})
  /\ UNCHANGED <<Inside, early>>

FrameCame ==
  /\ "ETH" \in irqs
  /\ Uses("ETH", {"rings", "mbox", "netif"}) /\ Feeds({"mbox"})
  /\ UNCHANGED Inside

BootNext ==
  \/ Main \/ start_task \/ TcpStarts
  \/ \E u \in {"USART1", "USART2"} : Command(u)
  \/ ByteCame \/ FrameCame
BootSpec == BootInit /\ [][BootNext]_bootVars
-----------------------------------------------------------------------------
BootTypeOK ==
  /\ main \in 1 .. Len(MainOrder) + 1 /\ todo \in Seq(DOMAIN Prio)
  /\ tasks \cup refused \subseteq DOMAIN Prio
  /\ tcbs \in 0 .. OS_MAX_TASKS + 2 /\ ecbs \in 0 .. OS_MAX_EVENTS /\ qcbs \in 0 .. OS_MAX_QS
  /\ irqs \subseteq {"USART1", "USART2", "USART3", "USART6", "ETH"}
  /\ ready \subseteq irqs \cup {"DCQ", "FMQ", "rings", "mbox", "netif"}
  /\ netconns \cup denied \subseteq {"listener", "client", "peer1", "peer2"}
  /\ fed \subseteq DOMAIN Servers

(* Only a command by USART1 or USART2 can find something not set up.         *)
ReadyBeforeUse == \A e \in early : e[1] \in {"USART1", "USART2"}

(* Every queue that is fed is emptied by a task that exists, with or without *)
(* a network.                                                                *)
Served == Running => \A q \in fed : Servers[q] \cap tasks # {}

(* Two priorities are given twice, and the kernel has blocks for only three  *)
(* netconns; still, whatever the handlers do in between, it is only the KEY  *)
(* and the display task that are never created (main.c:165-166), nothing but *)
(* a command by USART1 or USART2 comes too early (main.c:80-91), the server  *)
(* can always listen, and it is only beside two peers that the client finds  *)
(* no netconn.                                                               *)
BootSound ==
  /\ ReadyBeforeUse /\ Served
  /\ refused \subseteq {"key", "display"}
  /\ "listener" \notin denied
  /\ "client" \in denied => Cardinality(netconns) >= 3
=============================================================================
