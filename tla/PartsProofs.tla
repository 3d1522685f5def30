----------------------------- MODULE PartsProofs -----------------------------
(****************************************************************************)
(* Proofs about three parts that share nothing: the start of the robot, the *)
(* line of the WiFi module and the timers of lwIP.                          *)
(****************************************************************************)
EXTENDS Boot, WifiAt, SysTimeouts, FiniteSetTheorems, SequenceTheorems, WellFoundedInduction,
        TLAPS

(****************************************************************************)
(* The start, for pools of any size that suffices: what main has reached    *)
(* says which tasks exist, how many control blocks the calls still to come  *)
(* find, and what a handler that is enabled can rely on.                    *)
(****************************************************************************)
Created ==
  [idle |-> 6, stat |-> 6, timer |-> 6, can |-> 7, imu |-> 8, wifi |-> 9,
   tcpip |-> 12, client |-> 14, server |-> 15, start |-> 16, led |-> 17]

AllTodo == <<"led", "key", "display">>
TodoInv ==
  /\ todo \in {AllTodo, <<"key", "display">>, <<"display">>, <<>>}
  /\ todo # AllTodo => main > 17
  /\ "led" \in tasks => todo # AllTodo

TasksInv ==
  /\ \A task \in tasks : task \in DOMAIN Created /\ Created[task] < main
  /\ \A task \in {"can", "imu", "wifi", "start"} : Created[task] < main => task \in tasks
  /\ main \in 13 .. 15 => "tcpip" \in tasks
  /\ main = 15 => "client" \in tasks
  /\ "client" \in tasks /\ main > 15 => "server" \in tasks
  /\ "client" \in tasks \/ "server" \in tasks => "tcpip" \in tasks
  /\ refused \subseteq {"key", "display"}

TcbsInv ==
  /\ tcbs \in 0 .. OS_MAX_TASKS + 2
  /\ main \in 7 .. 9 => tcbs + main >= 15
  /\ main \in 10 .. 12 => tcbs >= 5
  /\ main \in 13 .. 14 => tcbs >= 4
  /\ main \in 15 .. 17 => tcbs + main >= 18
  /\ todo = AllTodo /\ main > 17 => tcbs >= 1

IrqsInv ==
  /\ irqs \subseteq {"USART1", "USART2", "USART3", "USART6", "ETH"}
  /\ ready \subseteq irqs \cup {"DCQ", "FMQ", "rings", "mbox", "netif"}
  /\ main > 10 => "rings" \in ready
  /\ main \in 13 .. 15 => "mbox" \in ready
  /\ "ETH" \in irqs => {"rings", "mbox", "netif"} \subseteq ready /\ "tcpip" \in tasks

FedInv ==
  /\ fed \subseteq DOMAIN Servers
  /\ "mbox" \in fed => "tcpip" \in tasks
  /\ ReadyBeforeUse

Taken3 == Cardinality(netconns)
Lwip == IF "tcpip" \in tasks THEN 1 ELSE 0
PoolsInv ==
  /\ netconns \cup denied \subseteq {"listener", "client", "peer1", "peer2"}
  /\ ecbs \in Nat /\ qcbs \in Nat
  /\ main <= 6 => ecbs = 0 /\ qcbs = 0
  /\ main > 6 => /\ ecbs + 2 * Taken3 + 2 * Lwip = OS_MAX_EVENTS - 2
                 /\ qcbs + Taken3 + Lwip = OS_MAX_QS
  /\ netconns # {} => main > 17 /\ "listener" \in netconns /\ "tcpip" \in tasks
  /\ "listener" \notin denied
  /\ "client" \in denied => Taken3 >= 3

BootInv ==
  /\ main \in 1 .. 18
  /\ TodoInv /\ TasksInv /\ TcbsInv /\ IrqsInv /\ FedInv /\ PoolsInv

(* What os_cfg.h has to provide; it provides 10, 10 and 5.                  *)
Suffices == OS_MAX_TASKS >= 9 /\ OS_MAX_EVENTS >= 10 /\ OS_MAX_QS >= 4
-----------------------------------------------------------------------------
LEMMA OrderFacts ==
  /\ Len(MainOrder) = 17 /\ DOMAIN MainOrder = 1 .. 17
  /\ \A m \in 1 .. 17 :
       /\ MainOrder[m] = "uart_init" => m = 1
       /\ MainOrder[m] = "usart6_init" => m = 2
       /\ MainOrder[m] = "usart3_init" => m = 3
       /\ MainOrder[m] = "usart2_init" => m = 4
       /\ MainOrder[m] = "InitDriverCmdQueue" => m = 5
       /\ MainOrder[m] = "OSInit" => m = 6
       /\ MainOrder[m] = "can_task_init" => m = 7
       /\ MainOrder[m] = "MPU6050_task_init" => m = 8
       /\ MainOrder[m] = "wifi_task_init" => m = 9
       /\ MainOrder[m] = "ETH_Mem_Malloc" => m = 10
       /\ MainOrder[m] = "LAN8720_Init" => m = 11
       /\ MainOrder[m] = "tcpip_init" => m = 12
       /\ MainOrder[m] = "netif_add" => m = 13
       /\ MainOrder[m] = "tcp_client_init" => m = 14
       /\ MainOrder[m] = "tcp_server_init" => m = 15
       /\ MainOrder[m] = "start" <=> m = 16
       /\ MainOrder[m] = "OSStart" => m = 17
BY DEF MainOrder

LEMMA StartPlace == Place("start") = 16
BY OrderFacts DEF Place

LEMMA CallsAt ==
  ASSUME main \in 1 .. 18
  PROVE  /\ Calls("uart_init") => main = 1
         /\ Calls("usart6_init") => main = 2
         /\ Calls("usart3_init") => main = 3
         /\ Calls("usart2_init") => main = 4
         /\ Calls("InitDriverCmdQueue") => main = 5
         /\ Calls("OSInit") => main = 6
         /\ Calls("can_task_init") => main = 7
         /\ Calls("MPU6050_task_init") => main = 8
         /\ Calls("wifi_task_init") => main = 9
         /\ Calls("ETH_Mem_Malloc") => main = 10
         /\ Calls("LAN8720_Init") => main = 11
         /\ Calls("tcpip_init") => main = 12
         /\ Calls("netif_add") => main = 13
         /\ Calls("tcp_client_init") => main = 14
         /\ Calls("tcp_server_init") => main = 15
         /\ Calls("start") => main = 16
         /\ Calls("OSStart") => main = 17
         /\ Running <=> main = 18
<1>1. Running <=> main = 18  BY OrderFacts DEF Running
<1>2. ~Running => main \in 1 .. 17  BY <1>1
<1> QED  BY <1>1, <1>2, OrderFacts DEF Calls

LEMMA Prios ==
  /\ DOMAIN Prio = {"timer", "tcpip", "server", "client", "can", "key", "led", "wifi", "display",
                    "start", "imu", "stat", "idle"}
  /\ Prio["timer"] = 3 /\ Prio["tcpip"] = 5 /\ Prio["server"] = 6 /\ Prio["client"] = 7
  /\ Prio["can"] = 8 /\ Prio["key"] = 8 /\ Prio["led"] = 9 /\ Prio["wifi"] = 10
  /\ Prio["display"] = 10 /\ Prio["start"] = 11 /\ Prio["imu"] = 20 /\ Prio["stat"] = 62
  /\ Prio["idle"] = 63
BY DEF Prio

LEMMA CreatedFacts ==
  /\ DOMAIN Created = {"idle", "stat", "timer", "can", "imu", "wifi", "tcpip", "client", "server",
                       "start", "led"}
  /\ Created["idle"] = 6 /\ Created["stat"] = 6 /\ Created["timer"] = 6 /\ Created["can"] = 7
  /\ Created["imu"] = 8 /\ Created["wifi"] = 9 /\ Created["tcpip"] = 12 /\ Created["client"] = 14
  /\ Created["server"] = 15 /\ Created["start"] = 16 /\ Created["led"] = 17
BY DEF Created

(* A task whose turn it is is created: a block is left and its priority is  *)
(* free.                                                                    *)
LEMMA TaskIsCreated ==
  ASSUME BootInv, NEW task \in DOMAIN Created, OSTaskCreate(task), tcbs > 0, task \notin tasks
  PROVE  tasks' = tasks \cup {task} /\ tcbs' = tcbs - 1 /\ refused' = refused
<1>1. \A u \in tasks : u \in DOMAIN Created /\ u # task  BY DEF BootInv, TasksInv
<1>2. \A u \in DOMAIN Created : Prio[u] = Prio[task] => u = task
  BY Prios, CreatedFacts
<1>3. \A u \in tasks : Prio[u] # Prio[task]  BY <1>1, <1>2
<1> QED  BY <1>3 DEF OSTaskCreate
LEMMA BootInitInv == ASSUME Suffices, BootInit PROVE BootInv
<1>1. Taken3 = 0  BY FS_EmptySet DEF BootInit, Taken3
<1>2. TodoInv /\ TasksInv /\ TcbsInv
  BY BootAssumption, CreatedFacts DEF Suffices, BootInit, TodoInv, TasksInv, TcbsInv, AllTodo
<1>3. IrqsInv /\ FedInv
  BY DEF BootInit, IrqsInv, FedInv, ReadyBeforeUse
<1>4. PoolsInv
  BY <1>1 DEF BootInit, PoolsInv
<1> QED  BY <1>2, <1>3, <1>4 DEF BootInit, BootInv

(* Enabling an interface.                                                   *)
LEMMA UartsInv == ASSUME BootInv, Uarts PROVE BootInv'
<1>1. /\ main \in 1 .. 4 /\ main' = main + 1
      /\ \E u \in {"USART1", "USART2", "USART3", "USART6"} :
           irqs' = irqs \cup {u} /\ ready' = ready \cup {u}
      /\ UNCHANGED <<todo, tasks, refused, tcbs, ecbs, qcbs, netconns, denied, fed, early>>
  BY CallsAt DEF BootInv, Uarts, Enables, Returns, kernel, lwip, outside
<1>2. TodoInv' /\ TcbsInv'
  BY <1>1 DEF BootInv, TodoInv, TcbsInv
<1>3. TasksInv'
  BY <1>1, CreatedFacts DEF BootInv, TasksInv
<1>4. IrqsInv' /\ FedInv'
  BY <1>1 DEF BootInv, IrqsInv, FedInv, ReadyBeforeUse
<1>5. PoolsInv'
  BY <1>1 DEF BootInv, PoolsInv, Taken3, Lwip
<1> QED  BY <1>1, <1>2, <1>3, <1>4, <1>5 DEF BootInv

LEMMA SetUpInv ==
  ASSUME BootInv, InitDriverCmdQueue \/ ETH_Mem_Malloc \/ LAN8720_Init \/ OSStart
  PROVE  BootInv'
<1>1. /\ \/ main \in {5, 10, 11, 17} /\ main' = main + 1
         \/ main = 11 /\ main' = 16
      /\ ready \subseteq ready' /\ ready' \subseteq ready \cup {"DCQ", "FMQ", "rings"}
      /\ main = 10 => "rings" \in ready'
      /\ UNCHANGED <<todo, tasks, refused, tcbs, ecbs, qcbs, irqs, netconns, denied, fed, early>>
  BY CallsAt, StartPlace DEF BootInv, InitDriverCmdQueue, ETH_Mem_Malloc, LAN8720_Init, OSStart,
     Returns, kernel, lwip, outside
<1>2. TodoInv' /\ TcbsInv'
  BY <1>1 DEF BootInv, TodoInv, TcbsInv, AllTodo
<1>3. TasksInv'
  BY <1>1, CreatedFacts DEF BootInv, TasksInv
<1>4. IrqsInv' /\ FedInv'
  BY <1>1 DEF BootInv, IrqsInv, FedInv, ReadyBeforeUse
<1>5. PoolsInv'
  BY <1>1 DEF BootInv, PoolsInv, Taken3, Lwip
<1> QED  BY <1>1, <1>2, <1>3, <1>4, <1>5 DEF BootInv

LEMMA OSInitInv == ASSUME Suffices, BootInv, OSInit PROVE BootInv'
<1>1. /\ main = 6 /\ main' = 7 /\ tasks' = {"idle", "stat", "timer"}
      /\ tcbs' = OS_MAX_TASKS + 2 - 3 /\ ecbs' = OS_MAX_EVENTS - 2 /\ qcbs' = OS_MAX_QS
      /\ UNCHANGED <<todo, refused, irqs, ready, netconns, denied, fed, early>>
  BY CallsAt DEF BootInv, OSInit, Returns, lwip, outside
<1>2. tasks = {}
  BY <1>1, CreatedFacts DEF BootInv, TasksInv
<1>3. TodoInv'
  BY <1>1 DEF BootInv, TodoInv
<1>4. TcbsInv'
  BY <1>1, BootAssumption DEF Suffices, BootInv, TodoInv, TcbsInv
<1>5. TasksInv'
  BY <1>1, CreatedFacts DEF BootInv, TasksInv
<1>6. IrqsInv' /\ FedInv'
  BY <1>1, <1>2 DEF BootInv, IrqsInv, FedInv, ReadyBeforeUse
<1>7. PoolsInv'
  <2>1. netconns = {} /\ "client" \notin denied /\ Taken3 = 0
    BY <1>1, FS_EmptySet DEF BootInv, PoolsInv, Taken3
  <2>2. Taken3' = 0 /\ Lwip' = 0
    BY <1>1, <2>1 DEF Taken3, Lwip
  <2> QED  BY <1>1, <2>1, <2>2, BootAssumption DEF Suffices, BootInv, PoolsInv
<1> QED  BY <1>1, <1>3, <1>4, <1>5, <1>6, <1>7 DEF BootInv

(* A task of main's; can_task_init also feeds a queue.                      *)
LEMMA TaskInitsInv == ASSUME BootInv, TaskInits PROVE BootInv'
<1>1. PICK task \in {"can", "imu", "wifi", "client", "server", "start"} :
        /\ main = Created[task] /\ main' = main + 1 /\ OSTaskCreate(task)
        /\ fed \subseteq fed' /\ fed' \subseteq fed \cup {"DCQ"}
        /\ UNCHANGED <<todo, ecbs, qcbs, irqs, ready, netconns, denied, early>>
  BY CallsAt, CreatedFacts DEF BootInv, TaskInits, Creates, Returns, lwip, outside
<1>2. task \in DOMAIN Created /\ task \notin tasks
  BY <1>1, CreatedFacts DEF BootInv, TasksInv
<1>3. tcbs > 0
  BY <1>1, CreatedFacts DEF BootInv, TcbsInv
<1>4. tasks' = tasks \cup {task} /\ tcbs' = tcbs - 1 /\ refused' = refused
  BY <1>1, <1>2, <1>3, TaskIsCreated
<1>5. TodoInv'
  BY <1>1, <1>4 DEF BootInv, TodoInv
<1>6. TcbsInv'
  <2>1. main \in {7, 8, 9, 14, 15, 16}
    BY <1>1, CreatedFacts
  <2>2. tcbs \in 0 .. OS_MAX_TASKS + 2 /\ tcbs' \in 0 .. OS_MAX_TASKS + 2
    BY <1>3, <1>4, BootAssumption DEF BootInv, TcbsInv
  <2>3. CASE main \in {7, 8, 9}
    <3>1. tcbs + main >= 15  BY <2>3 DEF BootInv, TcbsInv
    <3> QED  BY <1>1, <1>4, <2>2, <2>3, <3>1, BootAssumption DEF TcbsInv
  <2>4. CASE main = 14
    <3>1. tcbs >= 4  BY <2>4 DEF BootInv, TcbsInv
    <3> QED  BY <1>1, <1>4, <2>2, <2>4, <3>1, BootAssumption DEF TcbsInv
  <2>5. CASE main \in {15, 16}
    <3>1. tcbs + main >= 18  BY <2>5 DEF BootInv, TcbsInv
    <3> QED  BY <1>1, <1>4, <2>2, <2>5, <3>1, BootAssumption DEF TcbsInv
  <2> QED  BY <2>1, <2>3, <2>4, <2>5
<1>7. TasksInv'
  BY <1>1, <1>4, CreatedFacts DEF BootInv, TasksInv
<1>8. IrqsInv' /\ FedInv'
  BY <1>1, <1>4, CreatedFacts DEF BootInv, IrqsInv, FedInv, ReadyBeforeUse, Servers
<1>9. PoolsInv'
  BY <1>1, <1>4, CreatedFacts DEF BootInv, PoolsInv, Taken3, Lwip
<1> QED  BY <1>1, <1>5, <1>6, <1>7, <1>8, <1>9, CreatedFacts DEF BootInv

LEMMA TcpipInitInv == ASSUME Suffices, BootInv, tcpip_init PROVE BootInv'
<1>1. /\ main = 12 /\ main' = 13 /\ OSTaskCreate("tcpip")
      /\ ecbs' = ecbs - 2 /\ qcbs' = qcbs - 1 /\ ready' = ready \cup {"mbox"}
      /\ UNCHANGED <<todo, irqs, netconns, denied, fed, early>>
  BY CallsAt DEF BootInv, tcpip_init, Returns, lwip, outside
<1>2. "tcpip" \notin tasks /\ "tcpip" \in DOMAIN Created
  BY <1>1, CreatedFacts DEF BootInv, TasksInv
<1>3. tcbs >= 5 /\ tcbs \in Nat
  BY <1>1 DEF BootInv, TcbsInv
<1>4. tasks' = tasks \cup {"tcpip"} /\ tcbs' = tcbs - 1 /\ refused' = refused
  BY <1>1, <1>2, <1>3, TaskIsCreated
<1>5. TodoInv'
  BY <1>1, <1>4 DEF BootInv, TodoInv
<1>6. TcbsInv'
  <2>1. tcbs \in 0 .. OS_MAX_TASKS + 2 /\ tcbs' \in 0 .. OS_MAX_TASKS + 2
    BY <1>3, <1>4, BootAssumption DEF BootInv, TcbsInv
  <2> QED  BY <1>1, <1>3, <1>4, <2>1, BootAssumption DEF TcbsInv
<1>7. TasksInv'
  BY <1>1, <1>4, CreatedFacts DEF BootInv, TasksInv
<1>8. IrqsInv' /\ FedInv'
  BY <1>1, <1>4 DEF BootInv, IrqsInv, FedInv, ReadyBeforeUse
<1>9. PoolsInv'
  <2>1. netconns = {} /\ Taken3 = 0 /\ Lwip = 0
    BY <1>1, <1>2, FS_EmptySet DEF BootInv, PoolsInv, Taken3, Lwip
  <2>2. ecbs = OS_MAX_EVENTS - 2 /\ qcbs = OS_MAX_QS
    BY <1>1, <2>1, BootAssumption DEF BootInv, PoolsInv
  <2>3. Taken3' = 0 /\ Lwip' = 1
    BY <1>1, <1>4, <2>1 DEF Taken3, Lwip
  <2> QED  BY <1>1, <2>1, <2>2, <2>3, BootAssumption DEF Suffices, BootInv, PoolsInv
<1> QED  BY <1>1, <1>5, <1>6, <1>7, <1>8, <1>9 DEF BootInv

LEMMA NetifInv == ASSUME BootInv, netif_add PROVE BootInv'
<1>1. /\ main = 13 /\ main' = 14 /\ irqs' = irqs \cup {"ETH"} /\ ready' = ready \cup {"netif"}
      /\ UNCHANGED <<todo, tasks, refused, tcbs, ecbs, qcbs, netconns, denied, fed, early>>
  BY CallsAt DEF BootInv, netif_add, Enables, Returns, kernel, lwip, outside
<1>2. TodoInv' /\ TcbsInv'
  BY <1>1 DEF BootInv, TodoInv, TcbsInv
<1>3. TasksInv'
  BY <1>1, CreatedFacts DEF BootInv, TasksInv
<1>4. IrqsInv' /\ FedInv'
  BY <1>1 DEF BootInv, IrqsInv, TasksInv, FedInv, ReadyBeforeUse
<1>5. PoolsInv'
  BY <1>1 DEF BootInv, PoolsInv, Taken3, Lwip
<1> QED  BY <1>1, <1>2, <1>3, <1>4, <1>5 DEF BootInv

(* start_task: only the LED task is created, for the priorities of the      *)
(* others are those of the CAN and the WiFi task.                           *)
LEMMA StartTaskInv == ASSUME BootInv, start_task PROVE BootInv'
<1>1. /\ main = 18 /\ main' = main /\ todo # <<>> /\ todo' = Tail(todo) /\ OSTaskCreate(Head(todo))
      /\ UNCHANGED <<ecbs, qcbs, irqs, ready, netconns, denied, fed, early>>
  BY CallsAt DEF BootInv, start_task, lwip, outside
<1>2. "can" \in tasks /\ "wifi" \in tasks
  BY <1>1, CreatedFacts DEF BootInv, TasksInv
<1>3. CASE todo = AllTodo
  <2>1. Head(todo) = "led" /\ todo' = <<"key", "display">>
    BY <1>1, <1>3 DEF AllTodo
  <2>2. "led" \notin tasks /\ "led" \in DOMAIN Created /\ tcbs >= 1 /\ tcbs \in Nat
    BY <1>1, <1>3, CreatedFacts DEF BootInv, TodoInv, TcbsInv
  <2>3. tasks' = tasks \cup {"led"} /\ tcbs' = tcbs - 1 /\ refused' = refused
    BY <1>1, <2>1, <2>2, TaskIsCreated
  <2>4. todo' # AllTodo
    BY <2>1 DEF AllTodo
  <2>5. TodoInv'
    <3>1. todo' \in {AllTodo, <<"key", "display">>, <<"display">>, <<>>}  BY <2>1
    <3>2. main' > 17  BY <1>1
    <3> QED  BY <2>4, <3>1, <3>2 DEF TodoInv, AllTodo
  <2>6. TcbsInv'
    <3>1. tcbs' \in 0 .. OS_MAX_TASKS + 2
      BY <2>2, <2>3, BootAssumption DEF BootInv, TcbsInv
    <3> QED  BY <1>1, <2>4, <3>1 DEF TcbsInv
  <2>7. TasksInv'
    BY <1>1, <2>3, CreatedFacts DEF BootInv, TasksInv
  <2>8. IrqsInv' /\ FedInv' /\ PoolsInv'
    BY <1>1, <2>3 DEF BootInv, IrqsInv, FedInv, ReadyBeforeUse, PoolsInv, Taken3, Lwip
  <2> QED  BY <1>1, <2>5, <2>6, <2>7, <2>8 DEF BootInv
<1>4. CASE todo # AllTodo
  <2>0. todo = <<"key", "display">> \/ todo = <<"display">>
    BY <1>1, <1>4 DEF BootInv, TodoInv
  <2>1. /\ Head(todo) \in {"key", "display"} /\ todo' \in {<<"display">>, <<>>}
        /\ todo' # AllTodo
    <3>1. CASE todo = <<"key", "display">>
      <4>1. Head(todo) = "key" /\ todo' = <<"display">>  BY <1>1, <3>1
      <4> QED  BY <4>1 DEF AllTodo
    <3>2. CASE todo = <<"display">>
      <4>1. Head(todo) = "display" /\ todo' = <<>>  BY <1>1, <3>2
      <4> QED  BY <4>1 DEF AllTodo
    <3> QED  BY <2>0, <3>1, <3>2
  <2>2. refused' = refused \cup {Head(todo)} /\ UNCHANGED <<tasks, tcbs>>
    BY <1>1, <1>2, <2>1, Prios DEF OSTaskCreate
  <2>3. TodoInv' /\ TcbsInv'
    BY <1>1, <2>1, <2>2 DEF BootInv, TodoInv, TcbsInv
  <2>4. TasksInv'
    BY <1>1, <2>1, <2>2, CreatedFacts DEF BootInv, TasksInv
  <2>5. IrqsInv' /\ FedInv' /\ PoolsInv'
    BY <1>1, <2>2 DEF BootInv, IrqsInv, FedInv, ReadyBeforeUse, PoolsInv, Taken3, Lwip
  <2> QED  BY <1>1, <2>3, <2>4, <2>5 DEF BootInv
<1> QED  BY <1>3, <1>4
-----------------------------------------------------------------------------
LEMMA CountedNetconns ==
  ASSUME BootInv
  PROVE  IsFiniteSet(netconns) /\ Taken3 \in Nat
<1>1. IsFiniteSet({"listener", "client", "peer1", "peer2"})
  <2>1. IsFiniteSet({} \cup {"listener"})  BY FS_EmptySet, FS_AddElement
  <2>2. IsFiniteSet(({} \cup {"listener"}) \cup {"client"})  BY <2>1, FS_AddElement
  <2>3. IsFiniteSet((({} \cup {"listener"}) \cup {"client"}) \cup {"peer1"})
    BY <2>2, FS_AddElement
  <2>4. IsFiniteSet(((({} \cup {"listener"}) \cup {"client"}) \cup {"peer1"}) \cup {"peer2"})
    BY <2>3, FS_AddElement
  <2>5. ((({} \cup {"listener"}) \cup {"client"}) \cup {"peer1"}) \cup {"peer2"}
          = {"listener", "client", "peer1", "peer2"}
    OBVIOUS
  <2> QED  BY <2>4, <2>5
<1>2. netconns \subseteq {"listener", "client", "peer1", "peer2"}
  BY DEF BootInv, PoolsInv
<1>3. IsFiniteSet(netconns)  BY <1>1, <1>2, FS_Subset
<1> QED  BY <1>3, FS_CardinalityType DEF Taken3

(* A netconn, if the pools still hold a mailbox and its semaphore.          *)
LEMMA NetconnInv ==
  ASSUME Suffices, BootInv, NEW o \in {"listener", "client", "peer1", "peer2"}, o \notin netconns,
         NetconnAlloc(o), main = 18, "tcpip" \in tasks,
         o = "listener" => netconns = {}, o # "listener" => "listener" \in netconns
  PROVE  BootInv'
<1>1. UNCHANGED <<main, todo, tasks, refused, tcbs, irqs, ready, fed, early>>
  BY DEF NetconnAlloc, outside
<1>2. TodoInv' /\ TcbsInv' /\ IrqsInv' /\ FedInv'
  BY <1>1 DEF BootInv, TodoInv, TcbsInv, IrqsInv, FedInv, ReadyBeforeUse
<1>3. TasksInv'
  BY <1>1, CreatedFacts DEF BootInv, TasksInv
<1>4. IsFiniteSet(netconns) /\ Taken3 \in Nat
  BY CountedNetconns
<1>5. Lwip = 1 /\ Lwip' = 1 /\ ecbs \in Nat /\ qcbs \in Nat
  BY <1>1 DEF BootInv, PoolsInv, Lwip
<1>6. ecbs + 2 * Taken3 = OS_MAX_EVENTS - 4 /\ qcbs + Taken3 = OS_MAX_QS - 1
  BY <1>4, <1>5, BootAssumption DEF BootInv, PoolsInv
<1>7. CASE ecbs >= 2 /\ qcbs >= 1
  <2>1. netconns' = netconns \cup {o} /\ ecbs' = ecbs - 2 /\ qcbs' = qcbs - 1 /\ denied' = denied
    BY <1>7 DEF NetconnAlloc
  <2>2. Taken3' = Taken3 + 1
    BY <1>4, <2>1, FS_AddElement DEF Taken3
  <2>3. /\ netconns' \cup denied' \subseteq {"listener", "client", "peer1", "peer2"}
        /\ ecbs' \in Nat /\ qcbs' \in Nat
    BY <1>5, <1>7, <2>1 DEF BootInv, PoolsInv
  <2>4. /\ ecbs' + 2 * Taken3' + 2 * Lwip' = OS_MAX_EVENTS - 2
        /\ qcbs' + Taken3' + Lwip' = OS_MAX_QS
    BY <1>4, <1>5, <1>6, <2>1, <2>2, BootAssumption
  <2>5. "listener" \in netconns' /\ "listener" \notin denied'
    BY <2>1 DEF BootInv, PoolsInv
  <2>6. "client" \in denied' => Taken3' >= 3
    BY <1>4, <2>1, <2>2 DEF BootInv, PoolsInv
  <2>7. PoolsInv'
    BY <1>1, <2>3, <2>4, <2>5, <2>6 DEF PoolsInv
  <2> QED  BY <1>1, <1>2, <1>3, <2>7 DEF BootInv
<1>8. CASE ~(ecbs >= 2 /\ qcbs >= 1)
  <2>1. denied' = denied \cup {o} /\ UNCHANGED <<netconns, ecbs, qcbs>>
    BY <1>8 DEF NetconnAlloc
  <2>2. Taken3 >= 3
    BY <1>4, <1>5, <1>6, <1>8, BootAssumption DEF Suffices
  <2>3. netconns # {}
    BY <2>2, FS_EmptySet DEF Taken3
  <2>4. PoolsInv'
    BY <1>1, <2>1, <2>2, <2>3 DEF BootInv, PoolsInv, Taken3, Lwip
  <2> QED  BY <1>1, <1>2, <1>3, <2>4 DEF BootInv
<1> QED  BY <1>7, <1>8

LEMMA TcpStartsInv == ASSUME Suffices, BootInv, TcpStarts PROVE BootInv'
<1>1. main = 18
  BY CallsAt DEF BootInv, TcpStarts
<1>2. /\ netconns # {} => "listener" \in netconns /\ "tcpip" \in tasks
      /\ "listener" \notin denied
  BY DEF BootInv, PoolsInv
<1>3. CASE "server" \in tasks /\ "listener" \notin netconns \cup denied /\ NetconnAlloc("listener")
  <2>1. "tcpip" \in tasks  BY <1>3 DEF BootInv, TasksInv
  <2>2. netconns = {}  BY <1>2, <1>3
  <2> QED  BY <1>1, <1>3, <2>1, <2>2, NetconnInv
<1>4. CASE /\ "client" \in tasks /\ "client" \notin netconns
           /\ "server" \in tasks => "listener" \in netconns \cup denied
           /\ NetconnAlloc("client")
  <2>1. "tcpip" \in tasks /\ "server" \in tasks  BY <1>1, <1>4 DEF BootInv, TasksInv
  <2>2. "listener" \in netconns  BY <1>2, <1>4, <2>1
  <2> QED  BY <1>1, <1>4, <2>1, <2>2, NetconnInv
<1>5. CASE /\ "listener" \in netconns
           /\ \E p \in {"peer1", "peer2"} \ netconns : NetconnAlloc(p)
  <2>1. PICK p \in {"peer1", "peer2"} \ netconns : NetconnAlloc(p)  BY <1>5
  <2>2. "tcpip" \in tasks  BY <1>2, <1>5
  <2> QED  BY <1>1, <1>5, <2>1, <2>2, NetconnInv
<1> QED  BY <1>3, <1>4, <1>5 DEF TcpStarts

(* A handler: what it uses, and what it feeds.                              *)
LEMMA HandlerInv ==
  ASSUME BootInv, FrameCame \/ ByteCame \/ \E u \in {"USART1", "USART2"} : Command(u)
  PROVE  BootInv'
<1>1. UNCHANGED <<main, todo, tasks, refused, tcbs, ecbs, qcbs, irqs, ready, netconns, denied>>
  BY DEF FrameCame, ByteCame, Command, Inside, kernel, lwip
<1>2. TodoInv' /\ TcbsInv' /\ IrqsInv'
  BY <1>1 DEF BootInv, TodoInv, TcbsInv, IrqsInv
<1>3. TasksInv'
  BY <1>1, CreatedFacts DEF BootInv, TasksInv
<1>4. PoolsInv'
  BY <1>1 DEF BootInv, PoolsInv, Taken3, Lwip
<1>5. FedInv'
  <2>1. ASSUME NEW u \in {"USART1", "USART2"}, Command(u) PROVE FedInv'
    <3>1. fed' = fed \cup {"DCQ", "FMQ"}  BY <2>1 DEF Command, Feeds
    <3>2. \A e \in early' : e \in early \/ e[1] = u  BY <2>1 DEF Command, Uses
    <3> QED  BY <1>1, <3>1, <3>2 DEF BootInv, FedInv, ReadyBeforeUse, Servers
  <2>2. CASE ByteCame
    BY <1>1, <2>2 DEF BootInv, FedInv, ReadyBeforeUse, Servers, ByteCame, Feeds
  <2>3. CASE FrameCame
    <3>1. fed' = fed \cup {"mbox"}  BY <2>3 DEF FrameCame, Feeds
    <3>2. "tcpip" \in tasks /\ {"rings", "mbox", "netif"} \ ready = {}
      BY <2>3 DEF FrameCame, BootInv, IrqsInv
    <3>3. early' = early
      BY <2>3, <3>2 DEF FrameCame, Uses
    <3> QED  BY <1>1, <3>1, <3>2, <3>3 DEF BootInv, FedInv, ReadyBeforeUse, Servers
  <2> QED  BY <2>1, <2>2, <2>3
<1> QED  BY <1>1, <1>2, <1>3, <1>4, <1>5 DEF BootInv

LEMMA BootNextInv == ASSUME Suffices, BootInv, [BootNext]_bootVars PROVE BootInv'
<1>1. CASE Main
  BY <1>1, UartsInv, SetUpInv, OSInitInv, TaskInitsInv, TcpipInitInv, NetifInv DEF Main
<1>2. CASE start_task  BY <1>2, StartTaskInv
<1>3. CASE TcpStarts  BY <1>3, TcpStartsInv
<1>4. CASE FrameCame \/ ByteCame \/ \E u \in {"USART1", "USART2"} : Command(u)
  BY <1>4, HandlerInv
<1>5. CASE UNCHANGED bootVars
  BY <1>5 DEF bootVars, BootInv, TodoInv, TasksInv, TcbsInv, IrqsInv, FedInv, ReadyBeforeUse,
     PoolsInv, Taken3, Lwip
<1> QED  BY <1>1, <1>2, <1>3, <1>4, <1>5 DEF BootNext

LEMMA ShortSeqs ==
  ASSUME NEW S, NEW a \in S, NEW b \in S, NEW c \in S
  PROVE  /\ <<a, b, c>> \in Seq(S) /\ <<b, c>> \in Seq(S) /\ <<c>> \in Seq(S) /\ <<>> \in Seq(S)
OBVIOUS

(* What main has reached says what exists, in every run.                    *)
THEOREM StartInvariant == ASSUME Suffices PROVE BootSpec => []BootInv
<1>1. BootInit => BootInv  BY BootInitInv
<1>2. BootInv /\ [BootNext]_bootVars => BootInv'  BY BootNextInv
<1> QED  BY <1>1, <1>2, PTL DEF BootSpec

(* With pools that suffice the robot starts as main.c means it to: whatever *)
(* the handlers do meanwhile, only the KEY and the display task are never   *)
(* created, only a command by USART1 or USART2 can come too early, every    *)
(* queue that is fed has its task, the server can always listen, and the    *)
(* client goes without a netconn only beside three others.                  *)
THEOREM StartIsSound == ASSUME Suffices PROVE BootSpec => []BootSound
<1>1. BootInv => BootSound
  <2> SUFFICES ASSUME BootInv PROVE BootSound  OBVIOUS
  <2>1. Served
    <3> SUFFICES ASSUME Running, NEW q \in fed PROVE Servers[q] \cap tasks # {}  BY DEF Served
    <3>1. main = 18  BY CallsAt DEF BootInv
    <3>2. {"can", "imu", "wifi"} \subseteq tasks  BY <3>1, CreatedFacts DEF BootInv, TasksInv
    <3>3. q \in DOMAIN Servers /\ (q = "mbox" => "tcpip" \in tasks)  BY DEF BootInv, FedInv
    <3> QED  BY <3>2, <3>3 DEF Servers
  <2> QED  BY <2>1 DEF BootInv, FedInv, TasksInv, PoolsInv, Taken3, BootSound
<1> QED  BY <1>1, StartInvariant, PTL

(* The variables of the start keep their types; in particular the kernel's  *)
(* pools are never overdrawn.                                               *)
THEOREM StartKeepsTypes == ASSUME Suffices PROVE BootSpec => []BootTypeOK
<1>1. BootInv => BootTypeOK
  <2> SUFFICES ASSUME BootInv PROVE BootTypeOK  OBVIOUS
  <2>1. Len(MainOrder) = 17  BY OrderFacts
  <2>2. todo \in Seq(DOMAIN Prio)
    <3>1. /\ "led" \in DOMAIN Prio /\ "key" \in DOMAIN Prio /\ "display" \in DOMAIN Prio
      BY Prios
    <3>2. \/ todo = <<"led", "key", "display">> \/ todo = <<"key", "display">>
          \/ todo = <<"display">> \/ todo = <<>>
      BY DEF BootInv, TodoInv, AllTodo
    <3> QED  BY <3>1, <3>2, ShortSeqs
  <2>3. tasks \cup refused \subseteq DOMAIN Prio
    BY Prios, CreatedFacts DEF BootInv, TasksInv
  <2>4. Taken3 \in Nat /\ Lwip \in Nat
    BY CountedNetconns DEF Lwip
  <2>5. ecbs \in 0 .. OS_MAX_EVENTS /\ qcbs \in 0 .. OS_MAX_QS
    <3>1. CASE main <= 6
      BY <3>1, BootAssumption DEF BootInv, PoolsInv
    <3>2. CASE main > 6
      BY <2>4, <3>2, BootAssumption DEF BootInv, PoolsInv
    <3>3. main \in 1 .. 18  BY DEF BootInv
    <3> QED  BY <3>1, <3>2, <3>3
  <2> QED  BY <2>1, <2>2, <2>3, <2>5 DEF BootInv, TcbsInv, IrqsInv, FedInv, PoolsInv, BootTypeOK
<1> QED  BY <1>1, StartInvariant, PTL
-----------------------------------------------------------------------------
(****************************************************************************)
(* The WiFi module's line.  What is still on the line tells how a message   *)
(* goes on, and what the buffer holds is read back to front: an "AA" has    *)
(* its data behind it or coming, and nothing that reads as an answer is     *)
(* there while the module still owes one.                                   *)
(****************************************************************************)
Stored == 0 .. STA3 - 1
Quiet == {<<>>, <<"NOTE">>, <<"IPD", "AA", "data">>, <<"AA", "data">>, <<"data">>}
Rests == Quiet \cup {<<"OK">>, <<"STATUS:", "OK">>, <<"+CIPSTATUS:", "OK">>}
Answers == {"OK", "+CIPSTATUS:"}

LineInv ==
  /\ out \in Rests
  /\ isr # Idle3 => out # <<>> /\ isr = Head(out) /\ STA3 < RecvLen

Followed ==
  ~cut /\ ~damaged =>
    \A k \in Stored : BUF3[k] = "AA" =>
      \/ k + 1 < STA3 /\ BUF3[k + 1] = "data"
      \/ k + 1 = STA3 /\ ~marked /\ begun /\ ~deaf /\ out = <<"data">>

Fresh ==
  ~late /\ ~damaged /\ asked # "none" /\ pc \in {"wait", "read"} =>
    out \in Quiet /\ \A k \in Stored : BUF3[k] \notin Answers

WifiInv == WifiTypeOK /\ EndWillBeMarked /\ LineInv /\ Followed /\ Fresh
-----------------------------------------------------------------------------
LEMMA RestTypes == ASSUME NEW r \in Rests PROVE r \in Seq(Tokens)
<1>1. \A a, b, c \in Tokens : /\ <<a, b, c>> \in Seq(Tokens) /\ <<a, b>> \in Seq(Tokens)
                              /\ <<a>> \in Seq(Tokens) /\ <<>> \in Seq(Tokens)
  BY ShortSeqs
<1>2. {"OK", "STATUS:", "+CIPSTATUS:", "NOTE", "IPD", "AA", "data"} \subseteq Tokens
  BY DEF Tokens
<1> HIDE DEF Tokens
<1>3. \/ r = <<>> \/ r = <<"NOTE">> \/ r = <<"IPD", "AA", "data">> \/ r = <<"AA", "data">>
      \/ r = <<"data">> \/ r = <<"OK">> \/ r = <<"STATUS:", "OK">> \/ r = <<"+CIPSTATUS:", "OK">>
  BY DEF Rests, Quiet
<1> QED  BY <1>1, <1>2, <1>3

(* How a message goes on behind its next byte.                              *)
LEMMA RestGoesOn ==
  ASSUME NEW r \in Rests, r # <<>>
  PROVE  /\ Tail(r) \in Rests /\ Head(r) \in Tokens /\ Head(r) # Idle3
         /\ Head(r) = "AA" => Tail(r) = <<"data">>
         /\ r = <<"data">> => Head(r) = "data"
         /\ r \in Quiet => Tail(r) \in Quiet /\ Head(r) \notin Answers
<1>1. CASE r = <<"NOTE">>
  <2>1. Head(r) = "NOTE" /\ Tail(r) = <<>>  BY <1>1
  <2> QED  BY <1>1, <2>1 DEF Rests, Quiet, Answers, Tokens, Idle3
<1>2. CASE r = <<"IPD", "AA", "data">>
  <2>1. Head(r) = "IPD" /\ Tail(r) = <<"AA", "data">>  BY <1>2
  <2> QED  BY <1>2, <2>1 DEF Rests, Quiet, Answers, Tokens, Idle3
<1>3. CASE r = <<"AA", "data">>
  <2>1. Head(r) = "AA" /\ Tail(r) = <<"data">>  BY <1>3
  <2> QED  BY <1>3, <2>1 DEF Rests, Quiet, Answers, Tokens, Idle3
<1>4. CASE r = <<"data">>
  <2>1. Head(r) = "data" /\ Tail(r) = <<>>  BY <1>4
  <2> QED  BY <1>4, <2>1 DEF Rests, Quiet, Answers, Tokens, Idle3
<1>5. CASE r = <<"OK">>
  <2>1. Head(r) = "OK" /\ Tail(r) = <<>> /\ r \notin Quiet  BY <1>5 DEF Quiet
  <2> QED  BY <1>5, <2>1 DEF Rests, Quiet, Tokens, Idle3
<1>6. CASE r = <<"STATUS:", "OK">>
  <2>1. Head(r) = "STATUS:" /\ Tail(r) = <<"OK">> /\ r \notin Quiet  BY <1>6 DEF Quiet
  <2> QED  BY <1>6, <2>1 DEF Rests, Tokens, Idle3
<1>7. CASE r = <<"+CIPSTATUS:", "OK">>
  <2>1. Head(r) = "+CIPSTATUS:" /\ Tail(r) = <<"OK">> /\ r \notin Quiet  BY <1>7 DEF Quiet
  <2> QED  BY <1>7, <2>1 DEF Rests, Tokens, Idle3
<1> QED  BY <1>1, <1>2, <1>3, <1>4, <1>5, <1>6, <1>7 DEF Rests, Quiet

LEMMA RestEnds ==
  ASSUME NEW r \in Rests, ~(r # <<>> /\ r[Len(r)] = "OK")
  PROVE  r \in Quiet
<1>1. <<"OK">>[Len(<<"OK">>)] = "OK"  OBVIOUS
<1>2. <<"STATUS:", "OK">>[Len(<<"STATUS:", "OK">>)] = "OK"  OBVIOUS
<1>3. <<"+CIPSTATUS:", "OK">>[Len(<<"+CIPSTATUS:", "OK">>)] = "OK"  OBVIOUS
<1>4. <<"OK">> # <<>> /\ <<"STATUS:", "OK">> # <<>> /\ <<"+CIPSTATUS:", "OK">> # <<>>  OBVIOUS
<1> QED  BY <1>1, <1>2, <1>3, <1>4 DEF Rests

LEMMA WhatIsSaid ==
  /\ Notices \subseteq Quiet /\ Quiet \subseteq Rests
  /\ \A c \in {"AT", "CIPSTATUS"} : Answer(c) \subseteq Rests
<1>1. Notices \subseteq Quiet  BY DEF Notices, Quiet
<1>2. Quiet \subseteq Rests  BY DEF Rests
<1>3. Answer("AT") \subseteq Rests  BY DEF Answer, Rests
<1>4. Answer("CIPSTATUS") \subseteq Rests  BY DEF Answer, Rests
<1> QED  BY <1>1, <1>2, <1>3, <1>4

(* A set of numbers that is not empty has a least member.                   *)
NumbersLess == {p \in Nat \X Nat : p[1] < p[2]}
LEMMA HasLeast ==
  ASSUME NEW S, S \subseteq Nat, S # {}
  PROVE  \E k \in S : \A j \in S : k <= j
<1>1. IsWellFoundedOn(NumbersLess, Nat)
  BY NatLessThanWellFounded DEF NumbersLess, OpToRel
<1>2. PICK k \in S : \A j \in S : ~(<<j, k>> \in NumbersLess)
  BY <1>1, WFMin
<1>3. ASSUME NEW j \in S PROVE k <= j
  <2>1. j \in Nat /\ k \in Nat /\ <<j, k>> \notin NumbersLess  BY <1>2
  <2> QED  BY <2>1 DEF NumbersLess
<1> QED  BY <1>3
-----------------------------------------------------------------------------
LEMMA WifiInitInv == WifiInit => WifiInv
<1> SUFFICES ASSUME WifiInit PROVE WifiInv  OBVIOUS
<1>1. out \in Rests  BY DEF WifiInit, Rests, Quiet
<1>2. WifiTypeOK
  <2>1. /\ STA3 \in 0 .. RecvLen /\ tries \in 0 .. Polls /\ events \in 0 .. MaxEvents
        /\ CheckAt - 1 \in 0 .. CheckAt
    BY WifiAssumption DEF WifiInit
  <2>2. BUF3 \in [0 .. RecvLen -> Tokens]  BY DEF WifiInit, Tokens
  <2> QED  BY <1>1, <2>1, <2>2, RestTypes DEF WifiInit, WifiTypeOK
<1>3. LineInv /\ Followed /\ Fresh /\ EndWillBeMarked
  BY <1>1 DEF WifiInit, LineInv, Followed, Fresh, EndWillBeMarked, Stored
<1> QED  BY <1>2, <1>3 DEF WifiInv

(* The module begins a message: nothing of an earlier one is under way, and *)
(* if it is an answer it is no longer owed.                                 *)
LEMMA SpeakInv == ASSUME WifiInv, Speak PROVE WifiInv'
<1>1. /\ UNCHANGED <<STA3, marked, BUF3, TIM7, isr, deaf, damaged>>
      /\ UNCHANGED <<pc, cmd, tries, t, constate, handled, late>>
      /\ out = <<>> /\ isr = Idle3 /\ begun' = FALSE
      /\ cut' = (cut /\ ~(STA3 = 0 /\ ~marked /\ ~TIM7))
  BY DEF Speak, loop
<1>2. /\ out' \in Rests /\ (asked' # "none" => out' \in Quiet /\ asked' = asked)
      /\ asked' \in {"none", "AT", "CIPSTATUS"} /\ events' \in 0 .. MaxEvents
  <2>1. CASE asked # "none" /\ out' \in Answer(asked) /\ asked' = "none" /\ UNCHANGED events
    <3>1. asked \in {"AT", "CIPSTATUS"}  BY <2>1 DEF WifiInv, WifiTypeOK
    <3> QED  BY <2>1, <3>1, WhatIsSaid DEF WifiInv, WifiTypeOK
  <2>2. CASE /\ events < MaxEvents /\ events' = events + 1
             /\ out' \in Notices /\ UNCHANGED asked
    <3>1. events' \in 0 .. MaxEvents  BY <2>2, WifiAssumption DEF WifiInv, WifiTypeOK
    <3>2. out' \in Rests /\ out' \in Quiet  BY <2>2, WhatIsSaid
    <3> QED  BY <2>2, <3>1, <3>2 DEF WifiInv, WifiTypeOK
  <2> QED  BY <2>1, <2>2 DEF Speak
<1>3. WifiTypeOK'
  <2>1. out' \in Seq(Tokens)  BY <1>2, RestTypes
  <2>2. begun' \in BOOLEAN /\ cut' \in BOOLEAN  BY <1>1
  <2> QED  BY <1>1, <1>2, <2>1, <2>2 DEF WifiInv, WifiTypeOK
<1>4. LineInv'  BY <1>1, <1>2 DEF LineInv
<1>5. EndWillBeMarked'  BY <1>1 DEF WifiInv, EndWillBeMarked
<1>6. Followed'
  <2> SUFFICES ASSUME ~cut', ~damaged', NEW k \in 0 .. STA3 - 1, BUF3[k] = "AA"
               PROVE  k + 1 < STA3 /\ BUF3[k + 1] = "data"
    BY <1>1 DEF Followed, Stored
  <2>1. ~cut
    <3> SUFFICES ASSUME cut PROVE FALSE  OBVIOUS
    <3>1. STA3 = 0  BY <1>1
    <3> QED  BY <3>1
  <2>2. out # <<"data">>  BY <1>1
  <2> QED  BY <1>1, <2>1, <2>2 DEF WifiInv, Followed, Stored
<1>7. Fresh'
  BY <1>1, <1>2 DEF WifiInv, Fresh, Stored
<1> QED  BY <1>3, <1>4, <1>5, <1>6, <1>7 DEF WifiInv

(* A byte that is dropped, by the handler or before it.                     *)
LEMMA DroppedInv ==
  ASSUME WifiInv, out # <<>>, out' = Tail(out), begun' = TRUE, deaf' = TRUE, isr = Idle3,
         UNCHANGED <<STA3, BUF3, TIM7, isr, damaged, asked, loop>>,
         marked' \in {TRUE, marked}, cut' \in BOOLEAN, ~cut' => ~cut /\ marked,
         events' \in 0 .. MaxEvents
  PROVE  WifiInv'
<1>1. UNCHANGED <<pc, cmd, tries, t, constate, handled, late>>  BY DEF loop
<1>2. out' \in Rests /\ (out \in Quiet => out' \in Quiet)
  BY RestGoesOn DEF WifiInv, LineInv
<1>3. WifiTypeOK'
  <2>1. out' \in Seq(Tokens)  BY <1>2, RestTypes
  <2>2. marked' \in BOOLEAN  BY DEF WifiInv, WifiTypeOK
  <2> QED  BY <1>1, <2>1, <2>2 DEF WifiInv, WifiTypeOK
<1>4. LineInv'  BY <1>2 DEF LineInv
<1>5. EndWillBeMarked'  BY DEF WifiInv, EndWillBeMarked, WifiTypeOK
<1>6. Followed'
  BY DEF WifiInv, Followed, Stored
<1>7. Fresh'
  BY <1>1, <1>2 DEF WifiInv, Fresh, Stored
<1> QED  BY <1>3, <1>4, <1>5, <1>6, <1>7 DEF WifiInv

LEMMA Uart3TestInv == ASSUME WifiInv, Uart3Test PROVE WifiInv'
<1>1. CASE ~marked /\ STA3 < RecvLen
  <2>1. /\ isr' = Head(out) /\ isr = Idle3 /\ out # <<>> /\ UNCHANGED loop
        /\ UNCHANGED <<marked, deaf, cut, out, begun, STA3, BUF3, TIM7, damaged, asked, events>>
    BY <1>1 DEF Uart3Test
  <2>2. UNCHANGED <<pc, cmd, tries, t, constate, handled, late>>  BY <2>1 DEF loop
  <2>3. isr' \in Tokens  BY <2>1, RestGoesOn DEF WifiInv, LineInv
  <2>4. WifiTypeOK'  BY <2>1, <2>2, <2>3 DEF WifiInv, WifiTypeOK
  <2>5. LineInv'  BY <1>1, <2>1 DEF WifiInv, LineInv
  <2>6. Followed' /\ Fresh' /\ EndWillBeMarked'
    BY <2>1, <2>2 DEF WifiInv, Followed, Fresh, EndWillBeMarked, Stored
  <2> QED  BY <2>4, <2>5, <2>6 DEF WifiInv
<1>2. CASE ~(~marked /\ STA3 < RecvLen)
  <2>1. /\ marked' = TRUE /\ cut' = (cut \/ ~marked) /\ deaf' = TRUE /\ out' = Tail(out)
        /\ begun' = TRUE /\ isr = Idle3 /\ out # <<>>
        /\ UNCHANGED <<isr, STA3, BUF3, TIM7, damaged, asked, events, loop>>
    BY <1>2 DEF Uart3Test
  <2>2. cut' \in BOOLEAN /\ (~cut' => ~cut /\ marked)
    BY <2>1 DEF WifiInv, WifiTypeOK
  <2>3. events' \in 0 .. MaxEvents
    BY <2>1 DEF WifiInv, WifiTypeOK
  <2> QED  BY <2>1, <2>2, <2>3, DroppedInv
<1> QED  BY <1>1, <1>2

LEMMA ByteMissedInv == ASSUME WifiInv, ByteMissed PROVE WifiInv'
<1>1. /\ isr = Idle3 /\ out # <<>> /\ events < MaxEvents /\ events' = events + 1
      /\ out' = Tail(out) /\ begun' = TRUE /\ deaf' = TRUE /\ cut' = TRUE
      /\ UNCHANGED <<STA3, marked, BUF3, TIM7, isr, damaged, asked, loop>>
  BY DEF ByteMissed
<1>2. events' \in 0 .. MaxEvents
  BY <1>1, WifiAssumption DEF WifiInv, WifiTypeOK
<1> QED  BY <1>1, <1>2, DroppedInv

(* A byte is stored: the data that follow an "AA" in the buffer follow it   *)
(* on the line.                                                             *)
LEMMA Uart3StoreInv == ASSUME WifiInv, Uart3Store PROVE WifiInv'
<1>1. /\ isr # Idle3 /\ isr' = Idle3 /\ STA3' = STA3 + 1
      /\ out' = Tail(out) /\ begun' = TRUE /\ deaf' = FALSE
      /\ UNCHANGED <<marked, cut, asked, events, loop>>
      /\ UNCHANGED <<pc, cmd, tries, t, constate, handled, late>>
  BY DEF Uart3Store, loop
<1>2. /\ STA3 \in 0 .. RecvLen - 1 /\ isr \in Tokens /\ out # <<>> /\ out \in Rests
      /\ isr = Head(out) /\ RecvLen \in Nat
  BY <1>1, WifiAssumption DEF WifiInv, LineInv, WifiTypeOK
<1>3. out' \in Rests /\ (out \in Quiet => out' \in Quiet /\ isr \notin Answers)
  BY <1>1, <1>2, RestGoesOn
<1>4. out' \in Seq(Tokens)  BY <1>3, RestTypes
<1>5. LineInv'  BY <1>1, <1>3 DEF LineInv
<1>6. CASE marked
  <2>1. damaged' = TRUE /\ UNCHANGED <<BUF3, TIM7>>  BY <1>6 DEF Uart3Store
  <2>2. STA3' \in 0 .. RecvLen  BY <1>1, <1>2
  <2>3. WifiTypeOK'  BY <1>1, <1>4, <2>1, <2>2 DEF WifiInv, WifiTypeOK
  <2>4. Followed' /\ Fresh' /\ EndWillBeMarked'
    BY <1>1, <1>6, <2>1 DEF Followed, Fresh, EndWillBeMarked
  <2> QED  BY <1>5, <2>3, <2>4 DEF WifiInv
<1>7. CASE ~marked
  <2>1. /\ BUF3' = [BUF3 EXCEPT ![STA3] = isr] /\ TIM7' = (TIM7 \/ STA3 = 0)
        /\ damaged' = damaged
    BY <1>7 DEF Uart3Store
  <2>2. STA3' \in 0 .. RecvLen /\ STA3 \in 0 .. RecvLen  BY <1>1, <1>2
  <2>3. BUF3 \in [0 .. RecvLen -> Tokens]  BY DEF WifiInv, WifiTypeOK
  <2>4. BUF3' \in [0 .. RecvLen -> Tokens]  BY <1>2, <2>1, <2>3
  <2>5. TIM7' \in BOOLEAN  BY <2>1
  <2>6. WifiTypeOK'
    BY <1>1, <1>4, <2>1, <2>2, <2>4, <2>5 DEF WifiInv, WifiTypeOK
  <2>7. EndWillBeMarked'
    <3>1. STA3 > 0 \/ STA3 = 0  BY <1>2
    <3>2. TIM7'  BY <1>7, <2>1, <3>1 DEF WifiInv, EndWillBeMarked
    <3> QED  BY <3>2 DEF EndWillBeMarked
  <2>8. /\ BUF3'[STA3] = isr
        /\ \A k \in 0 .. STA3 - 1 : BUF3'[k] = BUF3[k]
    <3>1. \A k \in 0 .. STA3 - 1 : k \in 0 .. RecvLen /\ k # STA3  BY <1>2
    <3> QED  BY <2>1, <2>2, <2>3, <3>1
  <2>9. \A k \in 0 .. STA3' - 1 : k \in 0 .. STA3 - 1 \/ k = STA3  BY <1>1, <1>2
  <2>10. Fresh'
    <3> SUFFICES ASSUME ~late, ~damaged, asked # "none", pc \in {"wait", "read"}
                 PROVE  out' \in Quiet /\ \A k \in 0 .. STA3' - 1 : BUF3'[k] \notin Answers
      BY <1>1, <2>1 DEF Fresh, Stored
    <3>1. out \in Quiet /\ \A k \in 0 .. STA3 - 1 : BUF3[k] \notin Answers
      BY DEF WifiInv, Fresh, Stored
    <3> QED  BY <1>3, <2>8, <2>9, <3>1
  <2>11. Followed'
    <3> SUFFICES ASSUME ~cut, ~damaged, NEW k \in 0 .. STA3' - 1, BUF3'[k] = "AA"
                 PROVE  \/ k + 1 < STA3' /\ BUF3'[k + 1] = "data"
                        \/ /\ k + 1 = STA3' /\ ~marked' /\ begun' /\ ~deaf'
                           /\ out' = <<"data">>
      BY <1>1, <2>1 DEF Followed, Stored
    <3>1. CASE k = STA3
      <4>1. Tail(out) = <<"data">>  BY <1>2, <2>8, <3>1, RestGoesOn
      <4> QED  BY <1>1, <1>7, <3>1, <4>1
    <3>2. CASE k \in 0 .. STA3 - 1
      <4>1. \/ k + 1 < STA3 /\ BUF3[k + 1] = "data"
            \/ k + 1 = STA3 /\ out = <<"data">>
        BY <2>8, <3>2 DEF WifiInv, Followed, Stored
      <4>2. CASE k + 1 < STA3 /\ BUF3[k + 1] = "data"
        <5>1. k + 1 \in 0 .. STA3 - 1  BY <1>2, <3>2, <4>2
        <5>2. BUF3'[k + 1] = "data"  BY <2>8, <4>2, <5>1
        <5>3. k + 1 < STA3'  BY <1>1, <1>2, <3>2, <4>2
        <5> QED  BY <5>2, <5>3
      <4>3. CASE k + 1 = STA3 /\ out = <<"data">>
        <5>1. isr = "data"  BY <1>2, <4>3, RestGoesOn
        <5>2. BUF3'[k + 1] = "data"  BY <2>8, <4>3, <5>1
        <5>3. k + 1 < STA3'  BY <1>1, <1>2, <4>3
        <5> QED  BY <5>2, <5>3
      <4> QED  BY <4>1, <4>2, <4>3
    <3> QED  BY <2>9, <3>1, <3>2
  <2> QED  BY <1>5, <2>6, <2>7, <2>10, <2>11 DEF WifiInv
<1> QED  BY <1>6, <1>7

(* The end of a message: behind an "AA" the data do not let it fire.        *)
LEMMA TIM7Inv == ASSUME WifiInv, TIM7_IRQHandler PROVE WifiInv'
<1>1. /\ TIM7' = FALSE /\ marked' = TRUE /\ (out = <<>> \/ ~begun \/ deaf)
      /\ UNCHANGED <<STA3, BUF3, isr, deaf, cut, damaged, out, begun, asked, events>>
      /\ UNCHANGED <<pc, cmd, tries, t, constate, handled, late>>
  BY DEF TIM7_IRQHandler, module, loop
<1>2. WifiTypeOK'  BY <1>1 DEF WifiInv, WifiTypeOK
<1>3. LineInv' /\ EndWillBeMarked' /\ Fresh'
  BY <1>1 DEF WifiInv, LineInv, EndWillBeMarked, Fresh, Stored
<1>4. Followed'
  <2>1. out = <<>> => out # <<"data">>  OBVIOUS
  <2> QED  BY <1>1, <2>1 DEF WifiInv, Followed, Stored
<1> QED  BY <1>2, <1>3, <1>4 DEF WifiInv
-----------------------------------------------------------------------------
(* What every step of the task does to the line: nothing, but that it may   *)
(* forget the message and write behind it.                                  *)
Reads ==
  /\ isr = Idle3 /\ UNCHANGED <<TIM7, isr, deaf, cut, damaged, out, begun, events>>
  /\ (STA3' = 0 /\ marked' = FALSE) \/ UNCHANGED <<STA3, marked>>
  /\ BUF3' = BUF3 \/ Terminate

LEMMA ReadsKeep ==
  ASSUME WifiInv, Reads
  PROVE  /\ LineInv' /\ EndWillBeMarked' /\ Followed'
         /\ STA3' \in 0 .. RecvLen /\ BUF3' \in [0 .. RecvLen -> Tokens] /\ marked' \in BOOLEAN
         /\ \A k \in 0 .. STA3' - 1 : k \in 0 .. STA3 - 1 /\ BUF3'[k] = BUF3[k]
<1>1. /\ STA3 \in 0 .. RecvLen /\ BUF3 \in [0 .. RecvLen -> Tokens] /\ RecvLen \in Nat
      /\ marked \in BOOLEAN
  BY WifiAssumption DEF WifiInv, WifiTypeOK
<1>2. STA3' \in 0 .. RecvLen /\ marked' \in BOOLEAN
  <2>1. 0 \in 0 .. RecvLen /\ FALSE \in BOOLEAN  BY <1>1
  <2>2. CASE STA3' = 0 /\ marked' = FALSE  BY <2>1, <2>2
  <2>3. CASE UNCHANGED <<STA3, marked>>  BY <1>1, <2>3
  <2> QED  BY <2>2, <2>3 DEF Reads
<1>3. BUF3' \in [0 .. RecvLen -> Tokens]
  <2>1. "end" \in Tokens  BY DEF Tokens
  <2> QED  BY <1>1, <2>1 DEF Reads, Terminate
<1>4. \A k \in 0 .. STA3 - 1 : BUF3'[k] = BUF3[k]
  <2>1. \A k \in 0 .. STA3 - 1 : k \in 0 .. RecvLen /\ k # STA3  BY <1>1
  <2> QED  BY <1>1, <2>1 DEF Reads, Terminate
<1>5. \A k \in 0 .. STA3' - 1 : k \in 0 .. STA3 - 1 /\ STA3' = STA3 /\ marked' = marked
  BY <1>1 DEF Reads
<1>6. LineInv'
  BY DEF WifiInv, LineInv, Reads
<1>7. EndWillBeMarked'
  BY DEF WifiInv, EndWillBeMarked, Reads
<1>8. Followed'
  <2> SUFFICES ASSUME ~cut, ~damaged, NEW k \in 0 .. STA3' - 1, BUF3'[k] = "AA"
               PROVE  \/ k + 1 < STA3' /\ BUF3'[k + 1] = "data"
                      \/ /\ k + 1 = STA3' /\ ~marked' /\ begun' /\ ~deaf'
                         /\ out' = <<"data">>
    BY DEF Followed, Stored, Reads
  <2>1. k \in 0 .. STA3 - 1 /\ BUF3[k] = "AA" /\ STA3' = STA3 /\ marked' = marked
    BY <1>4, <1>5
  <2>2. CASE k + 1 < STA3 /\ BUF3[k + 1] = "data"
    <3>1. k + 1 \in 0 .. STA3 - 1  BY <1>1, <2>1, <2>2
    <3> QED  BY <1>4, <2>1, <2>2, <3>1
  <2>3. CASE k + 1 = STA3 /\ ~marked /\ begun /\ ~deaf /\ out = <<"data">>
    BY <2>1, <2>3 DEF Reads
  <2> QED  BY <2>1, <2>2, <2>3 DEF WifiInv, Followed, Stored
<1> QED  BY <1>2, <1>3, <1>4, <1>5, <1>6, <1>7, <1>8

(* A message handed to MessageHandle: what follows the first "AA".          *)
LEMMA HandedOver ==
  ASSUME WifiInv, MessageIn
  PROVE  /\ handled' \in Tokens \cup {"none"} /\ Terminate
         /\ marked /\ ~cut /\ ~damaged => handled' \in {"data", "none"}
<1> DEFINE First(k) == BUF3[k] = "AA" /\ \A j \in Received : j < k => BUF3[j] # "AA"
           aa == CHOOSE k \in Received : First(k)
<1>1. /\ STA3 \in 0 .. RecvLen /\ BUF3 \in [0 .. RecvLen -> Tokens] /\ RecvLen \in Nat
  BY WifiAssumption DEF WifiInv, WifiTypeOK
<1>2. Terminate  BY DEF MessageIn
<1>3. CASE Has("IPD") /\ Has("AA")
  <2>1. \E k \in Received : First(k)
    <3>1. Received \subseteq Nat  BY DEF Received
    <3>2. {k \in Received : BUF3[k] = "AA"} # {}  BY <1>3 DEF Has
    <3>3. PICK k \in {x \in Received : BUF3[x] = "AA"} :
            \A y \in {x \in Received : BUF3[x] = "AA"} : k <= y
      BY <3>1, <3>2, HasLeast
    <3>4. \A j \in Received : j < k => BUF3[j] # "AA"
      <4> SUFFICES ASSUME NEW j \in Received, j < k, BUF3[j] = "AA" PROVE FALSE  OBVIOUS
      <4>1. k <= j  BY <3>3
      <4>2. j \in Nat /\ k \in Nat  BY <3>1, <3>3
      <4> QED  BY <4>1, <4>2
    <3> QED  BY <3>3, <3>4
  <2>2. handled' = BUF3'[aa + 1]  BY <1>3 DEF MessageIn
  <2>3. aa \in Received /\ BUF3[aa] = "AA"  BY <2>1
  <2> HIDE DEF aa
  <2>4. aa \in 0 .. STA3 - 1 /\ aa < RecvLen /\ aa + 1 \in 0 .. RecvLen
    <3>1. aa \in 0 .. STA3 - 1 /\ aa < RecvLen  BY <2>3 DEF Received
    <3> QED  BY <1>1, <3>1
  <2>5. BUF3' \in [0 .. RecvLen -> Tokens]
    <3>1. "end" \in Tokens  BY DEF Tokens
    <3> QED  BY <1>1, <1>2, <3>1 DEF Terminate
  <2>6. handled' \in Tokens  BY <2>2, <2>4, <2>5
  <2>7. ASSUME marked, ~cut, ~damaged PROVE handled' = "data"
    <3>1. aa + 1 < STA3 /\ BUF3[aa + 1] = "data"
      BY <2>3, <2>4, <2>7 DEF WifiInv, Followed, Stored
    <3>2. aa + 1 # STA3  BY <1>1, <2>4, <3>1
    <3>3. BUF3'[aa + 1] = BUF3[aa + 1]  BY <1>1, <1>2, <2>4, <3>2 DEF Terminate
    <3> QED  BY <2>2, <3>1, <3>3
  <2> QED  BY <1>2, <2>6, <2>7
<1>4. CASE ~(Has("IPD") /\ Has("AA"))
  <2>1. handled' = "none"  BY <1>4 DEF MessageIn
  <2> QED  BY <1>2, <2>1
<1> QED  BY <1>3, <1>4
-----------------------------------------------------------------------------
(* The steps of the task: what they leave of its types, and of the promise  *)
(* that nothing that reads as an answer is there before the answer.         *)
LoopTypes ==
  /\ {late, constate} \subseteq BOOLEAN /\ asked \in {"none", "AT", "CIPSTATUS"}
  /\ pc \in {"loop", "check", "wait", "read", "end"} /\ cmd \in {"none", "AT", "CIPSTATUS"}
  /\ tries \in 0 .. Polls /\ t \in 0 .. CheckAt /\ handled \in Tokens \cup {"none"}

LEMMA TaskStepKeeps ==
  ASSUME WifiInv, Reads, LoopTypes', Fresh'
  PROVE  WifiInv'
<1>1. WifiTypeOK'
  <2>1. STA3' \in 0 .. RecvLen /\ BUF3' \in [0 .. RecvLen -> Tokens] /\ marked' \in BOOLEAN
    BY ReadsKeep
  <2> QED  BY <2>1 DEF WifiInv, WifiTypeOK, LoopTypes, Reads
<1> QED  BY <1>1, ReadsKeep DEF WifiInv

(* Outside a check nothing is promised; within one a step that asks nothing *)
(* keeps the promise.                                                       *)
LEMMA StillFresh ==
  ASSUME WifiInv, Reads,
         pc' \notin {"wait", "read"} \/ late' \/ (pc \in {"wait", "read"} /\ UNCHANGED <<asked, late>>)
  PROVE  Fresh'
<1> SUFFICES ASSUME ~late', ~damaged', asked' # "none", pc' \in {"wait", "read"}
             PROVE  out' \in Quiet /\ \A k \in 0 .. STA3' - 1 : BUF3'[k] \notin Answers
  BY DEF Fresh, Stored
<1>1. out \in Quiet /\ \A k \in 0 .. STA3 - 1 : BUF3[k] \notin Answers
  BY DEF WifiInv, Fresh, Stored, Reads
<1> QED  BY <1>1, ReadsKeep DEF Reads

(* A command is sent: if it is not late, all before it is answered.         *)
LEMMA SendCmdKeeps ==
  ASSUME WifiInv, Reads, NEW c \in {"AT", "CIPSTATUS"}, SendCmd(c),
         UNCHANGED <<t, constate, handled>>
  PROVE  WifiInv'
<1>1. /\ STA3' = 0 /\ pc' = "wait" /\ cmd' = c /\ tries' = Polls
      /\ asked' = (IF asked = "none" THEN c ELSE asked)
      /\ late' = (late \/ asked # "none" \/ (out # <<>> /\ out[Len(out)] = "OK"))
  BY DEF SendCmd, Clear
<1>2. LoopTypes'
  <2>1. Polls \in 0 .. Polls  BY WifiAssumption
  <2>2. late' \in BOOLEAN  BY <1>1
  <2>3. asked' \in {"none", "AT", "CIPSTATUS"}  BY <1>1 DEF WifiInv, WifiTypeOK
  <2> QED  BY <1>1, <2>1, <2>2, <2>3 DEF LoopTypes, WifiInv, WifiTypeOK
<1>3. Fresh'
  <2> SUFFICES ASSUME ~late' PROVE out' \in Quiet /\ \A k \in 0 .. STA3' - 1 : FALSE
    BY DEF Fresh, Stored
  <2>1. ~(out # <<>> /\ out[Len(out)] = "OK")  BY <1>1
  <2>2. out \in Quiet  BY <2>1, RestEnds DEF WifiInv, LineInv
  <2>3. out' = out  BY DEF Reads
  <2> QED  BY <1>1, <2>2, <2>3
<1> QED  BY <1>2, <1>3, TaskStepKeeps

LEMMA TaskInv == ASSUME WifiInv, wifi_thread PROVE WifiInv'
<1>0. LoopTypes /\ RecvLen \in Nat /\ Polls \in Nat \ {0} /\ CheckAt \in Nat \ {0}
  BY WifiAssumption DEF WifiInv, WifiTypeOK, LoopTypes
<1>1. CASE TakeMessage
  <2>1. handled' \in Tokens \cup {"none"} /\ Terminate  BY <1>1, HandedOver DEF TakeMessage
  <2>2. Reads  BY <1>1, <2>1 DEF TakeMessage, Reads, At, Clear, module
  <2>3. t' \in 0 .. CheckAt  BY <1>0, <1>1 DEF TakeMessage
  <2>4. LoopTypes'  BY <1>0, <1>1, <2>1, <2>3 DEF TakeMessage, LoopTypes, module
  <2>5. Fresh'  BY <1>1, <2>2, StillFresh DEF TakeMessage
  <2> QED  BY <2>2, <2>4, <2>5, TaskStepKeeps
<1>2. CASE TakeNothing
  <2>2. Reads  BY <1>2 DEF TakeNothing, Reads, At, rx, module
  <2>4. LoopTypes'  BY <1>0, <1>2 DEF TakeNothing, LoopTypes, module
  <2>5. Fresh'  BY <1>2, <2>2, StillFresh DEF TakeNothing
  <2> QED  BY <2>2, <2>4, <2>5, TaskStepKeeps
<1>3. CASE NoCheck
  <2>2. Reads  BY <1>3 DEF NoCheck, Reads, At, rx, module
  <2>3. t' \in 0 .. CheckAt  BY <1>0, <1>3 DEF NoCheck, LoopTypes
  <2>4. LoopTypes'  BY <1>0, <1>3, <2>3 DEF NoCheck, LoopTypes, module
  <2>5. Fresh'  BY <1>3, <2>2, StillFresh DEF NoCheck
  <2> QED  BY <2>2, <2>4, <2>5, TaskStepKeeps
<1>4. CASE QuitTrans
  <2>2. Reads  BY <1>4 DEF QuitTrans, Reads, At, SendCmd, Clear
  <2> QED  BY <1>4, <2>2, SendCmdKeeps DEF QuitTrans
<1>5. CASE PollAgain
  <2>2. Reads  BY <1>5 DEF PollAgain, Reads, At, Clear, module
  <2>3. tries' \in 0 .. Polls  BY <1>0, <1>5 DEF PollAgain, LoopTypes
  <2>4. LoopTypes'  BY <1>0, <1>5, <2>3 DEF PollAgain, LoopTypes, module
  <2>5. Fresh'  BY <1>5, <2>2, StillFresh DEF PollAgain, At, module
  <2> QED  BY <2>2, <2>4, <2>5, TaskStepKeeps
<1>6. CASE GiveUp
  <2>2. Reads  BY <1>6 DEF GiveUp, Reads, At, Clear, module
  <2>3. 0 \in 0 .. Polls /\ 1 \in 0 .. CheckAt  BY <1>0
  <2>4. LoopTypes'  BY <1>0, <1>6, <2>3 DEF GiveUp, LoopTypes, Checked, module
  <2>5. Fresh'  BY <1>6, <2>2, StillFresh DEF GiveUp
  <2> QED  BY <2>2, <2>4, <2>5, TaskStepKeeps
<1>7. CASE AskStatus
  <2>2. Reads  BY <1>7 DEF AskStatus, Reads, At, SendCmd, Clear
  <2> QED  BY <1>7, <2>2, SendCmdKeeps DEF AskStatus
<1>8. CASE StatusCame
  <2>2. Reads  BY <1>8 DEF StatusCame, Reads, At, module
  <2>3. 0 \in 0 .. Polls  BY <1>0
  <2>4. LoopTypes'  BY <1>0, <1>8, <2>3 DEF StatusCame, LoopTypes, module
  <2>5. Fresh'  BY <1>8, <2>2, StillFresh DEF StatusCame, At, module
  <2> QED  BY <2>2, <2>4, <2>5, TaskStepKeeps
<1>9. CASE ReadStatus
  <2>2. Reads  BY <1>9 DEF ReadStatus, Reads, At, Checked, module
  <2>3. /\ 0 \in 0 .. Polls /\ 1 \in 0 .. CheckAt
        /\ constate' \in BOOLEAN
    BY <1>0, <1>9 DEF ReadStatus, Checked
  <2>4. LoopTypes'  BY <1>0, <1>9, <2>3 DEF ReadStatus, LoopTypes, Checked, module
  <2>5. Fresh'  BY <1>9, <2>2, StillFresh DEF ReadStatus, Checked
  <2> QED  BY <2>2, <2>4, <2>5, TaskStepKeeps
<1>10. CASE AtResponse
  <2>2. Reads  BY <1>10 DEF AtResponse, Reads, At, Clear, module
  <2>4. LoopTypes'  BY <1>0, <1>10 DEF AtResponse, LoopTypes, module
  <2>5. Fresh'  BY <1>10, <2>2, StillFresh DEF AtResponse
  <2> QED  BY <2>2, <2>4, <2>5, TaskStepKeeps
<1> QED  BY <1>1, <1>2, <1>3, <1>4, <1>5, <1>6, <1>7, <1>8, <1>9, <1>10 DEF wifi_thread

LEMMA WifiNextInv == ASSUME WifiInv, [WifiNext]_wifiVars PROVE WifiInv'
<1>1. CASE Speak  BY <1>1, SpeakInv
<1>2. CASE Uart3  BY <1>2, Uart3TestInv, Uart3StoreInv DEF Uart3
<1>3. CASE ByteMissed  BY <1>3, ByteMissedInv
<1>4. CASE TIM7_IRQHandler  BY <1>4, TIM7Inv
<1>5. CASE wifi_thread  BY <1>5, TaskInv
<1>6. CASE UNCHANGED wifiVars
  BY <1>6 DEF wifiVars, rx, module, loop, WifiInv, WifiTypeOK, EndWillBeMarked, LineInv, Followed,
     Fresh, Stored
<1> QED  BY <1>1, <1>2, <1>3, <1>4, <1>5, <1>6 DEF WifiNext

(* The invariant of the line holds in every run.                            *)
THEOREM LineInvariant == WifiSpec => []WifiInv
<1>1. WifiInv /\ [WifiNext]_wifiVars => WifiInv'  BY WifiNextInv
<1> QED  BY <1>1, WifiInitInv, PTL DEF WifiSpec

(* The receiver's index stays in its buffer, whatever preempts whatever,    *)
(* and the variables of the line and the loop keep their types.             *)
THEOREM LineKeepsTypes == WifiSpec => []WifiTypeOK
<1>1. WifiInv => WifiTypeOK  BY DEF WifiInv
<1> QED  BY <1>1, LineInvariant, PTL

(* A message that has begun to arrive will be marked, and what the task     *)
(* hands to MessageHandle is a command the module sent as a whole, unless   *)
(* bytes were lost since the buffer was last empty.                         *)
THEOREM WholeMessages == WifiSpec => MessagesTaken
<1> DEFINE Handed == handled' # handled => handled' \in {"data", "none"} \/ cut \/ damaged
<1>1. WifiInv /\ [WifiNext]_wifiVars => [Handed]_wifiVars
  <2> SUFFICES ASSUME WifiInv, WifiNext, handled' # handled
               PROVE  handled' \in {"data", "none"} \/ cut \/ damaged
    OBVIOUS
  <2>1. CASE TakeMessage
    <3>1. marked /\ MessageIn  BY <2>1 DEF TakeMessage
    <3> QED  BY <3>1, HandedOver
  <2>2. CASE TakeNothing
    BY <2>2 DEF TakeNothing
  <2>3. CASE ~TakeMessage /\ ~TakeNothing
    BY <2>3 DEF WifiNext, Speak, Uart3, Uart3Test, Uart3Store, ByteMissed, TIM7_IRQHandler,
       wifi_thread, NoCheck, QuitTrans, PollAgain, GiveUp, AskStatus, StatusCame, ReadStatus,
       AtResponse, Checked, loop
  <2> QED  BY <2>1, <2>2, <2>3
<1>2. WifiInv => EndWillBeMarked  BY DEF WifiInv
<1>3. []WifiInv /\ [][WifiNext]_wifiVars => [][Handed]_wifiVars
  BY <1>1, PTL
<1> QED  BY <1>2, <1>3, LineInvariant, PTL DEF WifiSpec, MessagesTaken

(* As long as no command is late, what the check reads is the answer to the *)
(* command it sent.                                                         *)
THEOREM OwnAnswers == WifiSpec => AnswerIsOwn
<1> DEFINE Ok == ~late /\ ~cut /\ ~damaged /\ cmd = "AT" /\ cmd' = "CIPSTATUS" => asked = "none"
           Status == ~late /\ ~cut /\ ~damaged /\ constate' /\ ~constate => asked = "none"
<1>1. ASSUME WifiInv, ~late, ~damaged, pc \in {"wait", "read"},
             Has("OK") \/ Has("+CIPSTATUS:")
      PROVE  asked = "none"
  <2>1. \E k \in 0 .. STA3 - 1 : BUF3[k] \in Answers
    BY <1>1 DEF Has, Received, Answers
  <2> QED  BY <1>1, <2>1 DEF WifiInv, Fresh, Stored
<1>2. WifiInv /\ [WifiNext]_wifiVars => [Ok]_wifiVars
  <2> SUFFICES ASSUME WifiInv, WifiNext, ~late, ~damaged, cmd = "AT", cmd' = "CIPSTATUS"
               PROVE  asked = "none"
    OBVIOUS
  <2>1. CASE AskStatus
    <3>1. pc = "wait" /\ Has("OK")  BY <2>1 DEF AskStatus, At, Acknowledged
    <3> QED  BY <1>1, <3>1
  <2>2. CASE ~AskStatus
    BY <2>2 DEF WifiNext, Speak, Uart3, Uart3Test, Uart3Store, ByteMissed, TIM7_IRQHandler,
       wifi_thread, TakeMessage, TakeNothing, NoCheck, QuitTrans, PollAgain, GiveUp, StatusCame,
       ReadStatus, AtResponse, Checked, SendCmd, loop
  <2> QED  BY <2>1, <2>2
<1>3. WifiInv /\ [WifiNext]_wifiVars => [Status]_wifiVars
  <2> SUFFICES ASSUME WifiInv, WifiNext, ~late, ~damaged, constate', ~constate
               PROVE  asked = "none"
    OBVIOUS
  <2>1. CASE ReadStatus
    <3>1. pc = "read" /\ Has("+CIPSTATUS:")  BY <2>1 DEF ReadStatus, At, Checked
    <3> QED  BY <1>1, <3>1
  <2>2. CASE ~ReadStatus
    BY <2>2 DEF WifiNext, Speak, Uart3, Uart3Test, Uart3Store, ByteMissed, TIM7_IRQHandler,
       wifi_thread, TakeMessage, TakeNothing, NoCheck, QuitTrans, PollAgain, GiveUp, AskStatus,
       StatusCame, AtResponse, Checked, SendCmd, loop
  <2> QED  BY <2>1, <2>2
<1>4. []WifiInv /\ [][WifiNext]_wifiVars => [][Ok]_wifiVars
  BY <1>2, PTL
<1>5. []WifiInv /\ [][WifiNext]_wifiVars => [][Status]_wifiVars
  BY <1>3, PTL
<1> QED  BY <1>4, <1>5, LineInvariant, PTL DEF WifiSpec, AnswerIsOwn
-----------------------------------------------------------------------------
(****************************************************************************)
(* lwIP's timers.  Lists are summed up and built by recursive functions, so *)
(* there is an induction to start from, over sets of numbers; from then on  *)
(* a list is only known by when each of its handlers is due.                *)
(****************************************************************************)
LEMMA Induction ==
  ASSUME NEW n \in Nat, NEW S, 0 \in S, \A k \in 0 .. n - 1 : k \in S => k + 1 \in S
  PROVE  0 .. n \subseteq S
<1> SUFFICES ASSUME (0 .. n) \ S # {} PROVE FALSE  OBVIOUS
<1>1. PICK k \in (0 .. n) \ S : \A j \in (0 .. n) \ S : k <= j
  <2>1. (0 .. n) \ S \subseteq Nat  OBVIOUS
  <2> QED  BY <2>1, HasLeast
<1>2. k # 0 /\ k - 1 \in 0 .. n - 1  BY <1>1
<1>3. k - 1 \in S
  <2> SUFFICES ASSUME k - 1 \notin S PROVE FALSE  OBVIOUS
  <2>1. k - 1 \in (0 .. n) \ S  BY <1>2
  <2>2. k <= k - 1  BY <1>1, <2>1
  <2> QED  BY <1>2, <2>2
<1>4. (k - 1) + 1 \in S  BY <1>2, <1>3
<1> QED  BY <1>1, <1>4

Timer == [h : Handlers, time : Nat]
LEMMA Timers ==
  ASSUME NEW list \in Seq(Timer)
  PROVE  /\ Len(list) \in Nat /\ DOMAIN list = 1 .. Len(list)
         /\ \A k \in 1 .. Len(list) : list[k] \in Timer /\ list[k].time \in Nat /\ list[k].h \in Handlers
<1>1. \A k \in 1 .. Len(list) : list[k] \in Timer  OBVIOUS
<1>2. \A r \in Timer : r.time \in Nat /\ r.h \in Handlers  BY DEF Timer
<1> QED  BY <1>1, <1>2

Sums(list, f) == f[0] = 0 /\ \A k \in 1 .. Len(list) : f[k] = f[k - 1] + list[k].time

LEMMA SumsExist ==
  ASSUME NEW list \in Seq(Timer)
  PROVE  \E f \in [0 .. Len(list) -> Nat] : Sums(list, f)
<1> DEFINE n == Len(list)
           Upto(k, f) == f[0] = 0 /\ \A j \in 1 .. k : f[j] = f[j - 1] + list[j].time
           S == {k \in Nat : \E f \in [0 .. k -> Nat] : Upto(k, f)}
<1>1. n \in Nat /\ \A j \in 1 .. n : list[j].time \in Nat  BY Timers
<1>2. 0 \in S
  <2> DEFINE f == [j \in 0 .. 0 |-> 0]
  <2>1. f \in [0 .. 0 -> Nat] /\ Upto(0, f)  OBVIOUS
  <2> QED  BY <2>1
<1>3. ASSUME NEW k \in 0 .. n - 1, k \in S PROVE k + 1 \in S
  <2>1. PICK f \in [0 .. k -> Nat] : Upto(k, f)  BY <1>3
  <2> DEFINE g == [j \in 0 .. k + 1 |-> IF j = k + 1 THEN f[k] + list[k + 1].time ELSE f[j]]
  <2>2. k \in Nat /\ k \in 0 .. k /\ k + 1 \in 1 .. n  BY <1>1, <1>3
  <2>3. f[k] + list[k + 1].time \in Nat  BY <1>1, <2>2
  <2>4. \A j \in 0 .. k + 1 : j # k + 1 => j \in 0 .. k  BY <2>2
  <2>5. g \in [0 .. k + 1 -> Nat]  BY <2>3, <2>4
  <2>6. g[0] = 0  BY <2>1, <2>2
  <2>7. ASSUME NEW j \in 1 .. k + 1 PROVE g[j] = g[j - 1] + list[j].time
    <3>1. j \in 0 .. k + 1 /\ j - 1 \in 0 .. k + 1 /\ j - 1 # k + 1  BY <2>2, <2>7
    <3>2. g[j - 1] = f[j - 1]  BY <3>1
    <3>3. CASE j = k + 1
      <4>1. j - 1 = k /\ g[j] = f[k] + list[k + 1].time  BY <2>2, <3>1, <3>3
      <4> QED  BY <3>2, <3>3, <4>1
    <3>4. CASE j # k + 1
      <4>1. j \in 1 .. k /\ g[j] = f[j]  BY <2>2, <3>1, <3>4
      <4> QED  BY <2>1, <3>2, <4>1
    <3> QED  BY <3>3, <3>4
  <2>8. Upto(k + 1, g)  BY <2>6, <2>7
  <2>9. k + 1 \in Nat  BY <2>2
  <2> HIDE DEF g, Upto
  <2> QED  BY <2>5, <2>8, <2>9
<1> HIDE DEF S
<1>4. n \in S
  <2>1. 0 .. n \subseteq S  BY <1>1, <1>2, <1>3, Induction
  <2> QED  BY <1>1, <2>1
<1> QED  BY <1>4 DEF S, Sums

(* Only one function sums a list up, and After is that function.            *)
LEMMA SumsAgree ==
  ASSUME NEW list \in Seq(Timer), NEW f, NEW g, Sums(list, f), Sums(list, g)
  PROVE  \A k \in 0 .. Len(list) : f[k] = g[k]
<1> DEFINE S == {k \in 0 .. Len(list) : f[k] = g[k]}
<1>1. Len(list) \in Nat  OBVIOUS
<1>2. 0 \in S  BY <1>1 DEF Sums
<1>3. ASSUME NEW k \in 0 .. Len(list) - 1, k \in S PROVE k + 1 \in S
  <2>1. k + 1 \in 1 .. Len(list) /\ (k + 1) - 1 = k  BY <1>1, <1>3
  <2>2. f[k + 1] = f[k] + list[k + 1].time  BY <2>1 DEF Sums
  <2>3. g[k + 1] = g[k] + list[k + 1].time  BY <2>1 DEF Sums
  <2> QED  BY <1>1, <1>3, <2>1, <2>2, <2>3
<1> HIDE DEF S
<1>4. 0 .. Len(list) \subseteq S  BY <1>1, <1>2, <1>3, Induction
<1> QED  BY <1>4 DEF S

LEMMA AfterSums ==
  ASSUME NEW list \in Seq(Timer)
  PROVE  \E f \in [0 .. Len(list) -> Nat] :
           Sums(list, f) /\ \A k \in 0 .. Len(list) : After(list, k) = f[k]
<1> DEFINE Step(g) == [k \in 0 .. Len(list) |-> IF k = 0 THEN 0 ELSE g[k - 1] + list[k].time]
           sum == CHOOSE g : g = Step(g)
<1>1. PICK f \in [0 .. Len(list) -> Nat] : Sums(list, f)  BY SumsExist
<1>2. Len(list) \in Nat  OBVIOUS
<1>3. f = Step(f)
  <2>1. \A k \in 0 .. Len(list) : f[k] = Step(f)[k]
    <3> SUFFICES ASSUME NEW k \in 0 .. Len(list) PROVE f[k] = Step(f)[k]  OBVIOUS
    <3>1. k # 0 => k \in 1 .. Len(list)  BY <1>2
    <3> QED  BY <1>1, <3>1 DEF Sums
  <2> QED  BY <2>1
<1>4. sum = Step(sum)  BY <1>3
<1> HIDE DEF sum
<1>5. Sums(list, sum)
  <2>1. sum[0] = 0  BY <1>2, <1>4
  <2>2. ASSUME NEW k \in 1 .. Len(list) PROVE sum[k] = sum[k - 1] + list[k].time
    <3>1. k \in 0 .. Len(list) /\ k # 0  BY <1>2, <2>2
    <3>2. sum[k] = Step(sum)[k]  BY <1>4
    <3> QED  BY <3>1, <3>2
  <2> QED  BY <2>1, <2>2 DEF Sums
<1>6. \A k \in 0 .. Len(list) : After(list, k) = sum[k]  BY DEF After, sum
<1>7. \A k \in 0 .. Len(list) : sum[k] = f[k]  BY <1>1, <1>5, SumsAgree
<1> QED  BY <1>1, <1>6, <1>7

LEMMA AfterIs ==
  ASSUME NEW list \in Seq(Timer), NEW f, Sums(list, f)
  PROVE  \A k \in 0 .. Len(list) : After(list, k) = f[k]
<1>1. PICK g \in [0 .. Len(list) -> Nat] :
        Sums(list, g) /\ \A k \in 0 .. Len(list) : After(list, k) = g[k]
  BY AfterSums
<1>2. \A k \in 0 .. Len(list) : g[k] = f[k]  BY <1>1, SumsAgree
<1> QED  BY <1>1, <1>2

LEMMA AfterFacts ==
  ASSUME NEW list \in Seq(Timer)
  PROVE  /\ After(list, 0) = 0 /\ \A k \in 0 .. Len(list) : After(list, k) \in Nat
         /\ \A k \in 1 .. Len(list) :
              list[k].time \in Nat /\ After(list, k) = After(list, k - 1) + list[k].time
<1>1. PICK f \in [0 .. Len(list) -> Nat] :
        Sums(list, f) /\ \A k \in 0 .. Len(list) : After(list, k) = f[k]
  BY AfterSums
<1>2. Len(list) \in Nat /\ \A k \in 1 .. Len(list) : list[k].time \in Nat  BY Timers
<1>3. \A k \in 1 .. Len(list) : k \in 0 .. Len(list) /\ k - 1 \in 0 .. Len(list)  BY <1>2
<1>4. 0 \in 0 .. Len(list)  BY <1>2
<1> QED  BY <1>1, <1>2, <1>3, <1>4 DEF Sums

(* Who is behind expires no earlier.                                        *)
LEMMA AfterGrows ==
  ASSUME NEW list \in Seq(Timer), NEW j \in 0 .. Len(list), NEW k \in 0 .. Len(list), j <= k
  PROVE  After(list, j) <= After(list, k)
<1> DEFINE S == {i \in 0 .. Len(list) : j <= i => After(list, j) <= After(list, i)}
<1>1. Len(list) \in Nat /\ \A i \in 0 .. Len(list) : After(list, i) \in Nat  BY AfterFacts
<1>2. 0 \in S
  <2>1. 0 \in 0 .. Len(list) /\ (j <= 0 => j = 0)  BY <1>1
  <2>2. After(list, 0) <= After(list, 0)  BY <1>1, <2>1
  <2> QED  BY <2>1, <2>2
<1>3. ASSUME NEW i \in 0 .. Len(list) - 1, i \in S PROVE i + 1 \in S
  <2>1. i + 1 \in 1 .. Len(list) /\ i + 1 \in 0 .. Len(list) /\ (i + 1) - 1 = i /\ i \in 0 .. Len(list)
    BY <1>1, <1>3
  <2>2. After(list, i + 1) = After(list, i) + list[i + 1].time /\ list[i + 1].time \in Nat
    BY <2>1, AfterFacts
  <2>3. After(list, i) <= After(list, i + 1)  BY <1>1, <2>1, <2>2
  <2>4. j <= i + 1 => j <= i \/ j = i + 1  BY <2>1
  <2>5. CASE j = i + 1
    <3>1. After(list, j) <= After(list, i + 1)  BY <1>1, <2>1, <2>5
    <3> QED  BY <2>1, <3>1
  <2>6. CASE j <= i
    <3>1. After(list, j) <= After(list, i)  BY <1>3, <2>6
    <3>2. After(list, j) <= After(list, i + 1)  BY <1>1, <2>1, <2>3, <3>1
    <3> QED  BY <2>1, <3>2
  <2> QED  BY <2>1, <2>4, <2>5, <2>6
<1> HIDE DEF S
<1>4. 0 .. Len(list) \subseteq S  BY <1>1, <1>2, <1>3, Induction
<1> QED  BY <1>4 DEF S

(* The place sys_timeout finds: behind those that expire no later.          *)
Behind(list, d) == Cardinality({j \in 1 .. Len(list) : After(list, j) <= d})
LEMMA BehindFacts ==
  ASSUME NEW list \in Seq(Timer), NEW d \in Nat
  PROVE  /\ Behind(list, d) \in 0 .. Len(list)
         /\ \A j \in 1 .. Len(list) : (j <= Behind(list, d)) = (After(list, j) <= d)
<1> DEFINE J == {j \in 1 .. Len(list) : After(list, j) <= d}
           S == {n \in 0 .. Len(list) : \E m \in 0 .. n : J \cap (1 .. n) = 1 .. m}
<1>1. Len(list) \in Nat /\ \A i \in 0 .. Len(list) : After(list, i) \in Nat  BY AfterFacts
<1>2. ASSUME NEW j \in J, NEW i \in 1 .. j PROVE i \in J
  <2>1. j \in 0 .. Len(list) /\ i \in 0 .. Len(list) /\ i \in 1 .. Len(list) /\ i <= j
    BY <1>1, <1>2
  <2>2. After(list, i) <= After(list, j)  BY <2>1, AfterGrows
  <2>3. After(list, i) \in Nat /\ After(list, j) \in Nat /\ After(list, j) <= d  BY <1>1, <1>2, <2>1
  <2>4. After(list, i) <= d  BY <2>2, <2>3
  <2> QED  BY <2>1, <2>4
<1>3. J \subseteq 1 .. Len(list)  OBVIOUS
<1> HIDE DEF J
<1>4. 0 \in S
  <2>1. J \cap (1 .. 0) = 1 .. 0 /\ 0 \in 0 .. 0 /\ 0 \in 0 .. Len(list)  BY <1>1
  <2> QED  BY <2>1
<1>5. ASSUME NEW n \in 0 .. Len(list) - 1, n \in S PROVE n + 1 \in S
  <2>1. n \in Nat /\ n + 1 \in 0 .. Len(list)  BY <1>1, <1>5
  <2>2. CASE n + 1 \in J
    <3>1. \A i \in 1 .. n + 1 : i \in J  BY <1>2, <2>2
    <3>2. J \cap (1 .. n + 1) = 1 .. n + 1  BY <3>1
    <3>3. n + 1 \in 0 .. n + 1  BY <2>1
    <3> QED  BY <2>1, <3>2, <3>3
  <2>3. CASE n + 1 \notin J
    <3>1. PICK m \in 0 .. n : J \cap (1 .. n) = 1 .. m  BY <1>5
    <3>2. \A i \in 1 .. n + 1 : i \in 1 .. n \/ i = n + 1  BY <2>1
    <3>3. \A i \in 1 .. n : i \in 1 .. n + 1  BY <2>1
    <3>4. J \cap (1 .. n + 1) = J \cap (1 .. n)  BY <2>3, <3>2, <3>3
    <3>5. m \in 0 .. n + 1  BY <2>1, <3>1
    <3> QED  BY <2>1, <3>1, <3>4, <3>5
  <2> QED  BY <2>2, <2>3
<1> HIDE DEF S
<1>6. Len(list) \in S
  <2>1. 0 .. Len(list) \subseteq S  BY <1>1, <1>4, <1>5, Induction
  <2> QED  BY <1>1, <2>1
<1>7. PICK m \in 0 .. Len(list) : J = 1 .. m
  <2>1. J \cap (1 .. Len(list)) = J  BY <1>3
  <2> QED  BY <1>6, <2>1 DEF S
<1>8. Cardinality(1 .. m) = m
  <2>1. m \in Int /\ 1 \in Int  OBVIOUS
  <2>2. Cardinality(1 .. m) = IF 1 > m THEN 0 ELSE m - 1 + 1  BY <2>1, FS_Interval
  <2> QED  BY <2>2
<1>9. Behind(list, d) = m  BY <1>7, <1>8 DEF Behind, J
<1>10. ASSUME NEW j \in 1 .. Len(list) PROVE (j <= m) = (After(list, j) <= d)
  <2>1. (j \in J) = (After(list, j) <= d)  BY DEF J
  <2>2. (j \in J) = (j <= m)  BY <1>1, <1>7
  <2> QED  BY <2>1, <2>2
<1> QED  BY <1>9, <1>10
-----------------------------------------------------------------------------
(* sys_timeout, member by member.                                           *)
LEMMA Inserted ==
  ASSUME NEW list \in Seq(Timer), NEW h \in Handlers
  PROVE  LET new == sys_timeout(list, h)
             k == Behind(list, Delay[h])
         IN /\ new \in Seq(Timer) /\ Len(new) = Len(list) + 1 /\ k \in 0 .. Len(list)
            /\ \A j \in 1 .. k : new[j].h = list[j].h /\ After(new, j) = After(list, j)
            /\ new[k + 1].h = h /\ After(new, k + 1) = Delay[h]
            /\ \A j \in k + 1 .. Len(list) :
                 new[j + 1].h = list[j].h /\ After(new, j + 1) = After(list, j)
<1> DEFINE new == sys_timeout(list, h)
           k == Behind(list, Delay[h])
           n == Len(list)
           rest == Delay[h] - After(list, k)
           front == SubSeq(list, 1, k)
           mid == [h |-> h, time |-> rest]
           back == [j \in 1 .. n - k |->
                      IF j = 1 THEN [list[k + 1] EXCEPT !.time = @ - rest] ELSE list[k + j]]
           f == [j \in 0 .. n + 1 |->
                   IF j <= k THEN After(list, j)
                   ELSE IF j = k + 1 THEN Delay[h] ELSE After(list, j - 1)]
<1>1. n \in Nat /\ Delay[h] \in Nat /\ k \in 0 .. n
  BY TimeoutsAssumption, BehindFacts
<1>2. \A j \in 0 .. n : After(list, j) \in Nat  BY AfterFacts
<1>3. \A j \in 1 .. n : (j <= k) = (After(list, j) <= Delay[h])
  BY <1>1, BehindFacts
<1>4. new = (front \o <<mid>>) \o back
  BY DEF sys_timeout, Behind
<1> HIDE DEF k, new
<1>5. rest \in Nat
  <2>1. After(list, k) <= Delay[h]
    <3>1. CASE k = 0  BY <1>1, <3>1, AfterFacts
    <3>2. CASE k # 0
      <4>1. k \in 1 .. n  BY <1>1, <3>2
      <4>2. k <= k  BY <1>1
      <4> QED  BY <1>3, <4>1, <4>2
    <3> QED  BY <3>1, <3>2
  <2>2. After(list, k) \in Nat  BY <1>1, <1>2
  <2> QED  BY <1>1, <2>1, <2>2
<1>6. k < n => /\ list[k + 1].time - rest \in Nat
               /\ list[k + 1].time = After(list, k + 1) - After(list, k)
  <2> SUFFICES ASSUME k < n PROVE /\ list[k + 1].time - rest \in Nat
                                  /\ list[k + 1].time = After(list, k + 1) - After(list, k)
    OBVIOUS
  <2>1. k + 1 \in 1 .. n /\ (k + 1) - 1 = k  BY <1>1
  <2>2. After(list, k + 1) = After(list, k) + list[k + 1].time /\ list[k + 1].time \in Nat
    BY <2>1, AfterFacts
  <2>3. ~(k + 1 <= k)  BY <1>1
  <2>4. ~(After(list, k + 1) <= Delay[h])  BY <1>3, <2>1, <2>3
  <2>5. After(list, k + 1) \in Nat /\ After(list, k) \in Nat  BY <1>1, <1>2, <2>1
  <2> QED  BY <1>1, <2>2, <2>4, <2>5
<1>7. front \in Seq(Timer) /\ Len(front) = k /\ \A j \in 1 .. k : front[j] = list[j]
  <2>1. 1 .. k \subseteq 1 .. n  BY <1>1
  <2>2. \A j \in 1 .. k : list[j] \in Timer  BY <2>1, Timers
  <2> QED  BY <1>1, <2>1, <2>2
<1>8. mid \in Timer  BY <1>5 DEF Timer
<1>9. /\ back \in Seq(Timer) /\ Len(back) = n - k
      /\ \A j \in 1 .. n - k : back[j].h = list[k + j].h
      /\ k < n => back[1].time = list[k + 1].time - rest
      /\ \A j \in 2 .. n - k : back[j] = list[k + j]
  <2>1. n - k \in Nat /\ \A j \in 1 .. n - k : k + j \in 1 .. n  BY <1>1
  <2>2. \A j \in 1 .. n - k : list[k + j] \in Timer  BY <2>1, Timers
  <2>3. k < n => [list[k + 1] EXCEPT !.time = @ - rest] =
                   [h |-> list[k + 1].h, time |-> list[k + 1].time - rest]
    <3> SUFFICES ASSUME k < n
                 PROVE  [list[k + 1] EXCEPT !.time = @ - rest] =
                          [h |-> list[k + 1].h, time |-> list[k + 1].time - rest]
      OBVIOUS
    <3>1. k + 1 \in 1 .. n  BY <1>1
    <3>2. list[k + 1] \in Timer  BY <3>1, Timers
    <3> QED  BY <3>2 DEF Timer
  <2>4. k < n => [h |-> list[k + 1].h, time |-> list[k + 1].time - rest] \in Timer
    <3> SUFFICES ASSUME k < n PROVE [h |-> list[k + 1].h, time |-> list[k + 1].time - rest] \in Timer
      OBVIOUS
    <3>1. k + 1 \in 1 .. n  BY <1>1
    <3>2. list[k + 1].h \in Handlers  BY <3>1, Timers
    <3> QED  BY <1>6, <3>2 DEF Timer
  <2>5. \A j \in 1 .. n - k : (j = 1 => k < n) /\ (j = 1 => list[k + 1] = list[k + j])  BY <1>1
  <2>6. \A j \in 1 .. n - k :
          back[j] = IF j = 1 THEN [h |-> list[k + 1].h, time |-> list[k + 1].time - rest]
                    ELSE list[k + j]
    BY <2>3, <2>5
  <2> HIDE DEF back
  <2>7. \A j \in 1 .. n - k : back[j] \in Timer  BY <2>2, <2>4, <2>5, <2>6
  <2>8. DOMAIN back = 1 .. n - k  BY DEF back
  <2>9. back = [j \in 1 .. n - k |-> back[j]]  BY DEF back
  <2>10. back \in Seq(Timer) /\ Len(back) = n - k
    <3>1. [j \in 1 .. n - k |-> back[j]] \in Seq(Timer) /\ Len([j \in 1 .. n - k |-> back[j]]) = n - k
      BY <2>1, <2>7
    <3> QED  BY <2>9, <3>1
  <2>11. \A j \in 1 .. n - k : back[j].h = list[k + j].h
    BY <2>5, <2>6
  <2>12. k < n => back[1].time = list[k + 1].time - rest
    <3>1. k < n => 1 \in 1 .. n - k  BY <1>1
    <3> QED  BY <2>6, <3>1
  <2>13. \A j \in 2 .. n - k : back[j] = list[k + j]
    <3>1. \A j \in 2 .. n - k : j \in 1 .. n - k /\ j # 1  OBVIOUS
    <3> QED  BY <2>6, <3>1
  <2> QED  BY <2>10, <2>11, <2>12, <2>13
<1> HIDE DEF front, mid, back
<1>10. new \in Seq(Timer) /\ Len(new) = n + 1
  <2>1. <<mid>> \in Seq(Timer) /\ Len(<<mid>>) = 1  BY <1>8
  <2>2. front \o <<mid>> \in Seq(Timer) /\ Len(front \o <<mid>>) = k + 1
    BY <1>1, <1>7, <2>1
  <2> DEFINE pre == front \o <<mid>>
  <2> HIDE DEF pre
  <2>3. pre \in Seq(Timer) /\ Len(pre) = k + 1 /\ new = pre \o back  BY <1>4, <2>2 DEF pre
  <2>4. new \in Seq(Timer) /\ Len(new) = Len(pre) + Len(back)
    BY <1>9, <2>3, ConcatProperties
  <2> QED  BY <1>1, <1>9, <2>3, <2>4
<1>11. \A j \in 1 .. n + 1 :
         new[j] = IF j <= k THEN front[j] ELSE IF j = k + 1 THEN mid ELSE back[j - (k + 1)]
  BY <1>1, <1>4, <1>7, <1>8, <1>9
<1>12. \A j \in 1 .. k : new[j] = list[j]
  <2>1. \A j \in 1 .. k : j \in 1 .. n + 1 /\ j <= k  BY <1>1
  <2> QED  BY <1>7, <1>11, <2>1
<1>13. new[k + 1] = mid
  <2>1. k + 1 \in 1 .. n + 1 /\ ~(k + 1 <= k)  BY <1>1
  <2> QED  BY <1>11, <2>1
<1>14. \A j \in k + 1 .. n : new[j + 1] = back[j - k] /\ j - k \in 1 .. n - k
  <2>1. \A j \in k + 1 .. n : /\ j + 1 \in 1 .. n + 1 /\ ~(j + 1 <= k) /\ j + 1 # k + 1
                              /\ (j + 1) - (k + 1) = j - k /\ j - k \in 1 .. n - k
    BY <1>1
  <2> QED  BY <1>11, <2>1
<1>15. Sums(new, f)
  <2>1. f[0] = 0
    <3>1. f[0] = After(list, 0)  BY <1>1
    <3> QED  BY <3>1, AfterFacts
  <2>2. ASSUME NEW j \in 1 .. n + 1 PROVE f[j] = f[j - 1] + new[j].time
    <3>0. j \in 0 .. n + 1 /\ j - 1 \in 0 .. n + 1  BY <1>1, <2>2
    <3>1. CASE j <= k
      <4>1. j \in 1 .. n /\ j - 1 <= k /\ j \in 1 .. k  BY <1>1, <2>2, <3>1
      <4>2. f[j] = After(list, j) /\ f[j - 1] = After(list, j - 1)  BY <3>0, <3>1, <4>1
      <4>3. new[j].time = list[j].time  BY <1>12, <4>1
      <4> QED  BY <4>1, <4>2, <4>3, AfterFacts
    <3>2. CASE j = k + 1
      <4>1. j - 1 = k /\ ~(j <= k) /\ j - 1 <= k  BY <1>1, <3>2
      <4>2. f[j] = Delay[h] /\ f[j - 1] = After(list, k)  BY <3>0, <3>2, <4>1
      <4>3. new[j].time = rest  BY <1>13, <3>2 DEF mid
      <4>4. After(list, k) \in Nat  BY <1>1, <1>2
      <4> QED  BY <1>1, <4>2, <4>3, <4>4
    <3>3. CASE j = k + 2
      <4>1. k < n /\ k + 1 \in k + 1 .. n /\ j = (k + 1) + 1 /\ (k + 1) - k = 1 /\ j - 1 = k + 1
        BY <1>1, <2>2, <3>3
      <4>2. ~(j <= k) /\ j # k + 1 /\ ~(j - 1 <= k)  BY <1>1, <3>3
      <4>3. f[j] = After(list, k + 1) /\ f[j - 1] = Delay[h]  BY <3>0, <4>1, <4>2
      <4>4. new[j] = back[1]  BY <1>14, <4>1
      <4>5. new[j].time = list[k + 1].time - rest  BY <1>9, <4>1, <4>4
      <4>6. After(list, k) \in Nat /\ After(list, k + 1) \in Nat  BY <1>1, <1>2, <4>1
      <4> QED  BY <1>1, <1>6, <4>1, <4>3, <4>5, <4>6
    <3>4. CASE j > k + 2
      <4>1. /\ j - 1 \in k + 1 .. n /\ (j - 1) + 1 = j /\ (j - 1) - k \in 2 .. n - k
            /\ k + ((j - 1) - k) = j - 1 /\ j - 1 \in 1 .. n
        BY <1>1, <2>2, <3>4
      <4>2. ~(j <= k) /\ j # k + 1 /\ ~(j - 1 <= k) /\ j - 1 # k + 1 /\ (j - 1) - 1 = j - 2
        BY <1>1, <2>2, <3>4
      <4>3. f[j] = After(list, j - 1) /\ f[j - 1] = After(list, (j - 1) - 1)  BY <3>0, <4>2
      <4>4. new[j] = back[(j - 1) - k]  BY <1>14, <4>1
      <4>5. back[(j - 1) - k] = list[k + ((j - 1) - k)]  BY <1>9, <4>1
      <4>6. new[j] = list[j - 1]  BY <4>1, <4>4, <4>5
      <4>7. After(list, j - 1) = After(list, (j - 1) - 1) + list[j - 1].time  BY <4>1, AfterFacts
      <4> QED  BY <4>3, <4>6, <4>7
    <3> QED  BY <1>1, <2>2, <3>1, <3>2, <3>3, <3>4
  <2> HIDE DEF f
  <2> QED  BY <1>10, <2>1, <2>2 DEF Sums
<1>16. \A j \in 0 .. n + 1 : After(new, j) = f[j]
  BY <1>10, <1>15, AfterIs
<1>17. \A j \in 1 .. k : new[j].h = list[j].h /\ After(new, j) = After(list, j)
  <2>1. \A j \in 1 .. k : j \in 0 .. n + 1 /\ j <= k  BY <1>1
  <2> QED  BY <1>12, <1>16, <2>1
<1>18. new[k + 1].h = h /\ After(new, k + 1) = Delay[h]
  <2>1. k + 1 \in 0 .. n + 1 /\ ~(k + 1 <= k)  BY <1>1
  <2> QED  BY <1>13, <1>16, <2>1 DEF mid
<1>19. ASSUME NEW j \in k + 1 .. n
       PROVE  new[j + 1].h = list[j].h /\ After(new, j + 1) = After(list, j)
  <2>1. /\ j + 1 \in 0 .. n + 1 /\ ~(j + 1 <= k) /\ j + 1 # k + 1 /\ (j + 1) - 1 = j
        /\ k + (j - k) = j
    BY <1>1, <1>19
  <2>2. new[j + 1].h = list[j].h  BY <1>9, <1>14, <2>1
  <2>3. After(new, j + 1) = After(list, j)  BY <1>16, <2>1
  <2> QED  BY <2>2, <2>3
<1> QED  BY <1>1, <1>10, <1>17, <1>18, <1>19 DEF k, new
-----------------------------------------------------------------------------
(* A list by its handlers: each is in it once and is due when due says.     *)
Names(list) == {list[k].h : k \in 1 .. Len(list)}
Distinct(list) == \A j, k \in 1 .. Len(list) : list[j].h = list[k].h => j = k
Holds(list, due) == \A k \in 1 .. Len(list) : After(list, k) = due[list[k].h]
Schedule(list, due) ==
  list \in Seq(Timer) /\ due \in [Handlers -> Int] /\ Distinct(list) /\ Holds(list, due)

LEMMA ArmedOnce ==
  ASSUME NEW list, NEW due, Schedule(list, due), NEW h \in Handlers, h \notin Names(list)
  PROVE  /\ Schedule(sys_timeout(list, h), [due EXCEPT ![h] = Delay[h]])
         /\ Names(sys_timeout(list, h)) = Names(list) \cup {h}
<1> DEFINE new == sys_timeout(list, h)
           k == Behind(list, Delay[h])
           n == Len(list)
           was(j) == IF j <= k THEN j ELSE j - 1
           now == [due EXCEPT ![h] = Delay[h]]
<1>1. /\ new \in Seq(Timer) /\ Len(new) = n + 1 /\ k \in 0 .. n
      /\ \A j \in 1 .. k : new[j].h = list[j].h /\ After(new, j) = After(list, j)
      /\ new[k + 1].h = h /\ After(new, k + 1) = Delay[h]
      /\ \A j \in k + 1 .. n : new[j + 1].h = list[j].h /\ After(new, j + 1) = After(list, j)
  BY Inserted DEF Schedule
<1>2. n \in Nat /\ Delay[h] \in Nat /\ \A j \in 1 .. n : list[j].h \in Handlers /\ list[j].h # h
  BY TimeoutsAssumption, Timers DEF Schedule, Names
<1> HIDE DEF new, k
<1>3. ASSUME NEW j \in 1 .. n + 1, j # k + 1
      PROVE  /\ was(j) \in 1 .. n /\ new[j].h = list[was(j)].h
             /\ After(new, j) = After(list, was(j))
  <2>1. CASE j <= k
    <3>1. j \in 1 .. k /\ j \in 1 .. n  BY <1>1, <1>2, <2>1
    <3> QED  BY <1>1, <2>1, <3>1
  <2>2. CASE ~(j <= k)
    <3>1. j - 1 \in k + 1 .. n /\ (j - 1) + 1 = j /\ j - 1 \in 1 .. n  BY <1>1, <1>2, <1>3, <2>2
    <3> QED  BY <1>1, <2>2, <3>1
  <2> QED  BY <2>1, <2>2
<1>4. ASSUME NEW i \in 1 .. n + 1, NEW j \in 1 .. n + 1, i # k + 1, j # k + 1, was(i) = was(j)
      PROVE  i = j
  BY <1>1, <1>2, <1>4
<1> HIDE DEF was
<1>5. Distinct(new)
  <2> SUFFICES ASSUME NEW i \in 1 .. n + 1, NEW j \in 1 .. n + 1, new[i].h = new[j].h
               PROVE  i = j
    BY <1>1 DEF Distinct
  <2>1. CASE i # k + 1 /\ j # k + 1
    <3>1. was(i) = was(j)  BY <1>3, <2>1 DEF Schedule, Distinct
    <3> QED  BY <1>4, <2>1, <3>1
  <2>2. CASE i = k + 1 /\ j # k + 1
    <3>1. new[j].h # h  BY <1>2, <1>3, <2>2
    <3> QED  BY <1>1, <2>2, <3>1
  <2>3. CASE i # k + 1 /\ j = k + 1
    <3>1. new[i].h # h  BY <1>2, <1>3, <2>3
    <3> QED  BY <1>1, <2>3, <3>1
  <2> QED  BY <2>1, <2>2, <2>3
<1>6. Holds(new, now)
  <2> SUFFICES ASSUME NEW j \in 1 .. n + 1 PROVE After(new, j) = now[new[j].h]
    BY <1>1 DEF Holds
  <2>1. CASE j = k + 1
    BY <1>1, <2>1 DEF Schedule
  <2>2. CASE j # k + 1
    <3>1. new[j].h \in Handlers /\ new[j].h # h  BY <1>2, <1>3, <2>2
    <3>2. After(list, was(j)) = due[list[was(j)].h]  BY <1>3, <2>2 DEF Schedule, Holds
    <3>3. now[new[j].h] = due[new[j].h]  BY <3>1 DEF Schedule
    <3> QED  BY <1>3, <2>2, <3>2, <3>3
  <2> QED  BY <2>1, <2>2
<1>7. now \in [Handlers -> Int]  BY <1>2 DEF Schedule
<1>8. Names(new) = Names(list) \cup {h}
  <2>1. ASSUME NEW j \in 1 .. n + 1 PROVE new[j].h \in Names(list) \cup {h}
    BY <1>1, <1>3 DEF Names
  <2>2. ASSUME NEW j \in 1 .. n PROVE list[j].h \in Names(new)
    <3>1. CASE j <= k
      <4>1. j \in 1 .. k /\ j \in 1 .. n + 1  BY <1>1, <1>2, <3>1
      <4> QED  BY <1>1, <4>1 DEF Names
    <3>2. CASE ~(j <= k)
      <4>1. j \in k + 1 .. n /\ j + 1 \in 1 .. n + 1  BY <1>1, <1>2, <3>2
      <4> QED  BY <1>1, <4>1 DEF Names
    <3> QED  BY <3>1, <3>2
  <2>3. h \in Names(new)
    <3>1. k + 1 \in 1 .. n + 1  BY <1>1, <1>2
    <3> QED  BY <1>1, <3>1 DEF Names
  <2>4. Names(new) \subseteq Names(list) \cup {h}  BY <1>1, <2>1 DEF Names
  <2>5. Names(list) \subseteq Names(new)  BY <2>2 DEF Names
  <2> QED  BY <2>3, <2>4, <2>5
<1> QED  BY <1>1, <1>5, <1>6, <1>7, <1>8 DEF Schedule, new

(* The first timer is due first; without it the others are due as much      *)
(* later as it had to go.                                                   *)
LEMMA FirstDue ==
  ASSUME NEW list, NEW due, Schedule(list, due), list # <<>>
  PROVE  /\ Head(list).h \in Handlers /\ Head(list).time \in Nat
         /\ Head(list).h \in Names(list) /\ due[Head(list).h] = Head(list).time
         /\ \A h \in Names(list) : h \in Handlers /\ due[h] \in Nat /\ due[h] >= Head(list).time
<1>1. Len(list) \in Nat /\ 1 \in 1 .. Len(list) /\ Head(list) = list[1]  BY DEF Schedule
<1>2. list[1].h \in Handlers /\ list[1].time \in Nat  BY <1>1, Timers DEF Schedule
<1>3. After(list, 1) = list[1].time
  <2>1. After(list, 1) = After(list, 1 - 1) + list[1].time /\ 1 - 1 = 0
    BY <1>1, AfterFacts DEF Schedule
  <2> QED  BY <1>2, <2>1, AfterFacts DEF Schedule
<1>4. ASSUME NEW k \in 1 .. Len(list)
      PROVE  list[k].h \in Handlers /\ due[list[k].h] \in Nat /\ due[list[k].h] >= list[1].time
  <2>1. k \in 0 .. Len(list) /\ 1 \in 0 .. Len(list) /\ 1 <= k  BY <1>1
  <2>2. After(list, 1) <= After(list, k)  BY <2>1, AfterGrows DEF Schedule
  <2>3. After(list, k) \in Nat  BY <2>1, AfterFacts DEF Schedule
  <2>4. list[k].h \in Handlers  BY Timers DEF Schedule
  <2>5. due[list[k].h] = After(list, k)  BY DEF Schedule, Holds
  <2> QED  BY <1>2, <1>3, <2>2, <2>3, <2>4, <2>5
<1> QED  BY <1>1, <1>2, <1>3, <1>4 DEF Schedule, Holds, Names

LEMMA FirstGone ==
  ASSUME NEW list, NEW due, Schedule(list, due), list # <<>>
  PROVE  /\ Schedule(Tail(list), [h \in Handlers |-> due[h] - Head(list).time])
         /\ Names(Tail(list)) = Names(list) \ {Head(list).h}
<1> DEFINE n == Len(list)
           rest == Tail(list)
           less == [h \in Handlers |-> due[h] - Head(list).time]
           f == [j \in 0 .. n - 1 |-> After(list, j + 1) - list[1].time]
<1>1. n \in Nat /\ 1 \in 1 .. n /\ Head(list) = list[1]  BY DEF Schedule
<1>2. rest \in Seq(Timer) /\ Len(rest) = n - 1 /\ \A j \in 1 .. n - 1 : rest[j] = list[j + 1]
  BY <1>1 DEF Schedule
<1>3. \A j \in 1 .. n : list[j].h \in Handlers /\ list[j].time \in Nat  BY Timers DEF Schedule
<1>4. /\ After(list, 0) = 0 /\ \A j \in 0 .. n : After(list, j) \in Nat
      /\ \A j \in 1 .. n : After(list, j) = After(list, j - 1) + list[j].time
  BY AfterFacts DEF Schedule
<1> HIDE DEF rest
<1>5. Sums(rest, f)
  <2>1. f[0] = 0
    <3>1. 0 \in 0 .. n - 1 /\ 0 + 1 = 1 /\ 1 - 1 = 0  BY <1>1
    <3>2. After(list, 1) = list[1].time  BY <1>1, <1>3, <1>4, <3>1
    <3> QED  BY <1>1, <1>3, <3>1, <3>2
  <2>2. ASSUME NEW j \in 1 .. n - 1 PROVE f[j] = f[j - 1] + rest[j].time
    <3>1. /\ j \in 0 .. n - 1 /\ j - 1 \in 0 .. n - 1 /\ (j - 1) + 1 = j /\ (j + 1) - 1 = j
          /\ j + 1 \in 1 .. n /\ j \in 0 .. n
      BY <1>1
    <3>2. f[j] = After(list, j + 1) - list[1].time /\ f[j - 1] = After(list, j) - list[1].time
      BY <3>1
    <3>3. After(list, j + 1) = After(list, j) + list[j + 1].time  BY <1>4, <3>1
    <3>4. After(list, j) \in Nat /\ list[j + 1].time \in Nat /\ list[1].time \in Nat
      BY <1>1, <1>3, <1>4, <3>1
    <3> QED  BY <1>2, <3>2, <3>3, <3>4
  <2> HIDE DEF f
  <2> QED  BY <1>2, <2>1, <2>2 DEF Sums
<1>6. ASSUME NEW j \in 1 .. n - 1
      PROVE  /\ j + 1 \in 1 .. n /\ rest[j].h = list[j + 1].h /\ rest[j].h \in Handlers
             /\ After(rest, j) = due[rest[j].h] - list[1].time
  <2>1. j + 1 \in 1 .. n /\ j \in 0 .. n - 1  BY <1>1
  <2>2. After(rest, j) = f[j]  BY <1>2, <1>5, <2>1, AfterIs
  <2>3. After(list, j + 1) = due[list[j + 1].h]  BY <2>1 DEF Schedule, Holds
  <2> QED  BY <1>2, <1>3, <2>1, <2>2, <2>3
<1>7. Holds(rest, less)  BY <1>1, <1>2, <1>6 DEF Holds
<1>8. Distinct(rest)
  <2> SUFFICES ASSUME NEW i \in 1 .. n - 1, NEW j \in 1 .. n - 1, rest[i].h = rest[j].h
               PROVE  i = j
    BY <1>2 DEF Distinct
  <2>1. i + 1 = j + 1  BY <1>6 DEF Schedule, Distinct
  <2> QED  BY <2>1
<1>9. less \in [Handlers -> Int]  BY <1>1, <1>3 DEF Schedule
<1>10. Names(rest) = Names(list) \ {list[1].h}
  <2>1. ASSUME NEW j \in 1 .. n - 1 PROVE rest[j].h \in Names(list) \ {list[1].h}
    <3>1. j + 1 # 1  OBVIOUS
    <3>2. list[j + 1].h # list[1].h  BY <1>1, <1>6, <3>1 DEF Schedule, Distinct
    <3> QED  BY <1>6, <3>2 DEF Names
  <2>2. ASSUME NEW j \in 1 .. n, list[j].h # list[1].h PROVE list[j].h \in Names(rest)
    <3>1. j # 1  BY <2>2
    <3>2. j - 1 \in 1 .. n - 1 /\ (j - 1) + 1 = j  BY <1>1, <3>1
    <3> QED  BY <1>2, <3>2 DEF Names
  <2> QED  BY <1>2, <2>1, <2>2 DEF Names
<1> QED  BY <1>1, <1>2, <1>7, <1>8, <1>9, <1>10 DEF Schedule, rest

(* Time that passes is taken off the first timer, and so off all, as far as *)
(* the first one has it.                                                    *)
Passed(list, ms) == IF Head(list).time - ms > 0 THEN ms ELSE Head(list).time
LEMMA TimePasses ==
  ASSUME NEW due, Schedule(timers, due), timers # <<>>, NEW ms \in Nat
  PROVE  /\ Schedule(Elapse(ms), [h \in Handlers |-> due[h] - Passed(timers, ms)])
         /\ Names(Elapse(ms)) = Names(timers)
         /\ Passed(timers, ms) \in Nat /\ (ms <= Head(timers).time => Passed(timers, ms) = ms)
<1> DEFINE n == Len(timers)
           e == Passed(timers, ms)
           left == Head(timers).time - e
           first == [Head(timers) EXCEPT !.time = left]
           new == Elapse(ms)
           less == [h \in Handlers |-> due[h] - e]
           f == [j \in 0 .. n |-> IF j = 0 THEN 0 ELSE After(timers, j) - e]
<1>1. n \in Nat /\ 1 \in 1 .. n /\ Head(timers) = timers[1] /\ timers \in Seq(Timer)  BY DEF Schedule
<1>2. \A j \in 1 .. n : timers[j] \in Timer /\ timers[j].h \in Handlers /\ timers[j].time \in Nat
  BY Timers DEF Schedule
<1>3. /\ After(timers, 0) = 0 /\ \A j \in 0 .. n : After(timers, j) \in Nat
      /\ \A j \in 1 .. n : After(timers, j) = After(timers, j - 1) + timers[j].time
  BY <1>1, AfterFacts
<1>4. /\ e \in Nat /\ left \in Nat /\ (ms <= Head(timers).time => e = ms)
      /\ left = (IF Head(timers).time - ms > 0 THEN Head(timers).time - ms ELSE 0)
  <2>1. Head(timers).time \in Nat  BY <1>1, <1>2
  <2> QED  BY <2>1 DEF Passed
<1>5. new = <<first>> \o Tail(timers)
  BY <1>4 DEF Elapse
<1> HIDE DEF e
<1>6. first = [h |-> timers[1].h, time |-> left] /\ first \in Timer
  BY <1>1, <1>2, <1>4 DEF Timer
<1> HIDE DEF left, first, new
<1>7. /\ Tail(timers) \in Seq(Timer) /\ Len(Tail(timers)) = n - 1
      /\ \A j \in 1 .. n - 1 : Tail(timers)[j] = timers[j + 1]
  BY <1>1
<1>8. /\ new \in Seq(Timer) /\ Len(new) = n /\ new[1] = first
      /\ \A j \in 2 .. n : new[j] = timers[j]
  <2>1. <<first>> \in Seq(Timer) /\ Len(<<first>>) = 1 /\ <<first>>[1] = first  BY <1>6
  <2>2. new \in Seq(Timer) /\ Len(new) = 1 + (n - 1)  BY <1>5, <1>7, <2>1
  <2>3. new[1] = first  BY <1>1, <1>5, <1>7, <2>1
  <2>4. \A j \in 2 .. n : new[j] = Tail(timers)[j - 1]  BY <1>1, <1>5, <1>7, <2>1
  <2>5. \A j \in 2 .. n : j - 1 \in 1 .. n - 1 /\ (j - 1) + 1 = j  BY <1>1
  <2> QED  BY <1>1, <1>7, <2>2, <2>3, <2>4, <2>5
<1>9. Sums(new, f)
  <2>1. f[0] = 0  BY <1>1
  <2>2. ASSUME NEW j \in 1 .. n PROVE f[j] = f[j - 1] + new[j].time
    <3>1. j \in 0 .. n /\ j - 1 \in 0 .. n /\ j # 0  BY <1>1
    <3>2. f[j] = After(timers, j) - e  BY <3>1
    <3>3. After(timers, j) = After(timers, j - 1) + timers[j].time  BY <1>3
    <3>4. After(timers, j - 1) \in Nat /\ timers[j].time \in Nat  BY <1>2, <1>3, <3>1
    <3>5. CASE j = 1
      <4>1. f[j - 1] = 0 /\ j - 1 = 0  BY <3>1, <3>5
      <4>2. new[j].time = timers[1].time - e  BY <1>1, <1>6, <1>8, <3>5 DEF left
      <4> QED  BY <1>3, <1>4, <3>2, <3>3, <3>4, <3>5, <4>1, <4>2
    <3>6. CASE j # 1
      <4>1. j \in 2 .. n /\ j - 1 # 0  BY <1>1, <3>1, <3>6
      <4>2. f[j - 1] = After(timers, j - 1) - e  BY <3>1, <4>1
      <4>3. new[j].time = timers[j].time  BY <1>8, <4>1
      <4> QED  BY <1>4, <3>2, <3>3, <3>4, <4>2, <4>3
    <3> QED  BY <3>5, <3>6
  <2> HIDE DEF f
  <2> QED  BY <1>8, <2>1, <2>2 DEF Sums
<1>10. ASSUME NEW j \in 1 .. n
       PROVE  new[j].h = timers[j].h /\ After(new, j) = due[timers[j].h] - e
  <2>1. j \in 0 .. n /\ j # 0  BY <1>1
  <2>2. After(new, j) = f[j]  BY <1>8, <1>9, <2>1, AfterIs
  <2>3. After(timers, j) = due[timers[j].h]  BY DEF Schedule, Holds
  <2>4. CASE j = 1
    BY <1>6, <1>8, <2>1, <2>2, <2>3, <2>4
  <2>5. CASE j # 1
    <3>1. j \in 2 .. n  BY <1>1, <2>5
    <3> QED  BY <1>8, <2>1, <2>2, <2>3, <3>1
  <2> QED  BY <2>4, <2>5
<1>11. Holds(new, less)  BY <1>2, <1>8, <1>10 DEF Holds
<1>12. Distinct(new)  BY <1>8, <1>10 DEF Schedule, Distinct
<1>13. Names(new) = Names(timers)  BY <1>8, <1>10 DEF Names
<1>14. less \in [Handlers -> Int]  BY <1>4 DEF Schedule
<1> QED  BY <1>4, <1>8, <1>11, <1>12, <1>13, <1>14 DEF Schedule, new, e
-----------------------------------------------------------------------------
(* Rounding: a wait that times out lasts less than a tick more or less than *)
(* it was to last, and a message within it leaves the first timer its time. *)
LEMMA LimitFacts ==
  ASSUME NEW ms \in Nat
  PROVE  /\ Limit(ms) \in Nat
         /\ TickMs * Limit(ms) <= ms + (TickMs - 1) /\ TickMs * Limit(ms) >= ms - (TickMs - 1)
         /\ \A n \in Nat : n >= 1 /\ n < Limit(ms) => n * TickMs + 1 <= ms
<1> DEFINE q == ms \div TickMs
<1>1. TickMs \in Nat /\ TickMs >= 1  BY TimeoutsAssumption
<1>2. q \in Nat  BY <1>1
<1>3. TickMs * q <= ms  BY <1>1
<1>4. ms < TickMs * q + TickMs  BY <1>1
<1>5. TickMs * q \in Nat  BY <1>1, <1>2
<1> HIDE DEF q
<1>6. Limit(ms) = IF ms = 0 THEN 0 ELSE IF q < 1 THEN 1 ELSE q  BY DEF Limit, q
<1>7. CASE ms = 0
  <2>1. Limit(ms) = 0 /\ TickMs * 0 = 0  BY <1>1, <1>6, <1>7
  <2> QED  BY <1>1, <1>7, <2>1
<1>8. CASE ms # 0 /\ q < 1
  <2>1. Limit(ms) = 1 /\ TickMs * 1 = TickMs  BY <1>1, <1>6, <1>8
  <2>2. q = 0 /\ TickMs * 0 = 0  BY <1>1, <1>2, <1>8
  <2>3. ms < TickMs  BY <1>1, <1>4, <2>2
  <2> QED  BY <1>1, <1>8, <2>1, <2>3
<1>9. CASE ms # 0 /\ ~(q < 1)
  <2>1. Limit(ms) = q  BY <1>6, <1>9
  <2>2. ASSUME NEW n \in Nat, n < q PROVE n * TickMs + 1 <= ms
    <3>1. n + 1 <= q  BY <1>2, <2>2
    <3>2. TickMs * (n + 1) <= TickMs * q  BY <1>1, <1>2, <3>1
    <3>3. TickMs * (n + 1) = n * TickMs + TickMs /\ n * TickMs \in Nat  BY <1>1
    <3> QED  BY <1>1, <1>3, <1>5, <3>2, <3>3
  <2>3. TickMs * q <= ms + (TickMs - 1) /\ TickMs * q >= ms - (TickMs - 1)
    BY <1>1, <1>3, <1>4, <1>5
  <2> QED  BY <1>2, <2>1, <2>2, <2>3
<1> QED  BY <1>7, <1>8, <1>9

LEMMA OneRounding ==
  ASSUME NEW w \in Nat, NEW x \in Nat, NEW n \in Nat, NEW total \in Nat, NEW f \in Nat,
         NEW d \in Int, NEW ms \in Nat,
         TickMs * n <= ms + (TickMs - 1), TickMs * n >= ms - (TickMs - 1)
  PROVE  /\ TickMs * w + d <= total + (TickMs - 1) * x =>
              TickMs * (w + n) + (d - ms) <= total + (TickMs - 1) * (x + 1)
         /\ TickMs * w + d >= total - f - (TickMs - 1) * x =>
              TickMs * (w + n) + (d - ms) >= total - f - (TickMs - 1) * (x + 1)
<1>1. TickMs \in Nat /\ TickMs >= 1  BY TimeoutsAssumption
<1>2. TickMs * (w + n) = TickMs * w + TickMs * n  BY <1>1
<1>3. (TickMs - 1) * (x + 1) = (TickMs - 1) * x + (TickMs - 1)  BY <1>1
<1>4. TickMs * w \in Int /\ TickMs * n \in Int /\ (TickMs - 1) * x \in Int  BY <1>1
<1> QED  BY <1>1, <1>2, <1>3, <1>4

LEMMA OneMessage ==
  ASSUME NEW w \in Nat, NEW x \in Nat, NEW n \in Nat, NEW total \in Nat, NEW f \in Nat,
         NEW d \in Int, NEW e \in Nat, n >= 1 => e = n * TickMs + 1
  PROVE  /\ TickMs * w + d <= total + (TickMs - 1) * x =>
              TickMs * (w + n) + (d - e) <= total + (TickMs - 1) * x
         /\ n >= 1 /\ TickMs * w + d >= total - f - (TickMs - 1) * x =>
              TickMs * (w + n) + (d - e) >= total - (f + 1) - (TickMs - 1) * x
<1>1. TickMs \in Nat /\ TickMs >= 1  BY TimeoutsAssumption
<1>2. TickMs * w \in Int /\ TickMs * n \in Int /\ (TickMs - 1) * x \in Int  BY <1>1
<1>3. CASE n = 0
  <2>1. w + n = w  BY <1>3
  <2> QED  BY <1>2, <1>3, <2>1
<1>4. CASE n >= 1
  <2>1. TickMs * (w + n) = TickMs * w + TickMs * n  BY <1>1
  <2>2. e = TickMs * n + 1  BY <1>1, <1>4
  <2> QED  BY <1>2, <2>1, <2>2
<1> QED  BY <1>3, <1>4
-----------------------------------------------------------------------------
(* The invariant: a schedule of the list in which each handler is on time.  *)
OnTime(h, d) ==
  /\ TickMs * waited[h] + d <= Delay[h] + (TickMs - 1) * expired[h]
  /\ h \notin instant => TickMs * waited[h] + d >= Delay[h] - fetched[h] - (TickMs - 1) * expired[h]
Scheduled(due) == Schedule(timers, due) /\ \A h \in Names(timers) : OnTime(h, due[h])
TimersInv ==
  /\ TimeoutsTypeOK
  /\ active = (TcpTimer \in Names(timers)) /\ Handlers \ {TcpTimer} \subseteq Names(timers)
  /\ \E due \in [Handlers -> Int] : Scheduled(due)

LEMMA NothingArmed == ASSUME NEW due \in [Handlers -> Int] PROVE Schedule(<<>>, due) /\ Names(<<>>) = {}
<1>1. Len(<<>>) = 0 /\ <<>> \in Seq(Timer) /\ 1 .. 0 = {}  OBVIOUS
<1> QED  BY <1>1 DEF Schedule, Distinct, Holds, Names

(* The protocols are armed one by one, each for its own delay.              *)
ArmedList(n, list) == Schedule(list, Delay) /\ Names(list) = {Protocols[j] : j \in 1 .. n}
LEMMA OneMoreArmed ==
  ASSUME NEW n \in 0 .. Len(Protocols) - 1, NEW list, ArmedList(n, list)
  PROVE  ArmedList(n + 1, sys_timeout(list, Protocols[n + 1]))
<1> DEFINE h == Protocols[n + 1]
<1>1. /\ Protocols \in Seq(Handlers \ {TcpTimer}) /\ Len(Protocols) \in Nat
      /\ DOMAIN Protocols = 1 .. Len(Protocols)
  BY TimeoutsAssumption
<1>2. n \in Nat /\ n + 1 \in 1 .. Len(Protocols)  BY <1>1
<1>3. h \in Handlers  BY <1>1, <1>2
<1>4. h \notin Names(list)
  <2> SUFFICES ASSUME NEW j \in 1 .. n, Protocols[j] = h PROVE FALSE  BY DEF ArmedList
  <2>1. j \in DOMAIN Protocols /\ n + 1 \in DOMAIN Protocols /\ j # n + 1  BY <1>1, <1>2
  <2> QED  BY <2>1, TimeoutsAssumption
<1>5. [Delay EXCEPT ![h] = Delay[h]] = Delay  BY TimeoutsAssumption
<1>6. {Protocols[j] : j \in 1 .. n + 1} = {Protocols[j] : j \in 1 .. n} \cup {h}
  <2>1. \A j : j \in 1 .. n + 1 <=> (j \in 1 .. n \/ j = n + 1)  BY <1>2
  <2> QED  BY <2>1
<1> HIDE DEF h
<1>7. Schedule(sys_timeout(list, h), Delay) /\ Names(sys_timeout(list, h)) = Names(list) \cup {h}
  <2>1. Schedule(list, Delay)  BY DEF ArmedList
  <2>2. /\ Schedule(sys_timeout(list, h), [Delay EXCEPT ![h] = Delay[h]])
        /\ Names(sys_timeout(list, h)) = Names(list) \cup {h}
    BY <1>3, <1>4, <2>1, ArmedOnce
  <2> QED  BY <1>5, <2>2
<1> QED  BY <1>6, <1>7 DEF ArmedList, h

LEMMA TimersInit == TimeoutsInit => TimersInv
<1> SUFFICES ASSUME TimeoutsInit PROVE TimersInv  OBVIOUS
<1> DEFINE n == Len(Protocols)
           Step(g) == [k \in 0 .. n |-> IF k = 0 THEN <<>> ELSE sys_timeout(g[k - 1], Protocols[k])]
           arm == CHOOSE g : g = Step(g)
           Upto(k, g) == g[0] = <<>> /\ \A j \in 1 .. k : g[j] = sys_timeout(g[j - 1], Protocols[j])
           Lists(k, g) == \A j \in 0 .. k : ArmedList(j, g[j])
           Built(k, g) == DOMAIN g = 0 .. k /\ g = [j \in 0 .. k |-> g[j]] /\ Upto(k, g) /\ Lists(k, g)
           S == {k \in 0 .. n : \E g : Built(k, g)}
<1>1. n \in Nat /\ Protocols \in Seq(Handlers \ {TcpTimer}) /\ DOMAIN Protocols = 1 .. n
  BY TimeoutsAssumption
<1>2. Delay \in [Handlers -> Int] /\ \A h \in Handlers : Delay[h] \in Nat  BY TimeoutsAssumption
<1>3. 0 \in S
  <2> DEFINE g == [j \in 0 .. 0 |-> <<>>]
  <2>1. ArmedList(0, <<>>)
    <3>1. {Protocols[j] : j \in 1 .. 0} = {}  OBVIOUS
    <3> QED  BY <1>2, <3>1, NothingArmed DEF ArmedList
  <2>2. DOMAIN g = 0 .. 0 /\ g = [j \in 0 .. 0 |-> g[j]] /\ g[0] = <<>>  OBVIOUS
  <2>3. Upto(0, g)  BY <2>2
  <2>4. Lists(0, g)
    <3>1. \A j \in 0 .. 0 : j = 0  OBVIOUS
    <3> QED  BY <2>1, <2>2, <3>1
  <2>5. Built(0, g) /\ 0 \in 0 .. n  BY <1>1, <2>2, <2>3, <2>4
  <2> HIDE DEF g, Built
  <2> QED  BY <2>5
<1>4. ASSUME NEW k \in 0 .. n - 1, k \in S PROVE k + 1 \in S
  <2>1. PICK f : Built(k, f)  BY <1>4
  <2> DEFINE g == [j \in 0 .. k + 1 |-> IF j = k + 1 THEN sys_timeout(f[k], Protocols[k + 1]) ELSE f[j]]
  <2>2. k \in Nat /\ k \in 0 .. k /\ k + 1 \in 0 .. n  BY <1>1
  <2>3. DOMAIN g = 0 .. k + 1 /\ g = [j \in 0 .. k + 1 |-> g[j]]  OBVIOUS
  <2>4. \A j \in 0 .. k : g[j] = f[j]
    <3>1. \A j \in 0 .. k : j \in 0 .. k + 1 /\ j # k + 1  BY <2>2
    <3> QED  BY <3>1
  <2>5. g[k + 1] = sys_timeout(f[k], Protocols[k + 1])  BY <2>2
  <2> HIDE DEF g
  <2>6. Upto(k + 1, g)
    <3>1. g[0] = <<>>  BY <2>1, <2>2, <2>4
    <3>2. ASSUME NEW j \in 1 .. k + 1 PROVE g[j] = sys_timeout(g[j - 1], Protocols[j])
      <4>1. j - 1 \in 0 .. k  BY <2>2
      <4>2. g[j - 1] = f[j - 1]  BY <2>4, <4>1
      <4>3. CASE j = k + 1
        <5>1. j - 1 = k  BY <2>2, <4>3
        <5> QED  BY <2>5, <4>2, <4>3, <5>1
      <4>4. CASE j # k + 1
        <5>1. j \in 1 .. k /\ j \in 0 .. k  BY <2>2, <4>4
        <5> QED  BY <2>1, <2>4, <4>2, <5>1
      <4> QED  BY <4>3, <4>4
    <3> QED  BY <3>1, <3>2
  <2>7. Lists(k + 1, g)
    <3>1. ASSUME NEW j \in 0 .. k PROVE ArmedList(j, g[j])  BY <2>1, <2>4
    <3>2. ArmedList(k + 1, g[k + 1])
      <4>1. ArmedList(k, f[k])  BY <2>1, <2>2
      <4> QED  BY <2>5, <4>1, OneMoreArmed
    <3>3. \A j \in 0 .. k + 1 : j \in 0 .. k \/ j = k + 1  BY <2>2
    <3> QED  BY <3>1, <3>2, <3>3
  <2>8. Built(k + 1, g)  BY <2>3, <2>6, <2>7
  <2> HIDE DEF Built
  <2> QED  BY <2>2, <2>8
<1>5. n \in S
  <2> HIDE DEF S
  <2>1. 0 .. n \subseteq S  BY <1>1, <1>3, <1>4, Induction
  <2> QED  BY <1>1, <2>1
<1>6. PICK f : Built(n, f)  BY <1>5
<1>7. f = Step(f)
  <2>1. \A k \in 0 .. n : f[k] = IF k = 0 THEN <<>> ELSE sys_timeout(f[k - 1], Protocols[k])
    <3> SUFFICES ASSUME NEW k \in 0 .. n
                 PROVE  f[k] = IF k = 0 THEN <<>> ELSE sys_timeout(f[k - 1], Protocols[k])
      OBVIOUS
    <3>1. k # 0 => k \in 1 .. n  BY <1>1
    <3> QED  BY <1>6, <3>1
  <2>2. f = [k \in 0 .. n |-> f[k]]  BY <1>6
  <2> QED  BY <2>1, <2>2
<1>8. arm = Step(arm)  BY <1>7
<1> HIDE DEF arm
<1>9. arm[0] = <<>> /\ \A k \in 1 .. n : arm[k] = sys_timeout(arm[k - 1], Protocols[k])
  <2>1. \A k \in 0 .. n : arm[k] = IF k = 0 THEN <<>> ELSE sys_timeout(arm[k - 1], Protocols[k])
    <3>1. \A k \in 0 .. n : Step(arm)[k] = IF k = 0 THEN <<>> ELSE sys_timeout(arm[k - 1], Protocols[k])
      OBVIOUS
    <3> HIDE DEF Step
    <3> QED  BY <1>8, <3>1
  <2>2. 0 \in 0 .. n /\ \A k \in 1 .. n : k \in 0 .. n /\ k # 0  BY <1>1
  <2> QED  BY <2>1, <2>2
<1>10. ArmedList(n, arm[n])
  <2> DEFINE R == {k \in 0 .. n : ArmedList(k, arm[k])}
  <2>1. 0 \in R
    <3>1. ArmedList(0, f[0]) /\ f[0] = <<>>
      <4>1. 0 \in 0 .. n  BY <1>1
      <4> QED  BY <1>6, <4>1
    <3> QED  BY <1>1, <1>9, <3>1
  <2>2. ASSUME NEW k \in 0 .. n - 1, k \in R PROVE k + 1 \in R
    <3>1. k + 1 \in 1 .. n /\ k + 1 \in 0 .. n /\ (k + 1) - 1 = k  BY <1>1
    <3>2. arm[k + 1] = sys_timeout(arm[k], Protocols[k + 1])  BY <1>9, <3>1
    <3>3. ArmedList(k + 1, arm[k + 1])  BY <2>2, <3>2, OneMoreArmed
    <3> QED  BY <3>1, <3>3
  <2> HIDE DEF R
  <2>3. 0 .. n \subseteq R  BY <1>1, <2>1, <2>2, Induction
  <2>4. n \in R  BY <1>1, <2>3
  <2> QED  BY <2>4 DEF R
<1>11. timers = arm[n]  BY DEF TimeoutsInit, arm
<1>12. Names(timers) = Handlers \ {TcpTimer}
  <2>1. Names(timers) = {Protocols[j] : j \in 1 .. n}  BY <1>10, <1>11 DEF ArmedList
  <2>2. \A j \in 1 .. n : Protocols[j] \in Handlers \ {TcpTimer}  BY <1>1
  <2>3. \A h \in Handlers \ {TcpTimer} : \E j \in 1 .. n : Protocols[j] = h
    BY <1>1, TimeoutsAssumption
  <2> QED  BY <2>1, <2>2, <2>3
<1>13. Scheduled(Delay)
  <2>1. ASSUME NEW h \in Names(timers) PROVE OnTime(h, Delay[h])
    <3>1. h \in Handlers /\ Delay[h] \in Nat /\ TickMs \in Nat  BY <1>2, <1>12, TimeoutsAssumption
    <3>2. waited[h] = 0 /\ expired[h] = 0 /\ fetched[h] = 0  BY <3>1 DEF TimeoutsInit
    <3>3. TickMs * 0 = 0 /\ (TickMs - 1) * 0 = 0  BY <3>1
    <3> QED  BY <3>1, <3>2, <3>3 DEF OnTime
  <2> QED  BY <1>10, <1>11, <2>1 DEF ArmedList, Scheduled
<1>14. TimeoutsTypeOK
  <2>1. timers \in Seq([h : Handlers, time : Nat])  BY <1>10, <1>11 DEF ArmedList, Schedule, Timer
  <2>2. active = FALSE /\ instant = {}  BY DEF TimeoutsInit
  <2>3. waited = [h \in Handlers |-> 0]  BY DEF TimeoutsInit
  <2>4. fetched = [h \in Handlers |-> 0] /\ expired = [h \in Handlers |-> 0]  BY DEF TimeoutsInit
  <2>5. [h \in Handlers |-> 0] \in [Handlers -> Nat]  OBVIOUS
  <2>6. active \in BOOLEAN /\ instant \subseteq Handlers  BY <2>2
  <2>7. waited \in [Handlers -> Nat] /\ fetched \in [Handlers -> Nat] /\ expired \in [Handlers -> Nat]
    BY <2>3, <2>4, <2>5
  <2> QED  BY <2>1, <2>6, <2>7 DEF TimeoutsTypeOK
<1>15. active = (TcpTimer \in Names(timers))
  <2>1. active = FALSE  BY DEF TimeoutsInit
  <2>2. ~(TcpTimer \in Names(timers))  BY <1>12
  <2>3. (TcpTimer \in Names(timers)) = FALSE  BY <2>2
  <2> QED  BY <2>1, <2>3
<1> QED  BY <1>2, <1>12, <1>13, <1>14, <1>15 DEF TimersInv
-----------------------------------------------------------------------------
LEMMA CountedIs ==
  ASSUME timers \in Seq(Timer), NEW count \in [Handlers -> Nat], NEW n \in Nat, NEW armed
  PROVE  /\ Counted(count, n, armed) \in [Handlers -> Nat]
         /\ \A h \in Handlers :
              Counted(count, n, armed)[h] = IF h \in Names(timers) \ armed THEN count[h] + n ELSE 0
<1>1. Armed = Names(timers)
  <2>1. DOMAIN timers = 1 .. Len(timers)  OBVIOUS
  <2> QED  BY <2>1 DEF Armed, Names
<1>2. \A h \in Handlers : count[h] + n \in Nat  OBVIOUS
<1> QED  BY <1>1, <1>2 DEF Counted

LEMMA TrackIs ==
  ASSUME TimersInv, NEW n \in Nat, NEW messages \in Nat, NEW timeouts \in Nat, NEW armed,
         Track(n, messages, timeouts, armed), NEW h \in Handlers
  PROVE  IF h \in Names(timers) \ armed
         THEN /\ waited'[h] = waited[h] + n /\ fetched'[h] = fetched[h] + messages
              /\ expired'[h] = expired[h] + timeouts
         ELSE waited'[h] = 0 /\ fetched'[h] = 0 /\ expired'[h] = 0
<1>1. timers \in Seq(Timer)  BY DEF TimersInv, TimeoutsTypeOK, Timer
<1>2. waited'[h] = IF h \in Names(timers) \ armed THEN waited[h] + n ELSE 0
  <2>1. waited \in [Handlers -> Nat] /\ waited' = Counted(waited, n, armed)
    BY DEF TimersInv, TimeoutsTypeOK, Track
  <2> QED  BY <1>1, <2>1, CountedIs
<1>3. fetched'[h] = IF h \in Names(timers) \ armed THEN fetched[h] + messages ELSE 0
  <2>1. fetched \in [Handlers -> Nat] /\ fetched' = Counted(fetched, messages, armed)
    BY DEF TimersInv, TimeoutsTypeOK, Track
  <2> QED  BY <1>1, <2>1, CountedIs
<1>4. expired'[h] = IF h \in Names(timers) \ armed THEN expired[h] + timeouts ELSE 0
  <2>1. expired \in [Handlers -> Nat] /\ expired' = Counted(expired, timeouts, armed)
    BY DEF TimersInv, TimeoutsTypeOK, Track
  <2> QED  BY <1>1, <2>1, CountedIs
<1> QED  BY <1>2, <1>3, <1>4

(* What a step must leave behind; the types come along.                     *)
LEMMA KeepsTimers ==
  ASSUME TimersInv, NEW next, Schedule(timers', next),
         NEW n \in Nat, NEW messages \in Nat, NEW timeouts \in Nat, NEW armed,
         Track(n, messages, timeouts, armed), instant' \subseteq Handlers,
         active' = (TcpTimer \in Names(timers')), Handlers \ {TcpTimer} \subseteq Names(timers'),
         \A h \in Names(timers') : OnTime(h, next[h])'
  PROVE  TimersInv'
<1>1. timers \in Seq(Timer)  BY DEF TimersInv, TimeoutsTypeOK, Timer
<1>2. /\ waited \in [Handlers -> Nat] /\ fetched \in [Handlers -> Nat]
      /\ expired \in [Handlers -> Nat]
  BY DEF TimersInv, TimeoutsTypeOK
<1>3. /\ waited' \in [Handlers -> Nat] /\ fetched' \in [Handlers -> Nat]
      /\ expired' \in [Handlers -> Nat]
  BY <1>1, <1>2, CountedIs DEF Track
<1>4. timers' \in Seq([h : Handlers, time : Nat])  BY DEF Schedule, Timer
<1>5. active' \in BOOLEAN  OBVIOUS
<1>6. TimeoutsTypeOK'  BY <1>3, <1>4, <1>5 DEF TimeoutsTypeOK
<1>7. Scheduled(next)'  BY DEF Scheduled
<1>8. next \in [Handlers -> Int]  BY DEF Schedule
<1> QED  BY <1>6, <1>7, <1>8 DEF TimersInv

LEMMA NamesAre == ASSUME NEW list \in Seq(Timer) PROVE Names(list) \subseteq Handlers
  BY Timers DEF Names

(* A timer armed by a step is given its delay and has waited for nothing.   *)
LEMMA NewOnTime ==
  ASSUME TimersInv, NEW n \in Nat, NEW messages \in Nat, NEW timeouts \in Nat, NEW armed,
         Track(n, messages, timeouts, armed), NEW h \in Handlers, h \notin Names(timers) \ armed
  PROVE  OnTime(h, Delay[h])'
<1>2. waited'[h] = 0 /\ fetched'[h] = 0 /\ expired'[h] = 0  BY TrackIs
<1>3. TickMs \in Nat /\ Delay[h] \in Nat  BY TimeoutsAssumption
<1>4. TickMs * 0 = 0 /\ (TickMs - 1) * 0 = 0  BY <1>3
<1> QED  BY <1>2, <1>3, <1>4 DEF OnTime

LEMMA ExpiresOnTime == ASSUME TimersInv, TimerExpires PROVE TimersInv'
<1> DEFINE first == Head(timers).h
           ms == Head(timers).time
<1>1. PICK due \in [Handlers -> Int] : Scheduled(due)  BY DEF TimersInv
<1>2. /\ Schedule(timers, due) /\ timers # <<>> /\ first \in Handlers /\ ms \in Nat
      /\ first \in Names(timers)
  BY <1>1, FirstDue DEF Scheduled, TimerExpires
<1>3. PICK again \in (IF first = TcpTimer THEN BOOLEAN ELSE {TRUE}) :
        /\ timers' = IF again THEN sys_timeout(Tail(timers), first) ELSE Tail(timers)
        /\ active' = IF first = TcpTimer THEN again ELSE active
        /\ Track(Limit(ms), 0, 1, {first})
        /\ instant' = instant \ {first}
  BY DEF TimerExpires
<1> HIDE DEF first, ms
<1>4. PICK less : less = [h \in Handlers |-> due[h] - ms]  OBVIOUS
<1>5. Schedule(Tail(timers), less) /\ Names(Tail(timers)) = Names(timers) \ {first}
  BY <1>2, <1>4, FirstGone DEF first, ms
<1>6. Limit(ms) \in Nat /\ 0 \in Nat /\ 1 \in Nat  BY <1>2, LimitFacts
<1>7. timers \in Seq(Timer) /\ Names(timers) \subseteq Handlers  BY <1>2, NamesAre DEF Schedule
<1>8. PICK armed : armed = {first}  OBVIOUS
<1>9. Track(Limit(ms), 0, 1, armed)  BY <1>3, <1>8
<1>10. ASSUME NEW h \in Names(timers) \ {first} PROVE OnTime(h, less[h])'
  <2>1. /\ h \in Handlers /\ waited[h] \in Nat /\ fetched[h] \in Nat /\ expired[h] \in Nat
        /\ Delay[h] \in Nat /\ due[h] \in Int
    BY <1>1, <1>7, TimeoutsAssumption DEF TimersInv, TimeoutsTypeOK
  <2>2. /\ waited'[h] = waited[h] + Limit(ms) /\ fetched'[h] = fetched[h] + 0
        /\ expired'[h] = expired[h] + 1
    <3>1. h \in Names(timers) \ armed  BY <1>8
    <3> QED  BY <1>6, <1>9, <2>1, <3>1, TrackIs
  <2>5. less[h] = due[h] - ms /\ (h \in instant' <=> h \in instant)  BY <1>3, <1>4, <2>1
  <2>6. OnTime(h, due[h])  BY <1>1 DEF Scheduled
  <2>7. TickMs * Limit(ms) <= ms + (TickMs - 1) /\ TickMs * Limit(ms) >= ms - (TickMs - 1)
    BY <1>2, LimitFacts
  <2>8. /\ TickMs * waited[h] + due[h] <= Delay[h] + (TickMs - 1) * expired[h] =>
             TickMs * (waited[h] + Limit(ms)) + (due[h] - ms) <= Delay[h] + (TickMs - 1) * (expired[h] + 1)
        /\ TickMs * waited[h] + due[h] >= Delay[h] - fetched[h] - (TickMs - 1) * expired[h] =>
             TickMs * (waited[h] + Limit(ms)) + (due[h] - ms)
               >= Delay[h] - fetched[h] - (TickMs - 1) * (expired[h] + 1)
    BY <1>2, <1>6, <2>1, <2>7, OneRounding
  <2>9. fetched'[h] = fetched[h]  BY <2>1, <2>2
  <2> QED  BY <2>2, <2>5, <2>6, <2>8, <2>9 DEF OnTime
<1>11. instant' \subseteq Handlers  BY <1>3 DEF TimersInv, TimeoutsTypeOK
<1>12. active = (TcpTimer \in Names(timers)) /\ Handlers \ {TcpTimer} \subseteq Names(timers)
  BY DEF TimersInv
<1>13. again \in BOOLEAN /\ (first # TcpTimer => again)  BY <1>3
<1>14. CASE again
  <2>1. PICK next : next = [less EXCEPT ![first] = Delay[first]]  OBVIOUS
  <2>2. first \notin Names(Tail(timers)) /\ timers' = sys_timeout(Tail(timers), first)
    BY <1>3, <1>5, <1>14
  <2>3. /\ Schedule(sys_timeout(Tail(timers), first), [less EXCEPT ![first] = Delay[first]])
        /\ Names(sys_timeout(Tail(timers), first)) = Names(Tail(timers)) \cup {first}
    BY <1>2, <1>5, <2>2, ArmedOnce
  <2>4. Schedule(timers', next) /\ Names(timers') = Names(timers)
    BY <1>2, <1>5, <2>1, <2>2, <2>3
  <2>5. active' = (TcpTimer \in Names(timers'))  BY <1>2, <1>3, <1>12, <1>14, <2>4
  <2>6. ASSUME NEW h \in Names(timers') PROVE OnTime(h, next[h])'
    <3>1. CASE h = first
      <4>1. next[h] = Delay[h]  BY <1>2, <1>4, <2>1, <3>1
      <4>2. OnTime(h, Delay[h])'
        <5>1. h \in Handlers /\ h \notin Names(timers) \ {first}  BY <1>2, <3>1
        <5> QED  BY <1>3, <1>6, <5>1, NewOnTime
      <4> QED  BY <4>1, <4>2
    <3>2. CASE h # first
      <4>1. next[h] = less[h] /\ h \in Names(timers) \ {first}  BY <1>4, <1>7, <2>1, <2>4, <3>2
      <4>2. OnTime(h, less[h])'  BY <1>10, <4>1
      <4> QED  BY <4>1, <4>2
    <3> QED  BY <3>1, <3>2
  <2>7. Handlers \ {TcpTimer} \subseteq Names(timers')  BY <1>12, <2>4
  <2> QED  BY <1>3, <1>6, <1>11, <2>4, <2>5, <2>6, <2>7, KeepsTimers
<1>15. CASE ~again
  <2>1. first = TcpTimer /\ timers' = Tail(timers)  BY <1>3, <1>13, <1>15
  <2>2. Schedule(timers', less) /\ Names(timers') = Names(timers) \ {first}  BY <1>5, <2>1
  <2>3. active' = (TcpTimer \in Names(timers'))  BY <1>3, <1>15, <2>1, <2>2
  <2>4. \A h \in Names(timers') : OnTime(h, less[h])'  BY <1>10, <2>2
  <2>5. Handlers \ {TcpTimer} \subseteq Names(timers')  BY <1>12, <2>1, <2>2
  <2> QED  BY <1>3, <1>6, <1>11, <2>2, <2>3, <2>4, <2>5, KeepsTimers
<1> QED  BY <1>13, <1>14, <1>15

LEMMA MessageOnTime == ASSUME TimersInv, MessageFetched PROVE TimersInv'
<1> DEFINE ms == Head(timers).time
<1>1. PICK due \in [Handlers -> Int] : Scheduled(due)  BY DEF TimersInv
<1>2. active = (TcpTimer \in Names(timers)) /\ Handlers \ {TcpTimer} \subseteq Names(timers)
  BY DEF TimersInv
<1>3. timers # <<>>
  <2>1. Protocols[1] \in Handlers \ {TcpTimer}  BY TimeoutsAssumption
  <2> QED  BY <1>2, <2>1, NothingArmed, TimeoutsAssumption
<1>4. Schedule(timers, due) /\ ms \in Nat  BY <1>1, <1>3, FirstDue DEF Scheduled
<1>5. Limit(ms) \in Nat  BY <1>4, LimitFacts
<1>6. PICK n \in 0 .. Limit(ms) - 1, arm \in BOOLEAN :
        /\ tcp_timer_needed(Elapse(TimeNeeded(n)), arm)
        /\ Track(n, 1, 0, IF arm THEN {TcpTimer} ELSE {})
        /\ instant' = IF n = 0 THEN Armed ELSE instant
  BY DEF MessageFetched
<1> HIDE DEF ms
<1>7. n \in Nat /\ n < Limit(ms) /\ 1 \in Nat /\ 0 \in Nat  BY <1>5, <1>6
<1>8. TimeNeeded(n) \in Nat /\ (n >= 1 => TimeNeeded(n) = n * TickMs + 1)
  BY <1>7, TimeoutsAssumption DEF TimeNeeded
<1>9. PICK list : list = Elapse(TimeNeeded(n))  OBVIOUS
<1>10. PICK e : e = Passed(timers, TimeNeeded(n))  OBVIOUS
<1>11. PICK less : less = [h \in Handlers |-> due[h] - e]  OBVIOUS
<1>12. /\ Schedule(list, less) /\ Names(list) = Names(timers) /\ e \in Nat
       /\ TimeNeeded(n) <= ms => e = TimeNeeded(n)
  BY <1>3, <1>4, <1>8, <1>9, <1>10, <1>11, TimePasses DEF ms
<1>13. n >= 1 => e = n * TickMs + 1
  <2>1. n >= 1 => n * TickMs + 1 <= ms  BY <1>4, <1>7, LimitFacts
  <2> QED  BY <1>8, <1>12, <2>1
<1>14. PICK armed : armed = IF arm THEN {TcpTimer} ELSE {}  OBVIOUS
<1>15. Track(n, 1, 0, armed)  BY <1>6, <1>14
<1>16. timers \in Seq(Timer) /\ Names(timers) \subseteq Handlers  BY <1>4, NamesAre DEF Schedule
<1>17. Armed = Names(timers)
  <2>1. DOMAIN timers = 1 .. Len(timers)  BY <1>16
  <2> QED  BY <2>1 DEF Armed, Names
<1>18. ASSUME NEW h \in Names(timers) \ armed PROVE OnTime(h, less[h])'
  <2>1. /\ h \in Handlers /\ waited[h] \in Nat /\ fetched[h] \in Nat /\ expired[h] \in Nat
        /\ Delay[h] \in Nat /\ due[h] \in Int
    BY <1>1, <1>16, TimeoutsAssumption DEF TimersInv, TimeoutsTypeOK
  <2>2. waited'[h] = waited[h] + n /\ fetched'[h] = fetched[h] + 1 /\ expired'[h] = expired[h] + 0
    BY <1>7, <1>15, <2>1, TrackIs
  <2>3. expired'[h] = expired[h]  BY <2>1, <2>2
  <2>4. less[h] = due[h] - e  BY <1>11, <2>1
  <2>5. OnTime(h, due[h])  BY <1>1 DEF Scheduled
  <2>6. h \notin instant' => n >= 1 /\ h \notin instant  BY <1>6, <1>7, <1>17
  <2>7. /\ TickMs * waited[h] + due[h] <= Delay[h] + (TickMs - 1) * expired[h] =>
             TickMs * (waited[h] + n) + (due[h] - e) <= Delay[h] + (TickMs - 1) * expired[h]
        /\ n >= 1 /\ TickMs * waited[h] + due[h] >= Delay[h] - fetched[h] - (TickMs - 1) * expired[h] =>
             TickMs * (waited[h] + n) + (due[h] - e)
               >= Delay[h] - (fetched[h] + 1) - (TickMs - 1) * expired[h]
    BY <1>7, <1>12, <1>13, <2>1, OneMessage
  <2> QED  BY <2>2, <2>3, <2>4, <2>5, <2>6, <2>7 DEF OnTime
<1>19. instant' \subseteq Handlers  BY <1>6, <1>16, <1>17 DEF TimersInv, TimeoutsTypeOK
<1>20. CASE arm
  <2>1. /\ TcpTimer \in Handlers /\ TcpTimer \notin Names(list) /\ armed = {TcpTimer}
        /\ timers' = sys_timeout(list, TcpTimer)
    BY <1>2, <1>6, <1>9, <1>12, <1>14, <1>20, TimeoutsAssumption DEF tcp_timer_needed
  <2>2. PICK next : next = [less EXCEPT ![TcpTimer] = Delay[TcpTimer]]  OBVIOUS
  <2>3. Schedule(timers', next) /\ Names(timers') = Names(timers) \cup {TcpTimer}
    BY <1>12, <2>1, <2>2, ArmedOnce
  <2>4. active' = (TcpTimer \in Names(timers'))
    <3>1. active' = TRUE  BY <1>6, <1>20 DEF tcp_timer_needed
    <3> QED  BY <2>3, <3>1
  <2>5. ASSUME NEW h \in Names(timers') PROVE OnTime(h, next[h])'
    <3>1. CASE h = TcpTimer
      <4>1. next[h] = Delay[h]  BY <1>11, <2>1, <2>2, <3>1
      <4>2. OnTime(h, Delay[h])'
        <5>1. h \in Handlers /\ h \notin Names(timers) \ armed  BY <2>1, <3>1
        <5> QED  BY <1>7, <1>15, <5>1, NewOnTime
      <4> QED  BY <4>1, <4>2
    <3>2. CASE h # TcpTimer
      <4>1. next[h] = less[h] /\ h \in Names(timers) \ armed
        BY <1>11, <1>16, <2>1, <2>2, <2>3, <3>2
      <4>2. OnTime(h, less[h])'  BY <1>18, <4>1
      <4> QED  BY <4>1, <4>2
    <3> QED  BY <3>1, <3>2
  <2>6. Handlers \ {TcpTimer} \subseteq Names(timers')  BY <1>2, <2>3
  <2> QED  BY <1>7, <1>15, <1>19, <2>3, <2>4, <2>5, <2>6, KeepsTimers
<1>21. CASE ~arm
  <2>1. armed = {} /\ timers' = list  BY <1>6, <1>9, <1>14, <1>21 DEF tcp_timer_needed
  <2>2. Schedule(timers', less) /\ Names(timers') = Names(timers)  BY <1>12, <2>1
  <2>3. active' = active
    <3>1. active \in BOOLEAN  BY DEF TimersInv, TimeoutsTypeOK
    <3>2. active' = (active \/ arm)  BY <1>6 DEF tcp_timer_needed
    <3> QED  BY <1>21, <3>1, <3>2
  <2>4. active' = (TcpTimer \in Names(timers'))  BY <1>2, <2>2, <2>3
  <2>5. \A h \in Names(timers') : OnTime(h, less[h])'  BY <1>18, <2>1, <2>2
  <2>6. Handlers \ {TcpTimer} \subseteq Names(timers')  BY <1>2, <2>2
  <2> QED  BY <1>7, <1>15, <1>19, <2>2, <2>4, <2>5, <2>6, KeepsTimers
<1> QED  BY <1>20, <1>21

LEMMA TimersNext == TimersInv /\ [TimeoutsNext]_timeoutVars => TimersInv'
<1> SUFFICES ASSUME TimersInv, [TimeoutsNext]_timeoutVars PROVE TimersInv'  OBVIOUS
<1>1. CASE TimerExpires  BY <1>1, ExpiresOnTime
<1>2. CASE MessageFetched  BY <1>2, MessageOnTime
<1>3. CASE UNCHANGED timeoutVars
  BY <1>3 DEF timeoutVars, tracks, TimersInv, TimeoutsTypeOK, Scheduled, OnTime
<1> QED  BY <1>1, <1>2, <1>3 DEF TimeoutsNext

(* What the run checks follows.                                             *)
LEMMA TimersInvGives == TimersInv => TimersOnTime
<1> SUFFICES ASSUME TimersInv PROVE TimersOnTime  OBVIOUS
<1>1. PICK due \in [Handlers -> Int] : Scheduled(due)  BY DEF TimersInv
<1>2. timers \in Seq(Timer) /\ DOMAIN timers = 1 .. Len(timers)
  BY DEF TimersInv, TimeoutsTypeOK, Timer
<1>3. Armed = Names(timers)  BY <1>2 DEF Armed, Names
<1>4. OncePending
  <2>1. \A j, k \in DOMAIN timers : timers[j].h = timers[k].h => j = k
    BY <1>1, <1>2 DEF Scheduled, Schedule, Distinct
  <2>2. active = (TcpTimer \in Armed) /\ Handlers \ {TcpTimer} \subseteq Armed
    BY <1>3 DEF TimersInv
  <2> QED  BY <2>1, <2>2 DEF OncePending
<1>5. ASSUME NEW k \in DOMAIN timers
      PROVE  ~Late(k) /\ (Early(k) => timers[k].h \in instant)
  <2>1. PICK h : h = timers[k].h  OBVIOUS
  <2>2. h \in Names(timers) /\ h \in Handlers  BY <1>2, <2>1, NamesAre DEF Names
  <2>3. OnTime(h, due[h]) /\ After(timers, k) = due[h]
    BY <1>1, <1>2, <2>1, <2>2 DEF Scheduled, Schedule, Holds
  <2>4. Total(k) = TickMs * waited[h] + due[h]  BY <2>1, <2>3 DEF Total
  <2>5. /\ waited[h] \in Nat /\ fetched[h] \in Nat /\ expired[h] \in Nat
        /\ Delay[h] \in Nat /\ due[h] \in Int /\ TickMs \in Nat /\ TickMs - 1 \in Nat
    BY <2>2, TimeoutsAssumption DEF TimersInv, TimeoutsTypeOK
  <2>6. PICK a \in Int, b \in Int : a = TickMs * waited[h] /\ b = (TickMs - 1) * expired[h]  BY <2>5
  <2>7. /\ Late(k) = (Total(k) > Delay[h] + b) /\ Total(k) = a + due[h]
        /\ Early(k) = (Total(k) < Delay[h] - fetched[h] - b)
    BY <2>1, <2>4, <2>6 DEF Late, Early
  <2>8. /\ a + due[h] <= Delay[h] + b
        /\ h \notin instant => a + due[h] >= Delay[h] - fetched[h] - b
    BY <2>3, <2>6 DEF OnTime
  <2>9. ~(a + due[h] > Delay[h] + b)  BY <2>5, <2>8
  <2>10. h \notin instant => ~(a + due[h] < Delay[h] - fetched[h] - b)  BY <2>5, <2>8
  <2> QED  BY <2>1, <2>7, <2>9, <2>10
<1> QED  BY <1>4, <1>5 DEF TimersOnTime

(* However timers are armed, expire and are cut short by messages, each that *)
(* is armed is in the list once, none is lost, and each is called when it    *)
(* should be up to the rounding of the timers before it and 1 ms for each    *)
(* message (timers.c:104-107, 280-307, 466-475).                             *)
THEOREM TimersStayOnTime == TimeoutsSpec => []TimersOnTime
<1>1. TimersInv => TimersOnTime  BY TimersInvGives
<1> QED  BY <1>1, TimersInit, TimersNext, PTL DEF TimeoutsSpec

(* The list holds one of the handlers and a time of 0 or more in each entry, *)
(* whatever is taken off it: sys_timeout gives the timer behind a new one    *)
(* what is left of its time (timers.c:286-302).                              *)
THEOREM TimersKeepTypes == TimeoutsSpec => []TimeoutsTypeOK
<1>1. TimersInv => TimeoutsTypeOK  BY DEF TimersInv
<1> QED  BY <1>1, TimersInit, TimersNext, PTL DEF TimeoutsSpec
=============================================================================
