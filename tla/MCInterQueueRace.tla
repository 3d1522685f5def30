-------------------------- MODULE MCInterQueueRace --------------------------
(* Callers of the two queues: the USART2 interrupt, the TCP client (priority *)
(* 7), can_thread (8) and the WiFi task (10).                                *)
EXTENDS InterQueueRace, TLC

CONSTANTS usart2, tcp_client, can, wifi

AllCallers == {usart2, tcp_client, can, wifi}
MCPrio == usart2 :> 0 @@ tcp_client :> 7 @@ can :> 8 @@ wifi :> 10

(* can_thread and the TCP client take whatever is there; the WiFi task only  *)
(* when more than 10 of 40 messages wait, here more than 1 of 2.             *)
MCThreshold == [a \in AllCallers |-> IF a = wifi THEN 1 ELSE 0]

Twice == [a \in AllCallers |-> 2]
TwiceOrThrice == [a \in AllCallers |-> IF a = usart2 THEN 3 ELSE 2]

(* DCQ, filled by a handler and a task, emptied by can_thread; FMQ, filled   *)
(* by the handler, emptied by two tasks.                                     *)
Command == [producers |-> {usart2, wifi}, consumers |-> {can}]
Feedback == [producers |-> {usart2}, consumers |-> {tcp_client, wifi}]
BothQueues == {Command, Feedback}
CommandByUart == {[producers |-> {usart2}, consumers |-> {can}]}
=============================================================================
