--------------------------- MODULE MCRobotPipeline ---------------------------
(* The sources of commands: the USART2 interrupt, the TCP server task        *)
(* (priority 6) and the WiFi task (10), with can_thread at 8.                *)
EXTENDS RobotPipeline, TLC

CONSTANTS usart2, tcp_server, wifi

PrioOf == usart2 :> 0 @@ tcp_server :> 6 @@ can :> 8 @@ wifi :> 10
MCPrio == [a \in Sources \cup {can} |-> PrioOf[a]]

UartTcp == {usart2, tcp_server}
UartWifi == {usart2, wifi}
Uart == {usart2}

Msg(c, a, l) == [cmd |-> c, auto |-> a, len4 |-> l]
Driving == {Msg("angle", FALSE, TRUE), Msg("mode", TRUE, TRUE), Msg("motion", FALSE, TRUE)}
EveryKind == Driving \cup {Msg("query", FALSE, FALSE), Msg("angle", FALSE, FALSE)}
=============================================================================
