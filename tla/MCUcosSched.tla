----------------------------- MODULE MCUcosSched -----------------------------
(* The lwIP core thread (priority 5), can_thread (8), the idle task (63),    *)
(* and the handlers of USART1, USART2 and ETH with their NVIC priorities.    *)
EXTENDS UcosSched, TLC

CONSTANTS usart1, usart2, eth

Three == {5, 8, 63}
Two == {8, 63}
TcpIp == {5}
Nobody == {}
Net == {8, eth}
Can == {8}
Usart1 == {usart1}
Usart2 == {usart2}
Usart1Eth == {usart1, eth}
LevelOf == usart1 :> 3 @@ usart2 :> 2 @@ eth :> 0
MCLevel == [h \in Handlers |-> LevelOf[h]]
=============================================================================
