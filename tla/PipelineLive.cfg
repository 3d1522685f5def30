SPECIFICATION Spec
CONSTANTS
  usart2 = usart2
  tcp_server = tcp_server
  wifi = wifi
  can = can
  Sources <- UartWifi
  Interrupts <- Uart
  Prio <- MCPrio
  Inputs <- EveryKind
  MaxCount = 9
  MaxMsgs = 2
  MaxLate = 0
  MaxLoss = 1
INVARIANTS TypeOK
PROPERTIES NoRollback  
CHECK_DEADLOCK FALSE
