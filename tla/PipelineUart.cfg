SPECIFICATION Spec
CONSTANTS
  usart2 = usart2
  tcp_server = tcp_server
  wifi = wifi
  can = can
  Sources <- UartTcp
  Interrupts <- Uart
  Prio <- MCPrio
  Inputs <- Driving
  MaxCount = 40
  MaxMsgs = 2
  MaxLate = 1
  MaxLoss = 1
INVARIANTS SkewBounded EnabledFirst TargetsCoherent ValuesCurrent
CHECK_DEADLOCK FALSE
