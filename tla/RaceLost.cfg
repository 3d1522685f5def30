SPECIFICATION Spec
CONSTANTS
  usart2 = usart2
  tcp_client = tcp_client
  can = can
  wifi = wifi
  Blank = Blank
  Callers <- AllCallers
  Setups <- CommandByUart
  Prio <- MCPrio
  Threshold <- MCThreshold
  MaxCount = 2
  Calls <- Twice
INVARIANTS NothingLost
CHECK_DEADLOCK FALSE
