SPECIFICATION Spec
CONSTANTS
  usart1 = usart1
  usart2 = usart2
  eth = eth
  Idle = 63
  Tasks <- Three
  Receivers <- TcpIp
  Posters <- Can
  Handlers <- Usart1
  Announced <- Usart1
  Delaying <- Usart1
  Level <- MCLevel
  QSize = 1
  MaxDly = 2
  MaxPosts = 0
INVARIANTS DelayUsNotPreempted
CHECK_DEADLOCK FALSE
