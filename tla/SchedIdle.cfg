SPECIFICATION Spec
CONSTANTS
  usart1 = usart1
  usart2 = usart2
  eth = eth
  Idle = 63
  Tasks <- Three
  Receivers <- TcpIp
  Posters <- Can
  Handlers <- Usart2
  Announced <- Nobody
  Delaying <- Usart2
  Level <- MCLevel
  QSize = 1
  MaxDly = 2
  MaxPosts = 0
INVARIANTS IdleAlwaysReady
CHECK_DEADLOCK FALSE
