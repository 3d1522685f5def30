SPECIFICATION LiveSpec
CONSTANTS
  usart1 = usart1
  usart2 = usart2
  eth = eth
  Idle = 63
  Tasks <- Three
  Receivers <- TcpIp
  Posters <- Net
  Handlers <- Usart1Eth
  Announced <- Usart1
  Delaying <- Usart1
  Level <- MCLevel
  QSize = 1
  MaxDly = 2
  MaxPosts = 2
INVARIANTS TypeOK IdleAlwaysReady HighestPriorityRuns MailConserved WakesForOneReason
PROPERTIES  DelaysEnd MailIsTaken
CHECK_DEADLOCK FALSE
