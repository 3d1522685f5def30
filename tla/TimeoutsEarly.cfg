SPECIFICATION PartsSpec
CONSTANTS
  m1 = m1
  m2 = m2
  Blank = Blank
  Msgs <- MCMsgs
  MaxCount = 3
  Tasks = {5, 7, 10}
  Blocks = 4
  BlockSize = 2
  Sizes = {0, 1, 3}
  MaxRegions = 2
  Handlers = {"tcp", "ip", "arp"}
  TcpTimer = "tcp"
  Protocols <- MCProtocols
  Delay <- MCDelay
  TickMs = 5
  RecvLen = 3
  CheckAt = 1
  Polls = 2
  MaxEvents = 2
  OS_MAX_TASKS = 10
  OS_MAX_EVENTS = 10
  OS_MAX_QS = 5
  Linkage <- MCLinkage
  Words <- MCWords
INVARIANT NeverEarly
