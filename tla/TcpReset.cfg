SPECIFICATION LiveSpec
CONSTANTS
  n1 = n1
  n2 = n2
  n3 = n3
  Netconns <- Pool
  Listener = n1
  NoConn = NoConn
  Netbufs = 2
  RecvMbox = 20
  MaxCmds = 1
  MaxFeedback = 0
PROPERTIES ServerWaits
CHECK_DEADLOCK FALSE
