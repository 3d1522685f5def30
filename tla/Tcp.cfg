SPECIFICATION LiveSpec
CONSTANTS
  n1 = n1
  n2 = n2
  n3 = n3
  Netconns <- Pool
  Listener = n1
  NoConn = NoConn
  Netbufs = 2
  RecvMbox = 2
  MaxCmds = 2
  MaxFeedback = 1
INVARIANTS TypeOK PoolsAccounted LossMeansStuck HandledInOrder
PROPERTIES LowerTasksRun ClosedIsLeft
CHECK_DEADLOCK FALSE
