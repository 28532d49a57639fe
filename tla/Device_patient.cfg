\* Two hosts that wait for their answers, and a queue of two events that overflows.
SPECIFICATION Spec
CONSTANTS
  SeqLimit = 4
  InitData = 2
  byteA = 3
  byteB = 5
  InitCommand = 4
  PingCommand = 5
  CborCommand = 6
  CancelCommand = 7
  GetInfo = 1
  Selection = 2
  OK = 0
  OperationDenied = 1
  Info <- MCInfo
  BroadcastCid = 0
  Cids = {0, 1, 2}
  Hosts = {1, 2}
  Impatient = {}
  Requests <- PatientRequests
  MaxRequests <- TwoFromFirst
  QueueSize = 2
INVARIANTS
  TypeOK
  AnswersInOrder
  PatientPaired
CHECK_DEADLOCK FALSE
