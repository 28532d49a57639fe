\* Two hosts, one of which gives up on requests, with one channel besides the
\* broadcast channel, and a queue of two events that overflows.
SPECIFICATION Spec
CONSTANTS
  SeqLimit = 4
  InitData = 2
  byteA = 3
  byteB = 5
  InitCommand = 4
  PingCommand = 5
  CborCommand = 6
  CancelCommand = 7
  GetInfo = 1
  Selection = 2
  OK = 0
  OperationDenied = 1
  Info <- MCInfo
  BroadcastCid = 0
  Cids = {0, 1}
  Hosts = {1, 2}
  Impatient = {1}
  Requests <- CrowdedRequests
  MaxRequests <- TwoFromFirst
  QueueSize = 2
INVARIANTS
  PatientPaired
  LateAnswersOwn
  SharedChannelDeclared
CHECK_DEADLOCK FALSE
