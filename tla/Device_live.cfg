\* Two hosts that wait for their answers, and a queue that holds all they have in
\* flight: two packets each and an event of the kernel.
SPECIFICATION FairSpec
CONSTANTS
  SeqLimit = 4
  InitData = 2
  byteA = 3
  byteB = 5
  InitCommand = 4
  PingCommand = 5
  CborCommand = 6
  CancelCommand = 7
  GetInfo = 1
  Selection = 2
  OK = 0
  OperationDenied = 1
  Info <- MCInfo
  BroadcastCid = 0
  Cids = {0, 1, 2}
  Hosts = {1, 2}
  Impatient = {}
  Requests <- LiveRequests
  MaxRequests <- OneEach
  QueueSize = 5
PROPERTIES
  PatientAnswered
CHECK_DEADLOCK FALSE
