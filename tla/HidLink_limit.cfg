\* One host that cuts messages around the length limit with to_packets.
SPECIFICATION Spec
CONSTANTS
  SeqLimit = 2
  InitData = 1
  Cids = {c1}
  Messages <- LossyMessages
  Losable = {}
  MaxMessages = 1
INVARIANTS
  SequenceInRange
CHECK_DEADLOCK FALSE
