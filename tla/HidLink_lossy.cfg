\* The link drops any packet, and the host also sends messages that are too long
\* for the sequence numbers.  It stops after MaxMessages.
SPECIFICATION Spec
CONSTANTS
  SeqLimit = 2
  InitData = 1
  Cids = {c1}
  Messages <- LossyMessages
  Losable = {"init", "cont"}
  MaxMessages = 4
INVARIANTS
  TypeOK
  ReassemblyBounded
  EchoFits
  DeclaredLength
CHECK_DEADLOCK FALSE
