\* The link drops continuation packets only.  Hosts stop after MaxMessages.
SPECIFICATION Spec
CONSTANTS
  SeqLimit = 2
  InitData = 1
  Cids = {c1, c2}
  Messages <- MCMessages
  Losable = {"cont"}
  MaxMessages = 2
INVARIANTS
  ExactDelivery
PROPERTIES
  ImplementsAtomicLink
CHECK_DEADLOCK FALSE
