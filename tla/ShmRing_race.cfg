SPECIFICATION Spec
CONSTANTS
  RingSize = 4
  MsgSizes = {2}
  NumMsgs = 6
INVARIANT RingIntact
CHECK_DEADLOCK FALSE
