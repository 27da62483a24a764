SPECIFICATION Spec
CONSTANT
  MaxBlocks = 3
CHECK_DEADLOCK FALSE
INVARIANTS
  StreamMatchesFull
  MessageProtocol
PROPERTY
  ChatProtocol
