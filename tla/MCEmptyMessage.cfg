SPECIFICATION Spec
CONSTANT MaxBlocks = 1
INVARIANT MessageStartsFirst
CHECK_DEADLOCK FALSE
