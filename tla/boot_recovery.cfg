CONSTANT MaxBoots = 6
SPECIFICATION Spec
INVARIANT RecoveryOffered
CHECK_DEADLOCK FALSE
