SPECIFICATION Spec
CONSTANT History = 3
INVARIANT DestructionIsSafe
CHECK_DEADLOCK FALSE
