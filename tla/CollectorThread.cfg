SPECIFICATION Spec
CONSTANT History = 3
INVARIANTS LockedReadExclusive HarmConfined HistoryBounded
PROPERTY JoinReturns
\* the destructor can deadlock: DestructionIsSafe
CHECK_DEADLOCK FALSE
