SPECIFICATION Spec
INVARIANTS PersistOnce FoundLooperStops JoinedBeforeClose
PROPERTY CloseReturnsOrDeadlocks
CHECK_DEADLOCK FALSE
