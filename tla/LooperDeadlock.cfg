SPECIFICATION Spec
PROPERTY CloseReturns
CHECK_DEADLOCK FALSE
