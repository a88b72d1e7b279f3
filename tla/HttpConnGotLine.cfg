SPECIFICATION Spec
CONSTANT READ_BUFFER_SIZE = 5
INVARIANT GotLine
CHECK_DEADLOCK FALSE
