SPECIFICATION Spec
CONSTANTS
  USER_LIMIT = 2
  Fds = {1, 2}
  MaxConns = 3
INVARIANT UsersCounted
CHECK_DEADLOCK FALSE
