SPECIFICATION Spec
CONSTANTS
  Sub = {s1, s2}
  Ip = {1, 2}
INVARIANT PausedIsBlocked
CHECK_DEADLOCK FALSE
