SPECIFICATION Spec
CONSTANTS
  Questions = {q1}
  Symbols = {s1}
INVARIANT ServedIsAnswered
CHECK_DEADLOCK FALSE
