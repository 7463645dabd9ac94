\* Two clients with one token: the first leaves before the second comes.
CONSTANTS
  Conns = {c1, c2}
  Tokens = {t1}
  Sides = {s1}
  MaxLines = 1
  None = None
SPECIFICATION Spec
CHECK_DEADLOCK FALSE
INVARIANT ClosedIsForgotten
