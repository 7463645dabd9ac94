\* Three clients with one token and two lines each: every order of pairing,
\* piping, taking over and leaving.  No symmetry: it is unsound for liveness.
CONSTANTS
  Conns = {c1, c2, c3}
  Tokens = {t1}
  Sides = {}
  MaxLines = 2
  None = None
SPECIFICATION LeaveSpec
CHECK_DEADLOCK FALSE
PROPERTIES
  LeaverIsReleased
  TokenIsProcessed
