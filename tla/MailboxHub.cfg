\* Two clients that open and add; either may be lost at any time.
CONSTANTS
  Conns = {c1, c2}
  Cap = 1
  Sent = {"open", "add"}
  MaxReads = 2
  NoConn = NoConn
SPECIFICATION Spec
CHECK_DEADLOCK FALSE
INVARIANTS
  TypeOK
  CloseCleansUp
  NoSendOnClosed
PROPERTIES
  FeedSpec
  ServedUnlessDeadFull
