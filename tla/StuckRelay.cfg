\* One of two listeners is lost while messages are broadcast.
CONSTANTS
  Conns = {c1, c2}
  Cap = 1
  Sent = {"open", "add"}
  MaxReads = 2
  NoConn = NoConn
SPECIFICATION Spec
CHECK_DEADLOCK FALSE
PROPERTY ConnectionsHandled
