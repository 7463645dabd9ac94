\* Two clients open one mailbox at the same time, and one adds to it.
CONSTANTS
  Conns = {c1, c2}
  AppIDs = {a1}
  Sides = {s1, s2}
  Names = {n1}
  AllocNames = {n1}
  MailboxIDs = {m1}
  Msgs = {x1}
  None = None
  FaultySteps = {}
  MaxNameplates = 2
  Sent = {"bind", "open", "add"}
SPECIFICATION Spec
CHECK_DEADLOCK FALSE
PROPERTY AddReachesAllListeners
