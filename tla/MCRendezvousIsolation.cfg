\* Two applications, two mailboxes: who is handed a message.
CONSTANTS
  Conns = {c1, c2}
  AppIDs = {a1, a2}
  Sides = {s1}
  Names = {n1}
  AllocNames = {n1}
  MailboxIDs = {m1, m2}
  Msgs = {x1}
  None = None
  FaultySteps = {"mbs_select", "add_touch"}
  MaxNameplates = 1
  Sent = {"bind", "open", "add", "close", "reopen"}
SPECIFICATION Spec
SYMMETRY IsolationSymmetry
CHECK_DEADLOCK FALSE
INVARIANTS
  DeliveryIsolation
