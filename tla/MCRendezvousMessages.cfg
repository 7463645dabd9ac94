CONSTANTS
  Conns = {c1, c2}
  AppIDs = {a1, a2}
  Sides = {s1, s2}
  Names = {n1}
  AllocNames = {n1}
  MailboxIDs = {a1}
  Msgs = {x1}
  None = None
  FaultySteps = {"mb_insert", "mbs_select", "add_insert", "add_touch", "close_select"}
  MaxNameplates = 1
  Sent = {"bind", "open", "add", "close", "reopen"}
SPECIFICATION Spec
SYMMETRY MailboxSymmetry
CHECK_DEADLOCK FALSE
INVARIANTS
  TypeOK
  HeldMailboxExists
  DeliveredIsStored
PROPERTY ServiceSpec
