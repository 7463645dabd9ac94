\* Two clients of one mailbox, and the cleaner through two sweeps.
CONSTANTS
  Conns = {c1, c2}
  AppIDs = {a1}
  Sides = {s1}
  Names = {n1}
  AllocNames = {n1}
  MailboxIDs = {m1}
  Msgs = {x1}
  None = None
  FaultySteps = {}
  MaxNameplates = 2
  Sent = {"bind", "claim", "open", "add"}
  CleaningInterval = 2
  FaultyCleaning = {"del_np", "del_msgs", "del_mb"}
  CrashSteps = {"del_np", "del_mb"}
  MaxNow = 4
SPECIFICATION CleaningSpec
CONSTRAINTS ClaimsOrOpens AddsOnce FirstSweepAlone
SYMMETRY CleaningSymmetry
CHECK_DEADLOCK FALSE
INVARIANTS
  CleaningTypeOK
  NameplateHasMailbox
  CleanupIsComplete
PROPERTY KeepsRecent
