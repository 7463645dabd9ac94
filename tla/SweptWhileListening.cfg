\* A sweep beside one client that opens a mailbox and listens.
CONSTANTS
  Conns = {c1}
  AppIDs = {a1}
  Sides = {s1}
  Names = {n1}
  AllocNames = {n1}
  MailboxIDs = {m1}
  Msgs = {x1}
  None = None
  FaultySteps = {}
  MaxNameplates = 1
  Sent = {"bind", "open"}
  CleaningInterval = 2
  FaultyCleaning = {}
  CrashSteps = {}
  MaxNow = 4
SPECIFICATION CleaningSpec
CHECK_DEADLOCK FALSE
PROPERTY ListenedIsKept
