CONSTANTS
  Conns = {c1, c2}
  AppIDs = {a1}
  Sides = {s1, s2, n1}
  Names = {n1}
  AllocNames = {n1}
  MailboxIDs = {m1, m2}
  Msgs = {x1}
  None = None
  FaultySteps = {"nps_insert"}
  MaxNameplates = 2
  Sent = {"bind", "allocate", "claim", "release"}
SPECIFICATION Spec
SYMMETRY NameplateSymmetry
CHECK_DEADLOCK FALSE
INVARIANTS
  NameplateHasMailbox
  MailboxCapacity
  ClaimsAgree
PROPERTY ServiceSpec
