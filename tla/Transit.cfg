\* Three clients and two tokens: two pairs that must be kept apart, or three
\* clients with one token, of which one comes in between.
CONSTANTS
  Conns = {c1, c2, c3}
  Tokens = {t1, t2}
  Sides = {s1, s2}
  MaxLines = 3
  None = None
SPECIFICATION Spec
SYMMETRY Symmetry
CONSTRAINT FewLines
CHECK_DEADLOCK FALSE
INVARIANTS
  TypeOK
  PipedByToken
  PipedInOrder
  BuddyGoesToo
PROPERTY WireSpec
