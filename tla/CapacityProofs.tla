--------------------------- MODULE CapacityProofs ---------------------------
(***************************************************************************)
(* Mailbox.Open puts the side's row in mailbox_sides before OpenMailbox    *)
(* counts the rows, and no handler takes a row away.  So whoever is let in *)
(* has a row (GrantedInv of module RendezvousProofs), a count of two or    *)
(* less is the count of all the sides that were ever let in, and no third  *)
(* side is, in whatever order the statements of the handlers run.          *)
(*                                                                         *)
(* The argument needs the SELECT in Mailbox.Open not to fail: Open passes  *)
(* over its error and lets a side in that has no row.                      *)
(*                                                                         *)
(* Last, nameplates.  Ids are handed out once (NameplateInv), so what a    *)
(* handler holds of a nameplate that was dropped and claimed anew is the   *)
(* id of no nameplate, and never that of another one.                      *)
(***************************************************************************)
EXTENDS RendezvousProofs

\* Sets with three different elements have a cardinality above two.
LEMMA ThreeRows ==
  ASSUME NEW S, IsFiniteSet(S), NEW x \in S, NEW y \in S, NEW z \in S,
         x # y, y # z, x # z
  PROVE  Cardinality(S) > 2
<1>1. IsFiniteSet({x}) /\ Cardinality({x}) = 1
  BY FS_Singleton
<1>2. /\ IsFiniteSet({x} \cup {y})
      /\ Cardinality({x} \cup {y}) = 2
  <2>1. /\ IsFiniteSet({x} \cup {y})
        /\ Cardinality({x} \cup {y})
             = IF y \in {x} THEN Cardinality({x}) ELSE Cardinality({x}) + 1
    BY <1>1, FS_AddElement, Zenon
  <2> QED
    BY <1>1, <2>1
<1>3. /\ IsFiniteSet(({x} \cup {y}) \cup {z})
      /\ Cardinality(({x} \cup {y}) \cup {z}) = 3
  <2>1. /\ IsFiniteSet(({x} \cup {y}) \cup {z})
        /\ Cardinality(({x} \cup {y}) \cup {z})
             = IF z \in {x} \cup {y} THEN Cardinality({x} \cup {y})
                                    ELSE Cardinality({x} \cup {y}) + 1
    BY <1>2, FS_AddElement, Zenon
  <2> QED
    BY <1>2, <2>1
<1>4. ({x} \cup {y}) \cup {z} \subseteq S
  OBVIOUS
<1>5. Cardinality(({x} \cup {y}) \cup {z}) <= Cardinality(S)
  BY <1>4, FS_Subset
<1>6. Cardinality(S) \in Nat
  BY FS_CardinalityType
<1> QED
  BY <1>3, <1>5, <1>6

\* A step that grants nothing and leads no handler to a SideStep.
LEMMA Quiet ==
  ASSUME GrantedInv, NEW c \in Conns,
         \A d \in Conns \ {c} : frame'[d] = frame[d],
         frame'[c].pc \notin SideSteps,
         mailboxSides \subseteq mailboxSides', granted' = granted
  PROVE  GrantedInv'
<1>1. \A id, s : HasSideRow(id, s) => HasSideRow(id, s)'
  BY DEF HasSideRow
<1> QED
  BY <1>1 DEF GrantedInv, MailboxCapacity

\* The handler that moves, and the others.
LEMMA AfterMove ==
  ASSUME IInv, NEW c \in Conns, NEW f, Move(c, f)
  PROVE  frame'[c] = f /\ \A d \in Conns \ {c} : frame'[d] = frame[d]
BY DEF Move, IInv, TypeOK, ApplicationTypeOK

LEMMA AfterGoto ==
  ASSUME IInv, NEW c \in Conns, NEW step, Goto(c, step)
  PROVE  /\ frame'[c].pc = step
         /\ frame'[c].mailbox = frame[c].mailbox
         /\ frame'[c].side = frame[c].side
         /\ \A d \in Conns \ {c} : frame'[d] = frame[d]
<1>1. frame[c] \in FrameType
  BY Here
<1> QED
  BY <1>1, AfterMove DEF Goto, FrameType

LEMMA QuietMove ==
  ASSUME IInv, GrantedInv, NEW c \in Conns, NEW f, Move(c, f),
         f.pc \notin SideSteps, mailboxSides' = mailboxSides, granted' = granted
  PROVE  GrantedInv'
BY AfterMove, Quiet

\* The moves to a step that set another field or two.
Leads(c, step) ==
  LET f == frame[c] IN
  \/ \E n : Move(c, [f EXCEPT !.name = n, !.pc = step])
  \/ \E n : Move(c, [f EXCEPT !.np = n, !.pc = step])
  \/ \E n, id : Move(c, [f EXCEPT !.np = n, !.mailbox = id, !.pc = step])
  \/ \E id, t : Move(c, [f EXCEPT !.mailbox = id, !.then = t, !.pc = step])
  \/ \E t : Move(c, [f EXCEPT !.then = t, !.pc = step])
  \/ \E b : Move(c, [f EXCEPT !.box = b, !.pc = step])

LEMMA QuietStep ==
  ASSUME IInv, GrantedInv, NEW c \in Conns, NEW step, Leads(c, step),
         step \notin SideSteps, mailboxSides' = mailboxSides, granted' = granted
  PROVE  GrantedInv'
<1>1. frame[c] \in FrameType
  BY Here
<1>2. CASE \E n : Move(c, [frame[c] EXCEPT !.name = n, !.pc = step])
  <2>1. PICK n : Move(c, [frame[c] EXCEPT !.name = n, !.pc = step])
    BY <1>2
  <2> DEFINE f == [frame[c] EXCEPT !.name = n, !.pc = step]
  <2>2. f.pc = step
    BY <1>1 DEF FrameType
  <2> HIDE DEF f
  <2> QED
    BY <2>1, <2>2, QuietMove DEF f
<1>3. CASE \E n : Move(c, [frame[c] EXCEPT !.np = n, !.pc = step])
  <2>1. PICK n : Move(c, [frame[c] EXCEPT !.np = n, !.pc = step])
    BY <1>3
  <2> DEFINE f == [frame[c] EXCEPT !.np = n, !.pc = step]
  <2>2. f.pc = step
    BY <1>1 DEF FrameType
  <2> HIDE DEF f
  <2> QED
    BY <2>1, <2>2, QuietMove DEF f
<1>4. CASE \E n, id : Move(c, [frame[c] EXCEPT !.np = n, !.mailbox = id, !.pc = step])
  <2>1. PICK n, id : Move(c, [frame[c] EXCEPT !.np = n, !.mailbox = id, !.pc = step])
    BY <1>4
  <2> DEFINE f == [frame[c] EXCEPT !.np = n, !.mailbox = id, !.pc = step]
  <2>2. f.pc = step
    BY <1>1 DEF FrameType
  <2> HIDE DEF f
  <2> QED
    BY <2>1, <2>2, QuietMove DEF f
<1>5. CASE \E id, t : Move(c, [frame[c] EXCEPT !.mailbox = id, !.then = t, !.pc = step])
  <2>1. PICK id, t : Move(c, [frame[c] EXCEPT !.mailbox = id, !.then = t, !.pc = step])
    BY <1>5
  <2> DEFINE f == [frame[c] EXCEPT !.mailbox = id, !.then = t, !.pc = step]
  <2>2. f.pc = step
    BY <1>1 DEF FrameType
  <2> HIDE DEF f
  <2> QED
    BY <2>1, <2>2, QuietMove DEF f
<1>6. CASE \E t : Move(c, [frame[c] EXCEPT !.then = t, !.pc = step])
  <2>1. PICK t : Move(c, [frame[c] EXCEPT !.then = t, !.pc = step])
    BY <1>6
  <2> DEFINE f == [frame[c] EXCEPT !.then = t, !.pc = step]
  <2>2. f.pc = step
    BY <1>1 DEF FrameType
  <2> HIDE DEF f
  <2> QED
    BY <2>1, <2>2, QuietMove DEF f
<1>7. CASE \E b : Move(c, [frame[c] EXCEPT !.box = b, !.pc = step])
  <2>1. PICK b : Move(c, [frame[c] EXCEPT !.box = b, !.pc = step])
    BY <1>7
  <2> DEFINE f == [frame[c] EXCEPT !.box = b, !.pc = step]
  <2>2. f.pc = step
    BY <1>1 DEF FrameType
  <2> HIDE DEF f
  <2> QED
    BY <2>1, <2>2, QuietMove DEF f
<1> QED
  BY <1>2, <1>3, <1>4, <1>5, <1>6, <1>7 DEF Leads

LEMMA QuietGoto ==
  ASSUME IInv, GrantedInv, NEW c \in Conns, NEW step, Goto(c, step),
         step \notin SideSteps, mailboxSides' = mailboxSides, granted' = granted
  PROVE  GrantedInv'
BY AfterGoto, Quiet

LEMMA QuietFail ==
  ASSUME IInv, GrantedInv, NEW c \in Conns, Fail(c),
         mailboxSides' = mailboxSides, granted' = granted
  PROVE  GrantedInv'
<1>1. Idle.pc \notin SideSteps
  BY DEF Idle, SideSteps
<1> QED
  BY <1>1, AfterMove, Quiet DEF Fail

\* The step into the count of a handler whose side has its row.
LEMMA SideGoto ==
  ASSUME IInv, GrantedInv, NEW c \in Conns, NEW step, Goto(c, step),
         \A id, s : id = frame[c].mailbox /\ s = frame[c].side
                   => HasSideRow(id, s)',
         mailboxSides \subseteq mailboxSides', granted' = granted
  PROVE  GrantedInv'
<1>1. \A id, s : HasSideRow(id, s) => HasSideRow(id, s)'
  BY DEF HasSideRow
<1> QED
  BY <1>1, AfterGoto DEF GrantedInv, MailboxCapacity

-----------------------------------------------------------------------------
(* The three steps on the way to the count, and the count. *)

LEMMA SelectSideCapacity ==
  ASSUME IInv, GrantedInv, "mbs_select" \notin FaultySteps,
         NEW c \in Conns, OpenSelectSide(c)
  PROVE  GrantedInv'
<1>1. frame[c].box.id = frame[c].mailbox
  BY Here DEF OpenSelectSide, At, FrameInv, FrameOpen,
                     OpenSteps
<1>2. mailboxSides' = mailboxSides /\ granted' = granted
  BY DEF OpenSelectSide, store, History
<1>3. CASE Goto(c, "touch")
           /\ \E r \in MailboxSideRows(frame[c].box.id) :
                r.side = frame[c].side
  <2>1. HasSideRow(frame[c].mailbox, frame[c].side)
    BY <1>1, <1>3 DEF HasSideRow, MailboxSideRows
  <2>2. \A id, s : HasSideRow(id, s) => HasSideRow(id, s)'
    BY <1>2 DEF HasSideRow
  <2>3. \A id, s : id = frame[c].mailbox /\ s = frame[c].side
                   => HasSideRow(id, s)'
    BY <2>1, <2>2
  <2> QED
    BY <1>2, <1>3, <2>3, SideGoto
<1>4. CASE Goto(c, "mbs_insert")
  BY <1>2, <1>4, QuietGoto DEF SideSteps
<1> QED
  BY <1>3, <1>4 DEF OpenSelectSide

LEMMA InsertSideCapacity ==
  ASSUME IInv, GrantedInv, NEW c \in Conns, OpenInsertSide(c)
  PROVE  GrantedInv'
<1> DEFINE row == [mailbox |-> frame[c].box.id, side |-> frame[c].side,
                   by |-> c]
<1>1. frame[c].box.id = frame[c].mailbox
  BY Here DEF OpenInsertSide, At, FrameInv, FrameOpen,
                     OpenSteps
<1>2. /\ mailboxSides' = mailboxSides \cup {row} /\ granted' = granted
      /\ Goto(c, "touch")
  BY DEF OpenInsertSide, History
<1>3. row \in mailboxSides' /\ row.mailbox = frame[c].mailbox
      /\ row.side = frame[c].side
  BY <1>1, <1>2
<1>4. \A id, s : id = frame[c].mailbox /\ s = frame[c].side
                 => HasSideRow(id, s)'
  BY <1>3 DEF HasSideRow
<1> HIDE DEF row
<1> QED
  BY <1>2, <1>4, SideGoto

LEMMA TouchCapacity ==
  ASSUME IInv, GrantedInv, NEW c \in Conns, OpenTouch(c)
  PROVE  GrantedInv'
<1>1. /\ mailboxSides' = mailboxSides /\ granted' = granted
      /\ Goto(c, "mbs_count") /\ frame[c].pc \in SideSteps
  BY DEF OpenTouch, History, At, SideSteps
<1>2. HasSideRow(frame[c].mailbox, frame[c].side)
  BY <1>1 DEF GrantedInv
<1>3. \A id, s : id = frame[c].mailbox /\ s = frame[c].side
                 => HasSideRow(id, s)'
  BY <1>1, <1>2 DEF HasSideRow
<1> QED
  BY <1>1, <1>3, SideGoto

LEMMA CountCapacity ==
  ASSUME IInv, GrantedInv, NEW c \in Conns, OpenCount(c)
  PROVE  GrantedInv'
<1> DEFINE m == frame[c].mailbox
           grant == [mailbox |-> m, side |-> frame[c].side, by |-> c]
<1>1. mailboxSides' = mailboxSides
  BY DEF OpenCount, store
<1>2. CASE Crowded(MailboxSideRows(m))
  BY <1>1, <1>2, QuietFail DEF OpenCount
<1>3. CASE ~Crowded(MailboxSideRows(m))
  <2>1. /\ granted' = granted \cup {grant}
        /\ Goto(c, "nps_count") \/ Goto(c, "ok")
    BY <1>3 DEF OpenCount
  <2>2. /\ frame'[c].pc \notin SideSteps
        /\ \A d \in Conns \ {c} : frame'[d] = frame[d]
    BY <2>1, AfterGoto DEF SideSteps
  <2>3. HasSideRow(m, grant.side) /\ grant.mailbox = m
    BY DEF GrantedInv, OpenCount, At, SideSteps
  <2> HIDE DEF grant
  <2>4. \A g \in granted' : HasSideRow(g.mailbox, g.side)
    BY <2>1, <2>3 DEF GrantedInv
  <2>5. \A id, s : HasSideRow(id, s) <=> HasSideRow(id, s)'
    BY <1>1 DEF HasSideRow
  <2>6. MailboxCapacity'
    <3>1. ASSUME NEW g \in granted', NEW h \in granted', NEW k \in granted',
                 g.mailbox = h.mailbox, h.mailbox = k.mailbox,
                 g.side # h.side, h.side # k.side, g.side # k.side
          PROVE  FALSE
      <4>1. CASE g.mailbox = m
        <5>1. PICK x \in MailboxSideRows(m), y \in MailboxSideRows(m),
                   z \in MailboxSideRows(m) :
                x.side = g.side /\ y.side = h.side /\ z.side = k.side
          BY <2>4, <3>1, <4>1 DEF HasSideRow, MailboxSideRows
        <5>2. IsFiniteSet(MailboxSideRows(m))
          BY FS_Subset DEF IInv, TablesInv, MailboxSideRows
        <5>3. Cardinality(MailboxSideRows(m)) > 2
          BY <3>1, <5>1, <5>2, ThreeRows
        <5> QED
          BY <1>3, <5>3 DEF Crowded
      <4>2. CASE g.mailbox # m
        BY <2>1, <2>3, <3>1, <4>2 DEF GrantedInv, MailboxCapacity
      <4> QED
        BY <4>1, <4>2
    <3> QED
      BY <3>1 DEF MailboxCapacity
  <2> QED
    BY <2>2, <2>4, <2>5, <2>6 DEF GrantedInv
<1> QED
  BY <1>2, <1>3

-----------------------------------------------------------------------------
(* Every other step is quiet. *)

LEMMA ApplicationCapacity ==
  ASSUME IInv, GrantedInv, "mbs_select" \notin FaultySteps,
         NEW c \in Conns, ApplicationStep(c)
  PROVE  GrantedInv'
<1>1. frame[c] \in FrameType
  BY Here
<1>2. CASE AllocateOrClaimStep(c)
  <2>1. mailboxSides' = mailboxSides /\ granted' = granted
    BY <1>2
    DEF AllocateOrClaimStep, FindNameplate, ClaimSelect, ClaimInsertNameplate,
        ClaimSelectSide, ClaimInsertSide, ClaimCount, store, History
  <2>2. CASE FindNameplate(c) \/ ClaimSelect(c) \/ ClaimInsertNameplate(c)
             \/ ClaimInsertSide(c)
    <3>1. \E step \in {"np_select", "nps_select", "mb_count"} : Leads(c, step)
      BY <2>2
      DEF FindNameplate, ClaimSelect, ClaimInsertNameplate, ClaimInsertSide,
          Leads
    <3> QED
      BY <2>1, <3>1, QuietStep DEF SideSteps
  <2>3. CASE ClaimSelectSide(c)
    <3>1. CASE Goto(c, "nps_insert")
      BY <2>1, <3>1, QuietGoto DEF SideSteps
    <3>2. CASE Fail(c)
      BY <2>1, <3>2, QuietFail
    <3>3. CASE Leads(c, "mb_count")
      BY <2>1, <3>3, QuietStep DEF SideSteps
    <3> QED
      BY <2>3, <3>1, <3>2, <3>3 DEF ClaimSelectSide, Leads
  <2>4. CASE ClaimCount(c)
    BY <2>1, <2>4, QuietFail, QuietGoto DEF ClaimCount, SideSteps
  <2> QED
    BY <1>2, <2>2, <2>3, <2>4 DEF AllocateOrClaimStep
<1>3. CASE OpenStep(c)
  <2>1. CASE AddMailboxCount(c) \/ AddMailboxInsert(c)
    <3>1. mailboxSides' = mailboxSides /\ granted' = granted
      BY <2>1 DEF AddMailboxCount, AddMailboxInsert, store, History
    <3>2. Fail(c) \/ Goto(c, "mb_insert") \/ Goto(c, frame[c].then)
      BY <2>1 DEF AddMailboxCount, AddMailboxInsert
    <3>3. frame[c].then \notin SideSteps
      BY <1>1 DEF FrameType, SideSteps
    <3>4. "mb_insert" \notin SideSteps
      BY DEF SideSteps
    <3> QED
      BY <3>1, <3>2, <3>3, <3>4, QuietFail, QuietGoto
  <2>2. CASE MapGet(c) \/ MapPut(c)
    <3>1. mailboxSides' = mailboxSides /\ granted' = granted
      BY <2>2 DEF MapGet, MapPut, store, History
    <3>2. CASE Goto(c, "map_put")
      BY <3>1, <3>2, QuietGoto DEF SideSteps
    <3>3. CASE Leads(c, "mbs_select")
      BY <3>1, <3>3, QuietStep DEF SideSteps
    <3> QED
      BY <2>2, <3>2, <3>3 DEF MapGet, MapPut, Leads
  <2> QED
    BY <1>3, <2>1, <2>2, SelectSideCapacity, InsertSideCapacity,
       TouchCapacity, CountCapacity
    DEF OpenStep
<1>4. CASE ReleaseStep(c)
  <2>1. mailboxSides' = mailboxSides /\ granted' = granted
    BY <1>4
    DEF ReleaseStep, ReleaseSelect, ReleaseSelectSide, ReleaseUpdate,
        ReleaseCount, ReleaseDeleteSides, ReleaseDelete, store, History
  <2>2. \/ \E step \in ReleaseSteps \cup {"ok"} : Goto(c, step)
        \/ Leads(c, "rel_side")
    BY <1>4
    DEF ReleaseStep, ReleaseSelect, ReleaseSelectSide, ReleaseUpdate,
        ReleaseCount, ReleaseDeleteSides, ReleaseDelete, ReleaseSteps, Leads
  <2> QED
    BY <2>1, <2>2, QuietStep, QuietGoto
    DEF SideSteps, ReleaseSteps
<1>5. CASE MessageOrCloseStep(c)
  <2>1. mailboxSides' = mailboxSides /\ granted' = granted
    BY <1>5
    DEF MessageOrCloseStep, AddInsert, AddBroadcast, AddTouch, CloseSelect,
        store, History
  <2>2. \/ Fail(c)
        \/ \E step \in {"broadcast", "add_touch", "ok"} : Goto(c, step)
    BY <1>5
    DEF MessageOrCloseStep, AddInsert, AddBroadcast, AddTouch, CloseSelect
  <2> QED
    BY <2>1, <2>2, QuietFail, QuietGoto DEF SideSteps
<1>6. CASE StatementFails(c)
  BY <1>6, QuietFail DEF StatementFails, store, History
<1> QED
  BY <1>2, <1>3, <1>4, <1>5, <1>6 DEF ApplicationStep

LEMMA BeginsCapacity ==
  ASSUME IInv, GrantedInv, NEW c \in Conns, Begins(c)
  PROVE  GrantedInv'
<1>1. mailboxSides' = mailboxSides /\ granted' = granted
  BY DEF Begins, HandleBind, HandleAllocate, HandleClaim, HandleRelease,
         HandleOpen, HandleAdd, HandleClose, Begin, store, History
<1>2. CASE UNCHANGED frame
  BY <1>1, <1>2 DEF GrantedInv, MailboxCapacity, HasSideRow
<1>3. CASE \E a, s :
             Move(c, [Idle EXCEPT !.pc = "apps_put", !.app = a, !.side = s])
  <2>1. PICK a, s :
          Move(c, [Idle EXCEPT !.pc = "apps_put", !.app = a, !.side = s])
    BY <1>3
  <2> DEFINE f == [Idle EXCEPT !.pc = "apps_put", !.app = a, !.side = s]
  <2>2. f.pc \notin SideSteps
    BY DEF Idle, SideSteps
  <2> HIDE DEF f
  <2> QED
    BY <1>1, <2>1, <2>2, QuietMove DEF f
<1>4. ASSUME NEW f, Begin(c, f), f.pc \notin SideSteps
      PROVE  GrantedInv'
  BY <1>1, <1>4, QuietMove DEF Begin
<1>5. \A cmd, step : CallFrame(c, cmd, step).pc = step
                     /\ DOMAIN CallFrame(c, cmd, step) = DOMAIN Idle
  BY DEF CallFrame, Idle
<1>6. "pc" \in DOMAIN Idle
  BY DEF Idle
<1>7. CASE HandleAllocate(c)
  BY <1>4, <1>5, <1>7 DEF HandleAllocate, SideSteps
<1>8. CASE HandleClaim(c)
  <2>1. PICK n : Begin(c, [CallFrame(c, "claim", "np_select")
                             EXCEPT !.name = n, !.side = n])
    BY <1>8 DEF HandleClaim
  <2> DEFINE f == [CallFrame(c, "claim", "np_select")
                     EXCEPT !.name = n, !.side = n]
  <2>2. f.pc = "np_select"
    BY <1>5, <1>6
  <2> HIDE DEF f
  <2> QED
    BY <1>4, <2>1, <2>2 DEF f, SideSteps
<1>9. CASE HandleRelease(c)
  <2> DEFINE f == [CallFrame(c, "release", "rel_np")
                     EXCEPT !.name = sess[c].nameplate]
  <2>1. Begin(c, f) /\ f.pc = "rel_np"
    BY <1>5, <1>6, <1>9 DEF HandleRelease
  <2> HIDE DEF f
  <2> QED
    BY <1>4, <2>1 DEF SideSteps
<1>10. ASSUME NEW cmd, NEW id,
              Begin(c, [CallFrame(c, cmd, "mb_count") EXCEPT !.mailbox = id])
       PROVE  GrantedInv'
  <2> DEFINE f == [CallFrame(c, cmd, "mb_count") EXCEPT !.mailbox = id]
  <2>1. Begin(c, f) /\ f.pc = "mb_count"
    BY <1>5, <1>6, <1>10
  <2> HIDE DEF f
  <2> QED
    BY <1>4, <2>1 DEF SideSteps
<1>11. CASE HandleAdd(c)
  <2>1. PICK m : Begin(c, [CallFrame(c, "add", "add_insert")
                             EXCEPT !.box = sess[c].mailbox, !.msg = m])
    BY <1>11 DEF HandleAdd
  <2> DEFINE f == [CallFrame(c, "add", "add_insert")
                     EXCEPT !.box = sess[c].mailbox, !.msg = m]
  <2>2. f.pc = "add_insert"
    BY <1>5, <1>6
  <2> HIDE DEF f
  <2> QED
    BY <1>4, <2>1, <2>2 DEF f, SideSteps
<1>12. CASE HandleClose(c) /\ sess[c].mailbox # None
  <2> DEFINE f == [CallFrame(c, "close", "close_select")
                     EXCEPT !.box = sess[c].mailbox]
  <2>1. Begin(c, f) /\ f.pc = "close_select"
    BY <1>5, <1>6, <1>12 DEF HandleClose
  <2> HIDE DEF f
  <2> QED
    BY <1>4, <2>1 DEF SideSteps
<1>13. CASE HandleOpen(c) \/ (HandleClose(c) /\ sess[c].mailbox = None)
  BY <1>10, <1>13 DEF HandleOpen, HandleClose
<1>14. CASE HandleBind(c)
  BY <1>2, <1>3, <1>14 DEF HandleBind
<1> QED
  BY <1>7, <1>8, <1>9, <1>11, <1>12, <1>13, <1>14 DEF Begins

LEMMA EndsCapacity ==
  ASSUME IInv, GrantedInv, NEW c \in Conns, Ends(c)
  PROVE  GrantedInv'
<1>1. mailboxSides' = mailboxSides /\ granted' = granted
  BY DEF Ends, GetAppInsert, Allocated, Claimed, Released, Opened, Added,
         Reopened, Closed, Finish, store, History
<1>2. CASE Reopened(c)
  <2> DEFINE f == [frame[c] EXCEPT !.cmd = "close", !.pc = "close_select"]
  <2>1. Move(c, f)
    BY <1>2 DEF Reopened
  <2>2. f.pc = "close_select"
    BY Here DEF FrameType
  <2> HIDE DEF f
  <2> QED
    BY <1>1, <2>1, <2>2, QuietMove DEF SideSteps
<1>3. CASE ~Reopened(c)
  <2>1. Fail(c)
    BY <1>3 DEF Ends, GetAppInsert, Allocated, Claimed, Released, Opened,
                Added, Closed, Finish
  <2> QED
    BY <1>1, <2>1, QuietFail
<1> QED
  BY <1>2, <1>3

\* No other step of the program grants a mailbox or starts a count.
LEMMA NextCapacity ==
  "mbs_select" \notin FaultySteps =>
    (IInv /\ GrantedInv /\ [Next]_vars => GrantedInv')
<1> SUFFICES ASSUME "mbs_select" \notin FaultySteps, IInv, GrantedInv,
                    [Next]_vars
             PROVE  GrantedInv'
  OBVIOUS
<1>1. CASE Restart
  BY <1>1
  DEF Restart, GrantedInv, MailboxCapacity, HasSideRow, SideSteps, Idle,
      store, History
<1>2. ASSUME NEW c \in Conns, Disconnect(c) \/ UNCHANGED vars
      PROVE  GrantedInv'
  BY <1>2
  DEF Disconnect, GrantedInv, MailboxCapacity, HasSideRow, vars, application,
      store, History
<1>3. CASE UNCHANGED vars
  BY <1>3
  DEF GrantedInv, MailboxCapacity, HasSideRow, vars, application, store
<1> QED
  BY <1>1, <1>2, <1>3, ApplicationCapacity, BeginsCapacity, EndsCapacity
  DEF Next, Crash, AllocatePanics

\* No mailbox is ever granted to three sides, for any number of connections
\* and whatever else fails, as long as Mailbox.Open's SELECT does not.
THEOREM Capacity ==
  ASSUME "mbs_select" \notin FaultySteps
  PROVE  Spec => []MailboxCapacity
<1>1. Init => GrantedInv
  BY DEF Init, StoreInit, ApplicationInit, GrantedInv, MailboxCapacity, Idle,
         SideSteps
<1>2. IInv /\ GrantedInv /\ [Next]_vars => GrantedInv'
  BY NextCapacity
<1>3. GrantedInv => MailboxCapacity
  BY DEF GrantedInv
<1> QED
  BY <1>1, <1>2, <1>3, Invariance, PTL DEF Spec

-----------------------------------------------------------------------------
(* What the handlers know of the nameplate they are about.  ClaimsAgree    *)
(* needs besides that ids only grow, and that FindNameplate and            *)
(* ClaimSelect start from no nameplate.                                    *)

Claims(c) == frame[c].np # 0 /\ frame[c].cmd # "release"

NameplateInv ==
  /\ \A r \in nameplates : r.id \in 1..npSeq
  /\ \A r, q \in nameplates : r.id = q.id => r = q
  /\ \A c \in Conns : frame[c].np <= npSeq
  /\ \A c \in Conns : frame[c].pc \in {"find", "np_select"} => frame[c].np = 0
  /\ ClaimsAgree

\* What the step of c's handler does to its frame and to the nameplates.
Forgets(c) == frame'[c].np = 0

Keeps(c) ==
  /\ frame'[c].np = frame[c].np /\ frame'[c].app = frame[c].app
  /\ frame'[c].cmd = frame[c].cmd
  /\ \/ frame[c].np = 0
     \/ frame'[c].name = frame[c].name /\ frame'[c].mailbox = frame[c].mailbox
  /\ frame'[c].pc \in {"find", "np_select"} => frame'[c].np = 0

Finds(c, r) ==
  /\ frame'[c].np = r.id /\ r.app = frame'[c].app /\ r.name = frame'[c].name
  /\ frame'[c].cmd # "release" => r.mailbox = frame'[c].mailbox
  /\ frame'[c].pc \notin {"find", "np_select"}

LEMMA NameplateKept ==
  ASSUME IInv, NameplateInv, NEW c \in Conns,
         \A d \in Conns \ {c} : frame'[d] = frame[d],
         npSeq' = npSeq, nameplates' \subseteq nameplates,
         Forgets(c) \/ Keeps(c) \/ \E r \in nameplates : Finds(c, r)
  PROVE  NameplateInv'
<1>1. /\ npSeq \in Nat
      /\ \A d \in Conns : frame[d].np \in Nat
      /\ \A r \in nameplates : r.id \in Nat
  BY DEF IInv, TypeOK, StoreTypeOK, ApplicationTypeOK, FrameType
<1>2. /\ \A r \in nameplates' : r.id \in 1..npSeq'
      /\ \A r, q \in nameplates' : r.id = q.id => r = q
  BY DEF NameplateInv
<1>3. frame'[c].np <= npSeq'
  BY <1>1 DEF Forgets, Keeps, Finds, NameplateInv
<1>4. \A d \in Conns : frame'[d].np <= npSeq'
  BY <1>3 DEF NameplateInv
<1>5. frame'[c].pc \in {"find", "np_select"} => frame'[c].np = 0
  BY DEF Forgets, Keeps, Finds
<1>6. \A d \in Conns : frame'[d].pc \in {"find", "np_select"} => frame'[d].np = 0
  BY <1>5 DEF NameplateInv
<1>7. ASSUME NEW r \in nameplates', frame'[c].np = r.id
      PROVE  /\ r.app = frame'[c].app /\ r.name = frame'[c].name
             /\ Claims(c)' => r.mailbox = frame'[c].mailbox
  <2>1. r \in nameplates /\ r.id # 0
    BY <1>7 DEF NameplateInv
  <2>2. CASE Keeps(c)
    <3>1. /\ frame[c].np = r.id /\ frame[c].np # 0
          /\ frame'[c].app = frame[c].app /\ frame'[c].name = frame[c].name
          /\ frame'[c].cmd = frame[c].cmd /\ frame'[c].mailbox = frame[c].mailbox
      BY <1>7, <2>1, <2>2 DEF Keeps
    <3>2. /\ r.app = frame[c].app /\ r.name = frame[c].name
          /\ Claims(c) => r.mailbox = frame[c].mailbox
      BY <2>1, <3>1 DEF NameplateInv, ClaimsAgree, Claims
    <3> QED
      BY <3>1, <3>2 DEF Claims
  <2>3. ASSUME NEW q \in nameplates, Finds(c, q)
        PROVE  /\ r.app = frame'[c].app /\ r.name = frame'[c].name
               /\ Claims(c)' => r.mailbox = frame'[c].mailbox
    <3>1. q = r
      BY <1>7, <2>1, <2>3 DEF Finds, NameplateInv
    <3> QED
      BY <2>3, <3>1 DEF Finds, Claims
  <2> QED
    BY <1>7, <2>1, <2>2, <2>3 DEF Forgets
<1>8. ASSUME NEW d \in Conns \ {c}, Claims(c)', Claims(d)',
             frame'[c].np = frame'[d].np
      PROVE  frame'[c].mailbox = frame'[d].mailbox
  <2>1. frame'[d] = frame[d] /\ Claims(d)
    BY <1>8 DEF Claims
  <2>2. CASE Keeps(c)
    <3>1. /\ Claims(c) /\ frame[c].np = frame[d].np
          /\ frame'[c].mailbox = frame[c].mailbox
      BY <1>8, <2>1, <2>2 DEF Keeps, Claims
    <3> QED
      BY <2>1, <3>1 DEF NameplateInv, ClaimsAgree, Claims
  <2>3. ASSUME NEW q \in nameplates, Finds(c, q)
        PROVE  frame'[c].mailbox = frame'[d].mailbox
    BY <1>8, <2>1, <2>3 DEF Finds, NameplateInv, ClaimsAgree, Claims
  <2> QED
    BY <1>8, <2>2, <2>3 DEF Forgets, Claims
<1>9. ClaimsAgree'
  <2>1. ASSUME NEW d \in Conns, NEW r \in nameplates', frame'[d].np = r.id
        PROVE  /\ r.app = frame'[d].app /\ r.name = frame'[d].name
               /\ Claims(d)' => r.mailbox = frame'[d].mailbox
    <3>1. CASE d = c
      BY <1>7, <2>1, <3>1
    <3>2. CASE d # c
      BY <2>1, <3>2 DEF NameplateInv, ClaimsAgree, Claims
    <3> QED
      BY <3>1, <3>2
  <2>2. ASSUME NEW d \in Conns, NEW e \in Conns, Claims(d)', Claims(e)',
               frame'[d].np = frame'[e].np
        PROVE  frame'[d].mailbox = frame'[e].mailbox
    <3>1. CASE d # c /\ e # c
      BY <2>2, <3>1 DEF NameplateInv, ClaimsAgree, Claims
    <3>2. CASE d = c \/ e = c
      BY <1>8, <2>2, <3>2
    <3> QED
      BY <3>1, <3>2
  <2> QED
    BY <2>1, <2>2 DEF ClaimsAgree, Claims
<1> QED
  BY <1>2, <1>4, <1>6, <1>9 DEF NameplateInv

\* The new id is nobody's yet.
LEMMA NameplateInserted ==
  ASSUME IInv, NameplateInv, NEW c \in Conns, ClaimInsertNameplate(c)
  PROVE  NameplateInv'
<1>1. /\ frame \in [Conns -> FrameType] /\ npSeq \in Nat
      /\ \A d \in Conns : frame[d].np \in Nat
      /\ \A r \in nameplates : r.id \in Nat
  BY DEF IInv, TypeOK, StoreTypeOK, ApplicationTypeOK, FrameType
<1>2. PICK f \in FrameType : f = frame[c]
  BY <1>1
<1>3. PICK r : r = [id |-> npSeq + 1, app |-> f.app, name |-> f.name,
                    mailbox |-> f.mailbox]
  OBVIOUS
<1>4. /\ r.id = npSeq + 1 /\ r.app = f.app /\ r.name = f.name
      /\ r.mailbox = f.mailbox
  BY <1>3
<1>5. npSeq' = npSeq + 1 /\ nameplates' = nameplates \cup {r}
  BY <1>2, <1>3 DEF ClaimInsertNameplate
<1>6. /\ \A d \in Conns \ {c} : frame'[d] = frame[d]
      /\ frame'[c].np = r.id /\ frame'[c].pc = "nps_select"
      /\ frame'[c].app = f.app /\ frame'[c].name = f.name
      /\ frame'[c].mailbox = f.mailbox
  BY <1>1, <1>2, <1>4 DEF ClaimInsertNameplate, Move, FrameType
<1>7. \A q \in nameplates : q.id <= npSeq
  BY DEF NameplateInv
<1>8. \A d \in Conns : frame[d].np <= npSeq
  BY DEF NameplateInv
<1>9. /\ \A q \in nameplates' : q.id \in 1..npSeq'
      /\ \A q, p \in nameplates' : q.id = p.id => q = p
  BY <1>1, <1>4, <1>5, <1>7 DEF NameplateInv
<1>10. /\ \A d \in Conns : frame'[d].np <= npSeq'
       /\ \A d \in Conns \ {c} : frame'[d].np < r.id
  BY <1>1, <1>4, <1>5, <1>6, <1>8
<1>11. \A d \in Conns : frame'[d].pc \in {"find", "np_select"} => frame'[d].np = 0
  BY <1>6 DEF NameplateInv
<1>12. \A q \in nameplates : frame'[c].np # q.id
  BY <1>1, <1>4, <1>6, <1>7
<1>13. \A d \in Conns \ {c} : frame'[d].np # frame'[c].np /\ frame'[d].np # r.id
  <2>1. \A d \in Conns \ {c} : frame'[d].np \in Nat /\ frame'[d].np < r.id
    BY <1>1, <1>6, <1>10
  <2> QED
    BY <1>1, <1>4, <1>6, <2>1
<1>14. ClaimsAgree'
  <2>1. ASSUME NEW d \in Conns, NEW q \in nameplates', frame'[d].np = q.id
        PROVE  /\ q.app = frame'[d].app /\ q.name = frame'[d].name
               /\ Claims(d)' => q.mailbox = frame'[d].mailbox
    <3>1. CASE d = c
      BY <1>4, <1>5, <1>6, <1>12, <2>1, <3>1
    <3>2. CASE d # c
      BY <1>5, <1>6, <1>13, <2>1, <3>2 DEF NameplateInv, ClaimsAgree, Claims
    <3> QED
      BY <3>1, <3>2
  <2>2. ASSUME NEW d \in Conns, NEW e \in Conns, Claims(d)', Claims(e)',
               frame'[d].np = frame'[e].np
        PROVE  frame'[d].mailbox = frame'[e].mailbox
    <3>1. CASE d # c /\ e # c
      BY <1>6, <2>2, <3>1 DEF NameplateInv, ClaimsAgree, Claims
    <3>2. CASE d = c \/ e = c
      BY <1>13, <2>2, <3>2
    <3> QED
      BY <3>1, <3>2
  <2> QED
    BY <2>1, <2>2 DEF ClaimsAgree, Claims
<1> QED
  BY <1>9, <1>10, <1>11, <1>14 DEF NameplateInv

LEMMA NameplateSteps ==
  ASSUME IInv, NameplateInv, NEW c \in Conns, ApplicationStep(c),
         ~ClaimInsertNameplate(c)
  PROVE  Forgets(c) \/ Keeps(c) \/ \E r \in nameplates : Finds(c, r)
<1>1. frame \in [Conns -> FrameType] /\ frame[c] \in FrameType
  BY DEF IInv, TypeOK, ApplicationTypeOK
<1>2. ASSUME NEW step, step \notin {"find", "np_select"}, Goto(c, step)
      PROVE  Keeps(c)
  BY <1>1, <1>2 DEF Goto, Move, FrameType, Keeps
<1>3. Fail(c) => Forgets(c)
  BY <1>1 DEF Fail, Move, Idle, Forgets
<1>4. CASE FindNameplate(c)
  <2>1. PICK n : Move(c, [frame[c] EXCEPT !.name = n, !.pc = "np_select"])
    BY <1>4 DEF FindNameplate
  <2>2. frame[c].np = 0
    BY <1>4 DEF FindNameplate, At, NameplateInv
  <2> QED
    BY <1>1, <2>1, <2>2 DEF Move, FrameType, Keeps
<1>5. CASE ClaimSelect(c)
  <2>1. frame[c].np = 0
    BY <1>5 DEF ClaimSelect, At, NameplateInv
  <2>2. ASSUME NEW r \in nameplates, r.app = frame[c].app, r.name = frame[c].name,
               Move(c, [frame[c] EXCEPT !.np = r.id, !.mailbox = r.mailbox,
                                        !.pc = "nps_select"])
        PROVE  Finds(c, r)
    BY <1>1, <2>2 DEF Move, FrameType, Finds
  <2>3. ASSUME NEW id, Move(c, [frame[c] EXCEPT !.mailbox = id,
                                  !.then = "np_insert", !.pc = "mb_count"])
        PROVE  Keeps(c)
    BY <1>1, <2>1, <2>3 DEF Move, FrameType, Keeps
  <2> QED
    BY <1>5, <2>2, <2>3 DEF ClaimSelect, FirstNameplate, NameplateRows
<1>6. CASE ClaimSelectSide(c)
  <2>1. CASE Move(c, [frame[c] EXCEPT !.then = "map_get", !.pc = "mb_count"])
    BY <1>1, <2>1 DEF Move, FrameType, Keeps
  <2> QED
    BY <1>2, <1>3, <1>6, <2>1 DEF ClaimSelectSide
<1>7. CASE ClaimInsertSide(c)
  <2>1. Move(c, [frame[c] EXCEPT !.then = "map_get", !.pc = "mb_count"])
    BY <1>7 DEF ClaimInsertSide
  <2> QED
    BY <1>1, <2>1 DEF Move, FrameType, Keeps
<1>8. CASE ClaimCount(c)
  BY <1>2, <1>3, <1>8 DEF ClaimCount
<1>9. CASE AddMailboxCount(c) \/ AddMailboxInsert(c)
  <2>1. frame[c].then \in {"idle", "np_insert", "map_get"}
    BY <1>1 DEF FrameType
  <2> QED
    BY <1>2, <1>3, <1>9, <2>1 DEF AddMailboxCount, AddMailboxInsert
<1>10. CASE MapGet(c) \/ MapPut(c)
  <2>1. CASE Goto(c, "map_put")
    BY <1>2, <2>1
  <2>2. CASE ~Goto(c, "map_put")
    <3>1. PICK b : Move(c, [frame[c] EXCEPT !.box = b, !.pc = "mbs_select"])
      BY <1>10, <2>2 DEF MapGet, MapPut
    <3> QED
      BY <1>1, <3>1 DEF Move, FrameType, Keeps
  <2> QED
    BY <2>1, <2>2
<1>11. CASE OpenSelectSide(c) \/ OpenInsertSide(c) \/ OpenTouch(c)
  BY <1>2, <1>11 DEF OpenSelectSide, OpenInsertSide, OpenTouch
<1>12. CASE OpenCount(c)
  <2>1. Goto(c, "nps_count") \/ Goto(c, "ok") \/ Fail(c)
    BY <1>12 DEF OpenCount
  <2> QED
    BY <1>2, <1>3, <2>1
<1>13. CASE ReleaseSelect(c)
  <2>1. CASE Goto(c, "ok")
    BY <1>2, <2>1
  <2>2. CASE ~Goto(c, "ok")
    <3>1. PICK r \in nameplates :
            /\ r.app = frame[c].app /\ r.name = frame[c].name
            /\ Move(c, [frame[c] EXCEPT !.np = r.id, !.pc = "rel_side"])
      BY <1>13, <2>2 DEF ReleaseSelect, FirstNameplate, NameplateRows
    <3>2. frame[c].cmd = "release"
      BY <1>13, Here DEF ReleaseSelect, At, FrameInv, FrameCommand, ReleaseSteps
    <3>3. Finds(c, r)
      BY <1>1, <3>1, <3>2 DEF Move, FrameType, Finds
    <3> QED
      BY <3>3
  <2> QED
    BY <2>1, <2>2
<1>14. CASE ReleaseStep(c) /\ ~ReleaseSelect(c)
  BY <1>2, <1>14
  DEF ReleaseStep, ReleaseSelectSide, ReleaseUpdate, ReleaseCount,
      ReleaseDeleteSides, ReleaseDelete
<1>15. CASE MessageOrCloseStep(c) \/ StatementFails(c)
  BY <1>2, <1>3, <1>15
  DEF MessageOrCloseStep, AddInsert, AddBroadcast, AddTouch, CloseSelect,
      StatementFails
<1> QED
  BY <1>4, <1>5, <1>6, <1>7, <1>8, <1>9, <1>10, <1>11, <1>12, <1>13, <1>14,
     <1>15
  DEF ApplicationStep, AllocateOrClaimStep, OpenStep

LEMMA ApplicationNameplates ==
  ASSUME IInv, NameplateInv, NEW c \in Conns, ApplicationStep(c)
  PROVE  NameplateInv'
<1>1. CASE ClaimInsertNameplate(c)
  BY <1>1, NameplateInserted
<1>2. CASE ~ClaimInsertNameplate(c)
  <2>1. \A f : Move(c, f) => \A d \in Conns \ {c} : frame'[d] = frame[d]
    BY AfterMove
  <2>2. npSeq' = npSeq /\ nameplates' \subseteq nameplates
    BY <1>2
    DEF ApplicationStep, AllocateOrClaimStep, OpenStep, ReleaseStep,
        MessageOrCloseStep, StatementFails, FindNameplate, ClaimSelect,
        ClaimSelectSide, ClaimInsertSide, ClaimCount, AddMailboxCount,
        AddMailboxInsert, MapGet, MapPut, OpenSelectSide, OpenInsertSide,
        OpenTouch, OpenCount, ReleaseSelect, ReleaseSelectSide, ReleaseUpdate,
        ReleaseCount, ReleaseDeleteSides, ReleaseDelete, AddInsert,
        AddBroadcast, AddTouch, CloseSelect, store
  <2>3. \E f : Move(c, f)
    BY DEF ApplicationStep, AllocateOrClaimStep, OpenStep, ReleaseStep,
        MessageOrCloseStep, StatementFails, FindNameplate, ClaimSelect,
        ClaimInsertNameplate,
        ClaimSelectSide, ClaimInsertSide, ClaimCount, AddMailboxCount,
        AddMailboxInsert, MapGet, MapPut, OpenSelectSide, OpenInsertSide,
        OpenTouch, OpenCount, ReleaseSelect, ReleaseSelectSide, ReleaseUpdate,
        ReleaseCount, ReleaseDeleteSides, ReleaseDelete, AddInsert,
        AddBroadcast, AddTouch, CloseSelect, Goto, Fail
  <2> QED
    BY <1>2, <2>1, <2>2, <2>3, NameplateSteps, NameplateKept
<1> QED
  BY <1>1, <1>2

\* A call starts with no nameplate.
LEMMA ClientNameplates ==
  ASSUME IInv, NameplateInv, NEW c \in Conns, Begins(c) \/ Ends(c)
  PROVE  NameplateInv'
<1>1. frame \in [Conns -> FrameType] /\ frame[c] \in FrameType
  BY DEF IInv, TypeOK, ApplicationTypeOK
<1>2. npSeq' = npSeq /\ nameplates' = nameplates
  BY DEF Begins, HandleBind, HandleAllocate, HandleClaim, HandleRelease,
         HandleOpen, HandleAdd, HandleClose, Begin, Ends, GetAppInsert,
         Allocated, Claimed, Released, Opened, Added, Reopened, Closed, Finish,
         store
<1>3. ASSUME NEW f, Move(c, f), f.np = 0 PROVE NameplateInv'
  <2>1. frame'[c] = f /\ \A d \in Conns \ {c} : frame'[d] = frame[d]
    BY <1>3, AfterMove
  <2> QED
    BY <1>2, <1>3, <2>1, NameplateKept DEF Forgets
<1>4. /\ \A cmd, step : CallFrame(c, cmd, step).np = 0
                        /\ DOMAIN CallFrame(c, cmd, step) = DOMAIN Idle
      /\ {"np", "name", "side", "mailbox", "box", "msg"} \subseteq DOMAIN Idle
      /\ Idle.np = 0
  BY DEF CallFrame, Idle
<1>5. CASE HandleAllocate(c)
  BY <1>3, <1>4, <1>5 DEF HandleAllocate, Begin
<1>6. CASE HandleClaim(c)
  <2>1. PICK n : Move(c, [CallFrame(c, "claim", "np_select")
                            EXCEPT !.name = n, !.side = n])
    BY <1>6 DEF HandleClaim, Begin
  <2> DEFINE f == [CallFrame(c, "claim", "np_select")
                     EXCEPT !.name = n, !.side = n]
  <2>2. f.np = 0
    BY <1>4
  <2> HIDE DEF f
  <2> QED
    BY <1>3, <2>1, <2>2 DEF f
<1>7. CASE HandleRelease(c)
  <2> DEFINE f == [CallFrame(c, "release", "rel_np")
                     EXCEPT !.name = sess[c].nameplate]
  <2>1. Move(c, f) /\ f.np = 0
    BY <1>4, <1>7 DEF HandleRelease, Begin
  <2> HIDE DEF f
  <2> QED
    BY <1>3, <2>1
<1>8. ASSUME NEW cmd, NEW id,
             Begin(c, [CallFrame(c, cmd, "mb_count") EXCEPT !.mailbox = id])
      PROVE  NameplateInv'
  <2> DEFINE f == [CallFrame(c, cmd, "mb_count") EXCEPT !.mailbox = id]
  <2>1. Move(c, f) /\ f.np = 0
    BY <1>4, <1>8 DEF Begin
  <2> HIDE DEF f
  <2> QED
    BY <1>3, <2>1
<1>9. CASE HandleAdd(c)
  <2>1. PICK m : Move(c, [CallFrame(c, "add", "add_insert")
                            EXCEPT !.box = sess[c].mailbox, !.msg = m])
    BY <1>9 DEF HandleAdd, Begin
  <2> DEFINE f == [CallFrame(c, "add", "add_insert")
                     EXCEPT !.box = sess[c].mailbox, !.msg = m]
  <2>2. f.np = 0
    BY <1>4
  <2> HIDE DEF f
  <2> QED
    BY <1>3, <2>1, <2>2 DEF f
<1>10. CASE HandleClose(c) /\ sess[c].mailbox # None
  <2> DEFINE f == [CallFrame(c, "close", "close_select")
                     EXCEPT !.box = sess[c].mailbox]
  <2>1. Move(c, f) /\ f.np = 0
    BY <1>4, <1>10 DEF HandleClose, Begin
  <2> HIDE DEF f
  <2> QED
    BY <1>3, <2>1
<1>11. CASE HandleOpen(c) \/ (HandleClose(c) /\ sess[c].mailbox = None)
  BY <1>8, <1>11 DEF HandleOpen, HandleClose
<1>12. CASE HandleBind(c)
  <2>1. CASE frame' = frame
    BY <1>2, <2>1 DEF NameplateInv, ClaimsAgree
  <2>2. CASE frame' # frame
    <3>1. PICK a, s :
            Move(c, [Idle EXCEPT !.pc = "apps_put", !.app = a, !.side = s])
      BY <1>12, <2>2 DEF HandleBind
    <3> DEFINE f == [Idle EXCEPT !.pc = "apps_put", !.app = a, !.side = s]
    <3>2. f.np = 0
      BY DEF Idle
    <3> HIDE DEF f
    <3> QED
      BY <1>3, <3>1, <3>2 DEF f
  <2> QED
    BY <2>1, <2>2
<1>13. CASE Reopened(c)
  <2> DEFINE f == [frame[c] EXCEPT !.cmd = "close", !.pc = "close_select"]
  <2>1. Move(c, f) /\ frame[c].cmd = "reopen"
    BY <1>13 DEF Reopened
  <2>2. /\ f.np = frame[c].np /\ f.app = frame[c].app /\ f.cmd = "close"
        /\ f.name = frame[c].name /\ f.mailbox = frame[c].mailbox
        /\ f.pc = "close_select"
    BY <1>1 DEF FrameType
  <2> HIDE DEF f
  <2>3. frame'[c] = f /\ \A d \in Conns \ {c} : frame'[d] = frame[d]
    BY <2>1, AfterMove
  <2>4. \A d \in Conns : /\ frame'[d].np = frame[d].np
                         /\ frame'[d].app = frame[d].app
                         /\ frame'[d].name = frame[d].name
                         /\ frame'[d].mailbox = frame[d].mailbox
                         /\ Claims(d)' <=> Claims(d)
                         /\ frame'[d].pc \in {"find", "np_select"} =>
                              frame'[d].pc = frame[d].pc
    BY <2>1, <2>2, <2>3 DEF Claims
  <2>5. ClaimsAgree'
    BY <1>2, <2>4 DEF NameplateInv, ClaimsAgree, Claims
  <2> QED
    BY <1>2, <2>4, <2>5 DEF NameplateInv
<1>14. CASE Ends(c) /\ ~Reopened(c)
  <2>1. Fail(c)
    BY <1>14 DEF Ends, GetAppInsert, Allocated, Claimed, Released, Opened,
                 Added, Closed, Finish
  <2> QED
    BY <1>3, <1>4, <2>1 DEF Fail
<1> QED
  BY <1>5, <1>6, <1>7, <1>9, <1>10, <1>11, <1>12, <1>13, <1>14 DEF Begins

LEMMA NextNameplates == IInv /\ NameplateInv /\ [Next]_vars => NameplateInv'
<1> SUFFICES ASSUME IInv, NameplateInv, [Next]_vars PROVE NameplateInv'
  OBVIOUS
<1>1. CASE Restart
  <2>1. \A c \in Conns : frame'[c].np = 0
    BY <1>1 DEF Restart, Idle
  <2>2. npSeq' = npSeq /\ nameplates' = nameplates
    BY <1>1 DEF Restart, store
  <2>3. npSeq \in Nat
    BY DEF IInv, TypeOK, StoreTypeOK
  <2> QED
    BY <2>1, <2>2, <2>3 DEF NameplateInv, ClaimsAgree
<1>2. ASSUME NEW c \in Conns, Disconnect(c) PROVE NameplateInv'
  <2>1. UNCHANGED <<npSeq, nameplates, frame>>
    BY <1>2 DEF Disconnect, store
  <2> QED
    BY <2>1 DEF NameplateInv, ClaimsAgree
<1>3. CASE UNCHANGED vars
  BY <1>3 DEF NameplateInv, ClaimsAgree, vars, store, application
<1> QED
  BY <1>1, <1>2, <1>3, ApplicationNameplates, ClientNameplates
  DEF Next, Crash, AllocatePanics

\* Whatever is released, claimed anew or crashes between the statements of a
\* handler, the id of a nameplate it holds leads to the nameplate it looked
\* up or to none, and whoever claims one id opens one mailbox.
THEOREM Agreement == Spec => []ClaimsAgree
<1>1. Init => NameplateInv
  BY DEF Init, StoreInit, ApplicationInit, NameplateInv, ClaimsAgree, Idle
<1>2. NameplateInv => ClaimsAgree
  BY DEF NameplateInv
<1> QED
  BY <1>1, <1>2, NextNameplates, Invariance, PTL DEF Spec

=============================================================================
