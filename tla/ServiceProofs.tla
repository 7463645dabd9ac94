--------------------------- MODULE ServiceProofs ---------------------------
(***************************************************************************)
(* The handlers implement MailboxService, for every number of clients,     *)
(* applications, mailboxes and messages, whatever statement fails but one. *)
(*                                                                         *)
(* Each step of a handler is Bind, Create, Admit, Store or Deliver, or     *)
(* none of the service's business.  That the step's guard holds is what    *)
(* IInv (RendezvousProofs) and GrantedInv (CapacityProofs) say of the      *)
(* handler's locals; MemberInv adds who may store.                         *)
(***************************************************************************)
EXTENDS CapacityProofs

\* Who adds a message or holds a mailbox was let into it.
MemberInv ==
  \A c \in Conns :
    /\ frame[c].pc \in HeldSteps => LetIn(frame[c].box.id, c)
    /\ sess[c].mailbox # None => LetIn(sess[c].mailbox.id, c)

ServiceStep == [Service!Next]_(Service!service)

-----------------------------------------------------------------------------
(* Where a step leads its handler. *)

\* One client's step, when it is known where that leads the client.
LEMMA MemberStep ==
  ASSUME MemberInv, NEW c \in Conns, granted \subseteq granted',
         \A d \in Conns \ {c} : frame'[d] = frame[d] /\ sess'[d] = sess[d],
         frame'[c].pc \in HeldSteps => LetIn(frame'[c].box.id, c),
         sess'[c].mailbox # None => LetIn(sess'[c].mailbox.id, c)
  PROVE  MemberInv'
BY DEF MemberInv, LetIn

USE DEF HeldSteps, AddMessageSteps

\* Only AddMessage's own steps lead from one of them to the next.
LEMMA NotHeld ==
  ASSUME IInv, NEW c \in Conns, ApplicationStep(c),
         ~AddInsert(c), ~AddBroadcast(c)
  PROVE  frame'[c].pc \notin HeldSteps
<1>1. frame \in [Conns -> FrameType] /\ frame[c] \in FrameType
  BY DEF IInv, TypeOK, ApplicationTypeOK
<1>2. ASSUME NEW step, Goto(c, step) PROVE frame'[c].pc = step
  BY <1>1, <1>2 DEF Goto, Move, FrameType
<1>3. Fail(c) => frame'[c].pc = "idle"
  BY <1>1 DEF Fail, Move, Idle
<1>4. CASE FindNameplate(c)
  BY <1>1, <1>4 DEF FindNameplate, Move, FrameType
<1>5. CASE ClaimSelect(c)
  <2>1. ASSUME NEW n, NEW id,
               Move(c, [frame[c] EXCEPT !.np = n, !.mailbox = id,
                                        !.pc = "nps_select"])
        PROVE  frame'[c].pc = "nps_select"
    BY <1>1, <2>1 DEF Move, FrameType
  <2>2. ASSUME NEW id, Move(c, [frame[c] EXCEPT !.mailbox = id,
                                  !.then = "np_insert", !.pc = "mb_count"])
        PROVE  frame'[c].pc = "mb_count"
    BY <1>1, <2>2 DEF Move, FrameType
  <2> QED
    BY <1>5, <2>1, <2>2 DEF ClaimSelect
<1>6. CASE ClaimInsertNameplate(c)
  BY <1>1, <1>6 DEF ClaimInsertNameplate, Move, FrameType
<1>7. CASE ClaimInsertSide(c)
  BY <1>1, <1>7 DEF ClaimInsertSide, Move, FrameType
<1>8. CASE ClaimSelectSide(c)
  <2>1. CASE Move(c, [frame[c] EXCEPT !.then = "map_get", !.pc = "mb_count"])
    BY <1>1, <2>1 DEF Move, FrameType
  <2> QED
    BY <1>2, <1>3, <1>8, <2>1 DEF ClaimSelectSide
<1>9. CASE ClaimCount(c)
  BY <1>2, <1>3, <1>9 DEF ClaimCount
<1>10. CASE AddMailboxCount(c) \/ AddMailboxInsert(c)
  <2>1. frame[c].then \in {"idle", "np_insert", "map_get"}
    BY <1>1 DEF FrameType
  <2> QED
    BY <1>2, <1>3, <1>10, <2>1 DEF AddMailboxCount, AddMailboxInsert
<1>11. CASE MapGet(c)
  <2>1. CASE Goto(c, "map_put")
    BY <1>2, <2>1
  <2>2. CASE ~Goto(c, "map_put")
    <3>1. PICK b : Move(c, [frame[c] EXCEPT !.box = b, !.pc = "mbs_select"])
      BY <1>11, <2>2 DEF MapGet
    <3> QED
      BY <1>1, <3>1 DEF Move, FrameType
  <2> QED
    BY <2>1, <2>2
<1>12. CASE MapPut(c)
  BY <1>1, <1>12 DEF MapPut, Move, FrameType
<1>13. CASE OpenSelectSide(c) \/ OpenInsertSide(c) \/ OpenTouch(c)
  BY <1>2, <1>13 DEF OpenSelectSide, OpenInsertSide, OpenTouch
<1>14. CASE OpenCount(c)
  <2>1. Goto(c, "nps_count") \/ Goto(c, "ok") \/ Fail(c)
    BY <1>14 DEF OpenCount
  <2> QED
    BY <1>2, <1>3, <2>1
<1>15. CASE ReleaseSelect(c)
  <2>1. CASE Goto(c, "ok")
    BY <1>2, <2>1
  <2>2. CASE ~Goto(c, "ok")
    <3>1. PICK n : Move(c, [frame[c] EXCEPT !.np = n, !.pc = "rel_side"])
      BY <1>15, <2>2 DEF ReleaseSelect
    <3> QED
      BY <1>1, <3>1 DEF Move, FrameType
  <2> QED
    BY <2>1, <2>2
<1>16. CASE ReleaseStep(c) /\ ~ReleaseSelect(c)
  BY <1>2, <1>16
  DEF ReleaseStep, ReleaseSelectSide, ReleaseUpdate, ReleaseCount,
      ReleaseDeleteSides, ReleaseDelete
<1>17. CASE AddTouch(c) \/ CloseSelect(c) \/ StatementFails(c)
  BY <1>2, <1>3, <1>17 DEF AddTouch, CloseSelect, StatementFails
<1> QED
  BY <1>4, <1>5, <1>6, <1>7, <1>8, <1>9, <1>10, <1>11, <1>12, <1>13, <1>14,
     <1>15, <1>16, <1>17
  DEF ApplicationStep, AllocateOrClaimStep, OpenStep, MessageOrCloseStep

\* No step of the application touches a Client object, another handler, or
\* takes a grant back.
LEMMA StepFrame ==
  ASSUME IInv, NEW c \in Conns, ApplicationStep(c)
  PROVE  /\ sess' = sess /\ granted \subseteq granted'
         /\ \A d \in Conns \ {c} : frame'[d] = frame[d]
<1>1. ASSUME NEW f, Move(c, f) PROVE \A d \in Conns \ {c} : frame'[d] = frame[d]
  BY <1>1 DEF Move, IInv, TypeOK, ApplicationTypeOK
<1>2. ASSUME NEW step, Goto(c, step)
      PROVE  \A d \in Conns \ {c} : frame'[d] = frame[d]
  BY <1>1, <1>2 DEF Goto
<1>3. Fail(c) => \A d \in Conns \ {c} : frame'[d] = frame[d]
  BY <1>1 DEF Fail
<1>4. CASE AllocateOrClaimStep(c)
  BY <1>1, <1>2, <1>3, <1>4
  DEF AllocateOrClaimStep, FindNameplate, ClaimSelect, ClaimInsertNameplate,
      ClaimSelectSide, ClaimInsertSide, ClaimCount, Memory, History
<1>5. CASE OpenStep(c)
  BY <1>1, <1>2, <1>3, <1>5
  DEF OpenStep, AddMailboxCount, AddMailboxInsert, MapGet, MapPut,
      OpenSelectSide, OpenInsertSide, OpenTouch, OpenCount, Memory, History
<1>6. CASE ReleaseStep(c)
  BY <1>1, <1>2, <1>3, <1>6
  DEF ReleaseStep, ReleaseSelect, ReleaseSelectSide, ReleaseUpdate,
      ReleaseCount, ReleaseDeleteSides, ReleaseDelete, Memory, History
<1>7. CASE MessageOrCloseStep(c) \/ StatementFails(c)
  BY <1>1, <1>2, <1>3, <1>7
  DEF MessageOrCloseStep, AddInsert, AddBroadcast, AddTouch, CloseSelect,
      StatementFails, Memory, History
<1> QED
  BY <1>4, <1>5, <1>6, <1>7 DEF ApplicationStep

-----------------------------------------------------------------------------
(* MemberInv is invariant. *)

LEMMA AddFollows ==
  ASSUME IInv, NEW c \in Conns, AddInsert(c) \/ AddBroadcast(c)
  PROVE  frame[c].pc \in HeldSteps /\ frame'[c].box = frame[c].box
<1>1. frame \in [Conns -> FrameType] /\ frame[c] \in FrameType
  BY DEF IInv, TypeOK, ApplicationTypeOK
<1>2. ASSUME NEW step, Goto(c, step) PROVE frame'[c].box = frame[c].box
  BY <1>1, <1>2 DEF Goto, Move, FrameType
<1> QED
  BY <1>2 DEF AddInsert, AddBroadcast, At

LEMMA ApplicationMembers ==
  ASSUME IInv, MemberInv, NEW c \in Conns, ApplicationStep(c)
  PROVE  MemberInv'
<1>1. /\ sess' = sess /\ granted \subseteq granted'
      /\ \A d \in Conns \ {c} : frame'[d] = frame[d]
  BY StepFrame
<1>2. frame'[c].pc \in HeldSteps => LetIn(frame'[c].box.id, c)
  <2>1. CASE AddInsert(c) \/ AddBroadcast(c)
    BY <2>1, AddFollows DEF MemberInv
  <2> QED
    BY <2>1, NotHeld
<1> QED
  BY <1>1, <1>2, MemberStep DEF MemberInv

LEMMA BeginsMembers ==
  ASSUME IInv, MemberInv, NEW c \in Conns, Begins(c)
  PROVE  MemberInv'
<1>1. granted' = granted
  BY DEF Begins, HandleBind, HandleAllocate, HandleClaim, HandleRelease,
         HandleOpen, HandleAdd, HandleClose, Begin, History
<1>2. frame \in [Conns -> FrameType] /\ sess \in [Conns -> SessType]
  BY DEF IInv, TypeOK, ApplicationTypeOK
<1>3. ASSUME NEW f, Begin(c, f),
             f.pc \in HeldSteps => f.box = sess[c].mailbox /\ f.box # None
      PROVE  MemberInv'
  <2>1. /\ frame'[c] = f /\ sess' = sess
        /\ \A d \in Conns \ {c} : frame'[d] = frame[d]
    BY <1>2, <1>3 DEF Begin, Move, Memory
  <2> QED
    BY <1>1, <1>3, <2>1, MemberStep DEF MemberInv
<1>4. \A cmd, step : CallFrame(c, cmd, step).pc = step
                     /\ DOMAIN CallFrame(c, cmd, step) = DOMAIN Idle
  BY DEF CallFrame, Idle
<1>5. {"pc", "box"} \subseteq DOMAIN Idle
  BY DEF Idle
<1>6. CASE HandleBind(c)
  <2>1. /\ \A d \in Conns \ {c} : frame'[d] = frame[d] /\ sess'[d] = sess[d]
        /\ frame'[c] = frame[c] \/ frame'[c].pc = "apps_put"
        /\ sess'[c].mailbox = sess[c].mailbox
    <3>1. PICK a, s :
            \/ BindTo(c, a, s, apps[a]) /\ frame' = frame
            \/ /\ Move(c, [Idle EXCEPT !.pc = "apps_put", !.app = a, !.side = s])
               /\ sess' = sess
      BY <1>6 DEF HandleBind
    <3>2. CASE BindTo(c, a, s, apps[a]) /\ frame' = frame
      BY <1>2, <3>2 DEF BindTo, SessType
    <3>3. CASE /\ Move(c, [Idle EXCEPT !.pc = "apps_put", !.app = a, !.side = s])
               /\ sess' = sess
      BY <1>2, <3>3 DEF Move, Idle
    <3> QED
      BY <3>1, <3>2, <3>3
  <2> QED
    BY <1>1, <2>1, MemberStep DEF MemberInv
<1>7. CASE HandleAllocate(c)
  BY <1>3, <1>4, <1>7 DEF HandleAllocate
<1>8. CASE HandleClaim(c)
  <2>1. PICK n : Begin(c, [CallFrame(c, "claim", "np_select")
                             EXCEPT !.name = n, !.side = n])
    BY <1>8 DEF HandleClaim
  <2> DEFINE f == [CallFrame(c, "claim", "np_select")
                     EXCEPT !.name = n, !.side = n]
  <2>2. f.pc = "np_select"
    BY <1>4, <1>5
  <2> HIDE DEF f
  <2> QED
    BY <1>3, <2>1, <2>2 DEF f
<1>9. CASE HandleRelease(c)
  <2> DEFINE f == [CallFrame(c, "release", "rel_np")
                     EXCEPT !.name = sess[c].nameplate]
  <2>1. Begin(c, f) /\ f.pc = "rel_np"
    BY <1>4, <1>5, <1>9 DEF HandleRelease
  <2> HIDE DEF f
  <2> QED
    BY <1>3, <2>1
<1>10. ASSUME NEW cmd, NEW id,
              Begin(c, [CallFrame(c, cmd, "mb_count") EXCEPT !.mailbox = id])
       PROVE  MemberInv'
  <2> DEFINE f == [CallFrame(c, cmd, "mb_count") EXCEPT !.mailbox = id]
  <2>1. Begin(c, f) /\ f.pc = "mb_count"
    BY <1>4, <1>5, <1>10
  <2> HIDE DEF f
  <2> QED
    BY <1>3, <2>1
<1>11. CASE HandleAdd(c)
  <2>1. PICK m : Begin(c, [CallFrame(c, "add", "add_insert")
                             EXCEPT !.box = sess[c].mailbox, !.msg = m])
    BY <1>11 DEF HandleAdd
  <2> DEFINE f == [CallFrame(c, "add", "add_insert")
                     EXCEPT !.box = sess[c].mailbox, !.msg = m]
  <2>2. f.box = sess[c].mailbox /\ f.box # None
    BY <1>4, <1>5, <1>11 DEF HandleAdd
  <2> HIDE DEF f
  <2> QED
    BY <1>3, <2>1, <2>2 DEF f
<1>12. CASE HandleClose(c) /\ sess[c].mailbox # None
  <2> DEFINE f == [CallFrame(c, "close", "close_select")
                     EXCEPT !.box = sess[c].mailbox]
  <2>1. Begin(c, f) /\ f.box = sess[c].mailbox /\ f.box # None
    BY <1>4, <1>5, <1>12 DEF HandleClose
  <2> HIDE DEF f
  <2> QED
    BY <1>3, <2>1
<1>13. CASE HandleOpen(c) \/ (HandleClose(c) /\ sess[c].mailbox = None)
  BY <1>10, <1>13 DEF HandleOpen, HandleClose
<1> QED
  BY <1>6, <1>7, <1>8, <1>9, <1>11, <1>12, <1>13 DEF Begins

LEMMA EndsMembers ==
  ASSUME IInv, MemberInv, NEW c \in Conns, Ends(c)
  PROVE  MemberInv'
<1>1. granted' = granted
  BY DEF Ends, GetAppInsert, Allocated, Claimed, Released, Opened, Added,
         Reopened, Closed, Finish, History
<1>2. /\ frame \in [Conns -> FrameType] /\ sess \in [Conns -> SessType]
      /\ frame[c] \in FrameType /\ sess[c] \in SessType
  BY DEF IInv, TypeOK, ApplicationTypeOK
<1>3. \A d \in Conns \ {c} : frame'[d] = frame[d] /\ sess'[d] = sess[d]
  BY <1>2
  DEF Ends, GetAppInsert, Allocated, Claimed, Released, Opened, Added,
      Reopened, Closed, Finish, Fail, Move, BindTo
<1>4. CASE Reopened(c)
  <2>1. frame'[c].box = frame[c].box /\ sess'[c].mailbox = frame[c].box
    BY <1>2, <1>4 DEF Reopened, Move, FrameType, SessType
  <2>2. LetIn(frame[c].box.id, c)
    BY <1>4, Here DEF Reopened, At, FrameInv, FrameOpen
  <2> QED
    BY <1>1, <1>3, <2>1, <2>2, MemberStep
<1>5. CASE Opened(c)
  <2>1. frame'[c].pc = "idle" /\ sess'[c].mailbox = frame[c].box
    BY <1>2, <1>5 DEF Opened, Finish, Fail, Move, Idle, SessType
  <2>2. LetIn(frame[c].box.id, c)
    BY <1>5, Here DEF Opened, Finish, At, FrameInv, FrameOpen
  <2> QED
    BY <1>1, <1>3, <2>1, <2>2, MemberStep
<1>6. CASE ~Reopened(c) /\ ~Opened(c)
  <2>1. frame'[c].pc = "idle"
    BY <1>2, <1>6
    DEF Ends, GetAppInsert, Allocated, Claimed, Released, Added, Closed,
        Finish, Fail, Move, Idle
  <2>2. sess'[c].mailbox \in {sess[c].mailbox, None}
    BY <1>2, <1>6
    DEF Ends, GetAppInsert, Allocated, Claimed, Released, Added, Closed,
        Finish, BindTo, SessType
  <2> QED
    BY <1>1, <1>3, <2>1, <2>2, MemberStep DEF MemberInv
<1> QED
  BY <1>4, <1>5, <1>6

LEMMA MembersInit == Init => MemberInv
BY DEF Init, ApplicationInit, MemberInv, Idle, NewClient

LEMMA MembersNext == IInv /\ MemberInv /\ [Next]_vars => MemberInv'
<1> SUFFICES ASSUME IInv, MemberInv, [Next]_vars PROVE MemberInv'
  OBVIOUS
<1>1. CASE Restart
  <2>1. /\ \A c \in Conns : frame'[c].pc = "idle"
        /\ \A c \in Conns : sess'[c].mailbox \in {sess[c].mailbox, None}
        /\ granted' = granted
    BY <1>1, DepartedFields DEF Restart, Idle, History
  <2> QED
    BY <2>1 DEF MemberInv, LetIn
<1>2. ASSUME NEW c \in Conns, Disconnect(c) PROVE MemberInv'
  <2>1. /\ frame' = frame /\ granted' = granted
        /\ sess' = [sess EXCEPT ![c] = Departed(c)]
    BY <1>2 DEF Disconnect, History
  <2>2. /\ \A d \in Conns \ {c} : sess'[d] = sess[d]
        /\ sess'[c].mailbox = None
    BY <2>1, DepartedFields DEF IInv, TypeOK
  <2> QED
    BY <2>1, <2>2, MemberStep DEF MemberInv
<1>3. CASE UNCHANGED vars
  BY <1>3 DEF MemberInv, LetIn, vars, application
<1> QED
  BY <1>1, <1>2, <1>3, ApplicationMembers, BeginsMembers, EndsMembers
  DEF Next, Crash, AllocatePanics

-----------------------------------------------------------------------------
(* Every step is one of the service's, or none. *)

\* A step that the service does not see.
LEMMA Unseen ==
  ASSUME \A c \in Conns : sess'[c].app = sess[c].app,
         UNCHANGED <<mailboxes, granted, messages, received>>
  PROVE  ServiceStep
<1>1. [c \in Conns |-> sess'[c].app] = [c \in Conns |-> sess[c].app]
  OBVIOUS
<1> QED
  BY <1>1 DEF ServiceStep, Service!service

LEMMA UnseenStore ==
  ASSUME UNCHANGED <<store, sess, granted, received>>
  PROVE  ServiceStep
<1>1. UNCHANGED <<mailboxes, messages, sess>>
  BY DEF store
<1> QED
  BY <1>1, Unseen

LEMMA BindIsBind ==
  ASSUME IInv, NEW c \in Conns, NEW a \in AppIDs, NEW s, NEW k,
         sess[c].app = None, BindTo(c, a, s, k),
         UNCHANGED <<store, granted, received>>
  PROVE  ServiceStep
<1>1. sess \in [Conns -> SessType]
  BY DEF IInv, TypeOK
<1>2. /\ \A d \in Conns \ {c} : sess'[d] = sess[d]
      /\ sess'[c].app = a
  BY <1>1 DEF BindTo, SessType
<1>3. [d \in Conns |-> sess'[d].app]
        = [[d \in Conns |-> sess[d].app] EXCEPT ![c] = a]
  BY <1>2
<1>4. UNCHANGED <<mailboxes, messages>>
  BY DEF store
<1>5. Service!Bind(c, a)
  BY <1>3, <1>4 DEF Service!Bind
<1> QED
  BY <1>5 DEF ServiceStep, Service!Next

LEMMA OwnedGrows ==
  ASSUME NEW R, NEW q
  PROVE  {[id |-> r.id, app |-> r.app] : r \in R \cup {q}}
           = {[id |-> r.id, app |-> r.app] : r \in R}
               \cup {[id |-> q.id, app |-> q.app]}
OBVIOUS

LEMMA InsertIsCreate ==
  ASSUME IInv, NEW c \in Conns, AddMailboxInsert(c)
  PROVE  ServiceStep
<1>1. PICK f : f = frame[c]
  OBVIOUS
<1>2. f.pc = "mb_insert" /\ UNCHANGED <<sess, granted, messages, received>>
  BY <1>1 DEF AddMailboxInsert, At, Memory, History
<1>3. CASE mailboxes' = mailboxes
  BY <1>2, <1>3, Unseen
<1>4. CASE mailboxes' # mailboxes
  <2>1. /\ \A r \in mailboxes : r.id # f.mailbox
        /\ mailboxes' = mailboxes \cup
             {[id |-> f.mailbox, app |-> f.app, updated |-> now]}
    BY <1>1, <1>4 DEF AddMailboxInsert
  <2>2. /\ f.mailbox \in MailboxIDs /\ f.app = sess[c].app /\ f.app \in AppIDs
        /\ f.app # None
    BY <1>1, <1>2, Here, StoreAssumption
    DEF FrameInv, FrameBound, FrameOpen, IdSteps, AddSteps
  <2>3. {[id |-> r.id, app |-> r.app] : r \in mailboxes'}
          = {[id |-> r.id, app |-> r.app] : r \in mailboxes}
              \cup {[id |-> f.mailbox, app |-> sess[c].app]}
    <3>1. PICK q : q = [id |-> f.mailbox, app |-> f.app, updated |-> now]
      OBVIOUS
    <3>2. q.id = f.mailbox /\ q.app = sess[c].app /\ mailboxes' = mailboxes \cup {q}
      BY <2>1, <2>2, <3>1
    <3> QED
      BY <3>2, OwnedGrows
  <2>4. Service!Create(c, f.mailbox)
    BY <1>2, <2>1, <2>2, <2>3 DEF Service!Create
  <2> QED
    BY <2>2, <2>4 DEF ServiceStep, Service!Next
<1> QED
  BY <1>3, <1>4

\* The row that AddMailbox found or inserted says whose the mailbox is.
LEMMA RowOwned ==
  ASSUME NEW id, NEW a, HasRow(id, a)
  PROVE  [id |-> id, app |-> a]
           \in {[id |-> r.id, app |-> r.app] : r \in mailboxes}
BY DEF HasRow

LEMMA CountIsAdmit ==
  ASSUME IInv, MailboxCapacity', NEW c \in Conns, OpenCount(c)
  PROVE  ServiceStep
<1>1. PICK f : f = frame[c]
  OBVIOUS
<1>2. /\ f.pc = "mbs_count"
      /\ UNCHANGED <<store, sess, received>> /\ UNCHANGED <<mailboxes, messages>>
  BY <1>1 DEF OpenCount, At, Memory, store
<1>3. CASE granted' = granted
  BY <1>2, <1>3, UnseenStore
<1>4. CASE granted' # granted
  <2> DEFINE g == [mailbox |-> f.mailbox, side |-> f.side, by |-> c]
  <2>1. granted' = granted \cup {g}
    BY <1>1, <1>4 DEF OpenCount
  <2>2. /\ f.mailbox \in MailboxIDs /\ f.app = sess[c].app
        /\ f.side \in StoredSides /\ HasRow(f.mailbox, f.app)
    BY <1>1, <1>2, Here
    DEF FrameInv, FrameBound, FrameOpen, IdSteps, RowSteps
  <2>3. [id |-> f.mailbox, app |-> sess[c].app]
          \in {[id |-> r.id, app |-> r.app] : r \in mailboxes}
    BY <2>2, RowOwned
  <2>4. ASSUME NEW m \in granted, NEW n \in granted,
               m.mailbox = f.mailbox, n.mailbox = f.mailbox
        PROVE  m.side = n.side \/ n.side = f.side \/ m.side = f.side
    <3>1. g \in granted' /\ g.mailbox = f.mailbox /\ g.side = f.side
      BY <2>1
    <3>2. m \in granted' /\ n \in granted'
      BY <2>1
    <3> HIDE DEF g
    <3> QED
      BY <2>4, <3>1, <3>2 DEF MailboxCapacity
  <2>5. Service!Admit(c, f.mailbox, f.side)
    BY <1>2, <2>1, <2>3, <2>4 DEF Service!Admit
  <2> QED
    BY <2>2, <2>5 DEF ServiceStep, Service!Next
<1> QED
  BY <1>3, <1>4

LEMMA InsertIsStore ==
  ASSUME IInv, MemberInv, NEW c \in Conns, AddInsert(c)
  PROVE  ServiceStep
<1>1. PICK f : f = frame[c]
  OBVIOUS
<1>2. f.pc = "add_insert" /\ UNCHANGED <<mailboxes, sess, granted, received>>
  BY <1>1 DEF AddInsert, At, Memory, History
<1>3. messages' = messages \cup {[app |-> f.app, mailbox |-> f.box.id,
                                  side |-> f.side, msg |-> f.msg]}
  BY <1>1 DEF AddInsert
<1>4. /\ f.app = sess[c].app /\ f.box.id \in MailboxIDs /\ f.msg \in Msgs
      /\ f.side \in Sides /\ HasRow(f.box.id, f.app) /\ LetIn(f.box.id, c)
  BY <1>1, <1>2, Here
  DEF MemberInv, FrameInv, FrameBound, FrameHeld, BoxRefs
<1>5. [id |-> f.box.id, app |-> sess[c].app]
        \in {[id |-> r.id, app |-> r.app] : r \in mailboxes}
  BY <1>4, RowOwned
<1>6. Service!Store(c, f.box.id, f.side, f.msg)
  BY <1>2, <1>3, <1>4, <1>5 DEF Service!Store, Service!IsMember, LetIn
<1>7. f.side \in StoredSides
  BY <1>4 DEF StoredSides
<1> QED
  BY <1>4, <1>6, <1>7 DEF ServiceStep, Service!Next

LEMMA BroadcastIsDeliver ==
  ASSUME IInv, NEW c \in Conns, AddBroadcast(c)
  PROVE  ServiceStep
<1>1. PICK f : f = frame[c]
  OBVIOUS
<1>2. /\ f.pc = "broadcast"
      /\ UNCHANGED <<mailboxes, messages, sess, granted>>
  BY <1>1 DEF AddBroadcast, At, Memory, store
<1> DEFINE m == [app |-> f.app, mailbox |-> f.box.id, side |-> f.side,
                 msg |-> f.msg]
           told == {l \in listeners : l.box = f.box /\ l.conn \notin gone}
           to == {l.conn : l \in told}
<1>3. m \in messages /\ HasRow(f.box.id, f.app)
  BY <1>1, <1>2, Here DEF FrameInv, FrameHeld
<1>4. ASSUME NEW l \in told
      PROVE  /\ l.conn \in Conns /\ sess[l.conn].app = f.app
             /\ LetIn(f.box.id, l.conn)
  <2>1. l \in listeners /\ l.box = f.box
    OBVIOUS
  <2>2. l.conn \in Conns
    BY <2>1 DEF IInv, TypeOK, ApplicationTypeOK
  <2>3. HasRow(f.box.id, sess[l.conn].app) /\ LetIn(f.box.id, l.conn)
    BY <2>1 DEF IInv, ListenersInv
  <2> QED
    BY <1>3, <2>2, <2>3 DEF HasRow, IInv, TablesInv
<1>5. received' = received \cup
        { [to |-> d, app |-> m.app, mailbox |-> m.mailbox, msg |-> m.msg] :
          d \in to }
  BY <1>1 DEF AddBroadcast
<1>6. \A d \in to : d \in Conns /\ sess[d].app = f.app /\ LetIn(f.box.id, d)
  BY <1>4
<1>7. m.app = f.app /\ m.mailbox = f.box.id
  OBVIOUS
<1> HIDE DEF m, to
<1>8. Service!Deliver(m, to)
  BY <1>2, <1>3, <1>5, <1>6, <1>7 DEF Service!Deliver, Service!IsMember, LetIn
<1>9. to \in SUBSET Conns
  BY <1>6
<1> QED
  BY <1>3, <1>8, <1>9 DEF ServiceStep, Service!Next

LEMMA ApplicationServes ==
  ASSUME IInv, MemberInv, MailboxCapacity', NEW c \in Conns, ApplicationStep(c)
  PROVE  ServiceStep
<1>1. CASE AllocateOrClaimStep(c)
  <2>1. UNCHANGED <<mailboxes, messages, sess, granted, received>>
    BY <1>1
    DEF AllocateOrClaimStep, FindNameplate, ClaimSelect, ClaimInsertNameplate,
        ClaimSelectSide, ClaimInsertSide, ClaimCount, Memory, History, store
  <2> QED
    BY <2>1, Unseen
<1>2. CASE OpenStep(c) /\ ~AddMailboxInsert(c) /\ ~OpenCount(c)
  <2>1. \A id : Touched(id) = mailboxes
    BY TouchedIsSame DEF IInv, TypeOK
  <2>2. UNCHANGED <<mailboxes, messages, sess, granted, received>>
    BY <1>2, <2>1
    DEF OpenStep, AddMailboxCount, MapGet, MapPut, OpenSelectSide,
        OpenInsertSide, OpenTouch, Memory, History, store
  <2> QED
    BY <2>2, Unseen
<1>3. CASE ReleaseStep(c) \/ CloseSelect(c) \/ StatementFails(c)
  <2>1. UNCHANGED <<mailboxes, messages, sess, granted, received>>
    BY <1>3
    DEF ReleaseStep, ReleaseSelect, ReleaseSelectSide, ReleaseUpdate,
        ReleaseCount, ReleaseDeleteSides, ReleaseDelete, CloseSelect,
        StatementFails, Memory, History, store
  <2> QED
    BY <2>1, Unseen
<1>4. CASE AddTouch(c)
  <2>1. \A id : Touched(id) = mailboxes
    BY TouchedIsSame DEF IInv, TypeOK
  <2>2. UNCHANGED <<mailboxes, messages, sess, granted, received>>
    BY <1>4, <2>1 DEF AddTouch, Memory, History
  <2> QED
    BY <2>2, Unseen
<1> QED
  BY <1>1, <1>2, <1>3, <1>4, InsertIsCreate, CountIsAdmit, InsertIsStore,
     BroadcastIsDeliver
  DEF ApplicationStep, OpenStep, MessageOrCloseStep

LEMMA ClientServes ==
  ASSUME IInv, NEW c \in Conns, Begins(c) \/ Ends(c) \/ Disconnect(c)
  PROVE  ServiceStep
<1>1. UNCHANGED <<store, granted, received>>
  BY DEF Begins, HandleBind, HandleAllocate, HandleClaim, HandleRelease,
         HandleOpen, HandleAdd, HandleClose, Begin, Ends, GetAppInsert,
         Allocated, Claimed, Released, Opened, Added, Reopened, Closed, Finish,
         Disconnect, History
<1>2. sess \in [Conns -> SessType]
  BY DEF IInv, TypeOK
<1>3. UNCHANGED <<mailboxes, messages, granted, received>>
  BY <1>1 DEF store
<1>4. CASE HandleBind(c)
  <2>1. PICK a \in AppIDs, s \in Sides : BindTo(c, a, s, apps[a]) \/ sess' = sess
    BY <1>4 DEF HandleBind
  <2>2. sess[c].app = None
    BY <1>4, Here DEF HandleBind, Ready, IsBound, SessInv
  <2> QED
    BY <1>1, <1>3, <2>1, <2>2, BindIsBind, Unseen
<1>5. CASE GetAppInsert(c)
  <2>1. BindTo(c, frame[c].app, frame[c].side, c)
    BY <1>5 DEF GetAppInsert
  <2>2. sess[c].app = None /\ frame[c].app \in AppIDs
    BY <1>5, Here DEF GetAppInsert, At, FrameInv, FrameBound
  <2> QED
    BY <1>1, <2>1, <2>2, BindIsBind
<1>6. CASE Disconnect(c)
  <2>1. \A d \in Conns : sess'[d].app = sess[d].app
    BY <1>2, <1>6, DepartedFields DEF Disconnect
  <2> QED
    BY <1>3, <2>1, Unseen
<1>7. CASE Begins(c) /\ ~HandleBind(c)
  <2>1. sess' = sess
    BY <1>7
    DEF Begins, HandleAllocate, HandleClaim, HandleRelease, HandleOpen,
        HandleAdd, HandleClose, Begin, Memory
  <2> QED
    BY <1>3, <2>1, Unseen
<1>8. CASE Ends(c) /\ ~GetAppInsert(c)
  <2>1. \A d \in Conns : sess'[d].app = sess[d].app
    BY <1>2, <1>8
    DEF Ends, Allocated, Claimed, Released, Opened, Added, Reopened, Closed,
        SessType
  <2> QED
    BY <1>3, <2>1, Unseen
<1> QED
  BY <1>4, <1>5, <1>6, <1>7, <1>8

LEMMA NextServes ==
  IInv /\ MemberInv /\ MailboxCapacity' /\ [Next]_vars => ServiceStep
<1> SUFFICES ASSUME IInv, MemberInv, MailboxCapacity', [Next]_vars
             PROVE  ServiceStep
  OBVIOUS
<1>1. CASE Restart
  <2>1. \A c \in Conns : sess'[c].app = sess[c].app
    BY <1>1, DepartedFields DEF Restart
  <2>2. UNCHANGED <<mailboxes, messages, granted, received>>
    BY <1>1 DEF Restart, store, History
  <2> QED
    BY <2>1, <2>2, Unseen
<1>2. CASE UNCHANGED vars
  BY <1>2, UnseenStore DEF vars, application
<1> QED
  BY <1>1, <1>2, ApplicationServes, ClientServes
  DEF Next, Crash, AllocatePanics

LEMMA InitServes == Init => Service!Init
BY DEF Init, StoreInit, ApplicationInit, NewClient, Service!Init

\* The handlers implement MailboxService as long as Mailbox.Open's SELECT
\* does not fail: whatever else fails, however the statements of any number
\* of handlers interleave and wherever the process dies, a connection keeps
\* its application, a mailbox its own, nobody is let into another's mailbox
\* or under a third side, and a message comes from and goes to those let in.
THEOREM RelayImplementsService ==
  ASSUME "mbs_select" \notin FaultySteps
  PROVE  Spec => ServiceSpec
<1>1. Init => GrantedInv
  BY DEF Init, StoreInit, ApplicationInit, GrantedInv, MailboxCapacity, Idle,
         SideSteps
<1>2. IInv /\ GrantedInv /\ [Next]_vars => GrantedInv'
  BY NextCapacity
<1>3. GrantedInv => MailboxCapacity
  BY DEF GrantedInv
<1>4. Spec => []GrantedInv
  BY <1>1, <1>2, Invariance, PTL DEF Spec
<1>5. Spec => []MemberInv
  BY MembersInit, MembersNext, Invariance, PTL DEF Spec
<1>6. IInv /\ MemberInv /\ MailboxCapacity' /\ [Next]_vars
        => [Service!Next]_(Service!service)
  BY NextServes DEF ServiceStep
<1> QED
  BY <1>3, <1>4, <1>5, <1>6, InitServes, Invariance, PTL
  DEF Spec, ServiceSpec, Service!Spec

=============================================================================
