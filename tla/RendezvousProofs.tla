-------------------------- MODULE RendezvousProofs --------------------------
(***************************************************************************)
(* What module Rendezvous promises for every number of connections,        *)
(* mailboxes and names, every set of commands, and every choice of         *)
(* statements that fail.                                                   *)
(*                                                                         *)
(* The inductive invariant says what each handler's locals stand for at    *)
(* each of its steps (FrameInv), what a Client object stands for           *)
(* (SessInv), and what the tables, the registered listeners and the two    *)
(* histories have to do with each other.                                   *)
(***************************************************************************)
EXTENDS Rendezvous, FiniteSetTheorems, TLAPS

HasRow(id, app) == \E r \in mailboxes : r.id = id /\ r.app = app
HasSideRow(id, side) == \E r \in mailboxSides : r.mailbox = id /\ r.side = side
LetIn(id, c) == \E g \in granted : g.mailbox = id /\ g.by = c

\* The steps of ClaimNameplate and OpenMailbox, by what they may rely on.
NamedSteps == {"np_select", "np_insert"}
AddSteps == {"mb_count", "mb_insert"}
RowSteps == {"np_insert", "map_get", "map_put", "mbs_select", "mbs_insert",
             "touch", "mbs_count"}
IdSteps == RowSteps \cup AddSteps \cup {"nps_select", "nps_insert"}
OpenSteps == {"mbs_select", "mbs_insert", "touch", "mbs_count"}
SideSteps == {"touch", "mbs_count"}
AddMessageSteps == {"add_insert", "broadcast", "add_touch"}
HeldSteps == AddMessageSteps \cup {"close_select"}
ClaimSteps == {"find", "np_select", "np_insert", "nps_select", "nps_insert",
               "nps_count"}
ReleaseSteps == {"rel_np", "rel_side", "rel_update", "rel_count",
                 "rel_delsides", "rel_delnp"}

\* A handler belongs to a live connection; but for the one of Bind, it runs
\* in the application and for the side its client is bound to.
FrameBound(c) ==
  LET f == frame[c] IN
  /\ f.pc # "idle" => c \notin gone
  /\ f.pc = "apps_put" =>
       /\ sess[c].home = None /\ sess[c].app = None
       /\ f.app \in AppIDs /\ f.side \in Sides /\ f.cmd = "bind"
  /\ f.pc \notin {"idle", "apps_put"} =>
       /\ f.app = sess[c].app /\ f.app \in AppIDs
       /\ f.home = sess[c].home /\ f.home \in Conns
       /\ f.side \in StoredSides
       /\ f.cmd # "bind" /\ f.then # "idle"

\* Which steps the command leads to, and what it allows the client's own
\* fields to be meanwhile.
FrameCommand(c) ==
  LET f == frame[c] IN
  /\ f.pc \in ClaimSteps \/ (f.pc \in AddSteps /\ f.then = "np_insert")
       => f.cmd \in {"allocate", "claim"}
  /\ f.pc \in ReleaseSteps => f.cmd = "release"
  /\ f.pc \in AddMessageSteps => f.cmd = "add"
  /\ f.pc = "close_select" => f.cmd = "close"
  /\ f.pc # "idle" =>
       /\ f.cmd \in {"open", "reopen"} => sess[c].mailbox = None
       /\ f.cmd \in {"close", "reopen"} => ~sess[c].closed

\* What ClaimNameplate and OpenMailbox have established so far.
FrameOpen(c) ==
  LET f == frame[c] IN
  /\ f.pc \in NamedSteps \/ (f.pc \in AddSteps /\ f.then = "np_insert")
       => f.name \in Names
  /\ f.pc \in IdSteps => f.mailbox \in MailboxIDs
  /\ f.pc \in RowSteps => HasRow(f.mailbox, f.app)
  /\ f.pc \in OpenSteps => f.box \in BoxRefs /\ f.box.id = f.mailbox
  /\ f.pc = "ok" /\ f.cmd \in {"open", "reopen"} =>
       /\ f.box \in BoxRefs
       /\ HasRow(f.box.id, f.app) /\ LetIn(f.box.id, c)

\* What AddMessage and Close rely on.
FrameHeld(c) ==
  LET f == frame[c] IN
  /\ f.pc \in HeldSteps => f.box \in BoxRefs /\ HasRow(f.box.id, f.app)
  /\ f.pc \in {"add_insert", "broadcast"} => f.msg \in Msgs /\ f.side \in Sides
  /\ f.pc = "broadcast" =>
       [app |-> f.app, mailbox |-> f.box.id, side |-> f.side, msg |-> f.msg]
         \in messages
  /\ f.cmd = "add" /\ f.pc # "idle" => f.side \in Sides

FrameInv(c) == FrameBound(c) /\ FrameCommand(c) /\ FrameOpen(c) /\ FrameHeld(c)

SessInv(c) ==
  LET s == sess[c] IN
  /\ s.home # None => s.app \in AppIDs /\ s.side \in Sides /\ c \notin gone
  /\ s.home = None /\ c \notin gone => s.app = None
  /\ s.mailbox # None => HasRow(s.mailbox.id, s.app)
  /\ s.handle <= (IF s.closed THEN 1 ELSE 0) + (IF s.mailbox # None THEN 1 ELSE 0)

\* The primary key, and what COUNT needs.
TablesInv ==
  /\ \A r, q \in mailboxes : r.id = q.id => r = q
  /\ IsFiniteSet(mailboxSides)
  /\ NameplateHasMailbox

ListenersInv ==
  \A l \in listeners : HasRow(l.box.id, sess[l.conn].app)
                       /\ LetIn(l.box.id, l.conn)

HistoryInv == DeliveryIsolation /\ DeliveredIsStored

IInv ==
  /\ TypeOK
  /\ \A c \in Conns : FrameInv(c) /\ SessInv(c)
  /\ TablesInv
  /\ ListenersInv
  /\ HistoryInv

\* Who was let in has its row: all that MailboxCapacity needs besides, and
\* true only if Mailbox.Open's SELECT does not fail.
GrantedInv ==
  /\ \A c \in Conns : frame[c].pc \in SideSteps =>
                        HasSideRow(frame[c].mailbox, frame[c].side)
  /\ \A g \in granted : HasSideRow(g.mailbox, g.side)
  /\ MailboxCapacity

-----------------------------------------------------------------------------
(* A row is touched only if its id is a Unix time, which none is. *)

LEMMA TouchedIsSame ==
  ASSUME NEW id, StoreTypeOK
  PROVE  Touched(id) = mailboxes
<1>1. Arg(<<2, 1>>, <<id, now>>, 1) = now
  BY DEF Arg
<1>2. \A r \in mailboxes : r.id # now
  BY StoreAssumption DEF StoreTypeOK
<1> QED
  BY <1>1, <1>2 DEF Touched

\* What a move of a handler does to the frames.
LEMMA MoveFrame ==
  ASSUME IInv, NEW c \in Conns, NEW f \in FrameType, Move(c, f)
  PROVE  /\ frame' \in [Conns -> FrameType]
         /\ frame'[c] = f
         /\ \A d \in Conns \ {c} : frame'[d] = frame[d]
BY DEF Move, IInv, TypeOK, ApplicationTypeOK

LEMMA IdleType == Idle \in FrameType
BY DEF FrameType, Idle, Steps, Commands

\* Some changes of single fields keep a frame a frame.
LEMMA FrameFields ==
  ASSUME NEW f \in FrameType, NEW step \in Steps
  PROVE  /\ [f EXCEPT !.pc = step] \in FrameType
         /\ \A n \in Names : [f EXCEPT !.name = n, !.pc = step] \in FrameType
         /\ \A n \in Nat : [f EXCEPT !.np = n, !.pc = step] \in FrameType
         /\ \A n \in Nat, id \in MailboxIDs :
              [f EXCEPT !.np = n, !.mailbox = id, !.pc = step] \in FrameType
         /\ \A id \in MailboxIDs :
              [f EXCEPT !.mailbox = id, !.then = "np_insert", !.pc = step]
                \in FrameType
         /\ [f EXCEPT !.then = "map_get", !.pc = step] \in FrameType
         /\ \A b \in BoxRefs : [f EXCEPT !.box = b, !.pc = step] \in FrameType
<1>1. [f EXCEPT !.pc = step] \in FrameType
  BY DEF FrameType
<1>2. ASSUME NEW n \in Names
      PROVE  [f EXCEPT !.name = n, !.pc = step] \in FrameType
  BY DEF FrameType
<1>3. ASSUME NEW n \in Nat
      PROVE  [f EXCEPT !.np = n, !.pc = step] \in FrameType
  BY DEF FrameType
<1>4. ASSUME NEW n \in Nat, NEW id \in MailboxIDs
      PROVE  [f EXCEPT !.np = n, !.mailbox = id, !.pc = step] \in FrameType
  BY DEF FrameType
<1>5. ASSUME NEW id \in MailboxIDs
      PROVE  [f EXCEPT !.mailbox = id, !.then = "np_insert", !.pc = step]
               \in FrameType
  BY DEF FrameType
<1>6. [f EXCEPT !.then = "map_get", !.pc = step] \in FrameType
  BY DEF FrameType
<1>7. ASSUME NEW b \in BoxRefs
      PROVE  [f EXCEPT !.box = b, !.pc = step] \in FrameType
  BY DEF FrameType
<1> QED
  BY <1>1, <1>2, <1>3, <1>4, <1>5, <1>6, <1>7

-----------------------------------------------------------------------------
(* Handlers do not disturb each other: the tables an invariant of a handler *)
(* speaks of only grow.                                                     *)

Grows ==
  /\ mailboxes \subseteq mailboxes'
  /\ messages \subseteq messages'
  /\ granted \subseteq granted'

LEMMA OthersKept ==
  ASSUME Grows, NEW d \in Conns, FrameInv(d), SessInv(d),
         frame'[d] = frame[d], sess'[d] = sess[d], d \in gone <=> d \in gone'
  PROVE  FrameInv(d)' /\ SessInv(d)'
<1>1. /\ \A id, app : HasRow(id, app) => HasRow(id, app)'
      /\ \A id : LetIn(id, d) => LetIn(id, d)'
  BY DEF Grows, HasRow, LetIn
<1>2. FrameBound(d)' /\ FrameCommand(d)'
  BY DEF FrameInv, FrameBound, FrameCommand
<1>3. FrameOpen(d)'
  BY <1>1 DEF FrameInv, FrameOpen
<1>4. FrameHeld(d)'
  BY <1>1 DEF FrameInv, FrameHeld, Grows
<1>5. SessInv(d)'
  BY <1>1 DEF SessInv
<1> QED
  BY <1>2, <1>3, <1>4, <1>5 DEF FrameInv

\* A step that changes nothing but the frame of its own handler.
LEMMA FrameOnly ==
  ASSUME IInv, NEW c \in Conns, UNCHANGED <<store, Memory, History>>,
         frame' \in [Conns -> FrameType],
         \A d \in Conns \ {c} : frame'[d] = frame[d],
         FrameInv(c)'
  PROVE  IInv'
<1>1. TypeOK'
  BY DEF IInv, TypeOK, StoreTypeOK, ApplicationTypeOK, store, Memory, History
<1>2. \A d \in Conns \ {c} : FrameInv(d)' /\ SessInv(d)'
  BY OthersKept DEF IInv, Grows, store, Memory, History
<1>3. SessInv(c)'
  BY DEF IInv, SessInv, HasRow, store, Memory
<1>4. TablesInv' /\ ListenersInv' /\ HistoryInv'
  BY DEF IInv, TablesInv, ListenersInv, HistoryInv, NameplateHasMailbox,
         MailboxRows, HasRow, LetIn, DeliveryIsolation, DeliveredIsStored,
         store, Memory, History
<1> QED
  BY <1>1, <1>2, <1>3, <1>4 DEF IInv

-----------------------------------------------------------------------------
(* Steps that only move their handler on. *)

USE DEF NamedSteps, AddSteps, RowSteps, IdSteps, OpenSteps, AddMessageSteps,
        HeldSteps, ClaimSteps, ReleaseSteps

LEMMA MoveStep ==
  ASSUME IInv, NEW c \in Conns, NEW f \in FrameType, Move(c, f),
         UNCHANGED <<store, Memory, History>>, FrameInv(c)'
  PROVE  IInv'
BY MoveFrame, FrameOnly

\* Nothing is asked of an idle reader.
LEMMA IdleInv ==
  ASSUME NEW c \in Conns, frame'[c] = Idle
  PROVE  FrameInv(c)'
BY DEF FrameInv, FrameBound, FrameCommand, FrameOpen, FrameHeld, Idle

LEMMA FailStep ==
  ASSUME IInv, NEW c \in Conns, Fail(c), UNCHANGED <<store, Memory, History>>
  PROVE  IInv'
BY IdleType, MoveFrame, IdleInv, FrameOnly DEF Fail

\* The handler at a step, as the cases below use it.
LEMMA Here ==
  ASSUME IInv, NEW c \in Conns
  PROVE  frame[c] \in FrameType /\ FrameInv(c) /\ SessInv(c)
BY DEF IInv, TypeOK, ApplicationTypeOK

\* Within the application a handler keeps what it was called for.
LEMMA KeepStep ==
  ASSUME IInv, NEW c \in Conns, NEW f \in FrameType, Move(c, f),
         UNCHANGED <<store, Memory, History>>,
         frame[c].pc \notin {"idle", "apps_put"}, f.pc \notin {"idle", "apps_put"},
         f.app = frame[c].app, f.home = frame[c].home, f.side = frame[c].side,
         f.cmd = frame[c].cmd, f.then # "idle",
         FrameCommand(c)', FrameOpen(c)', FrameHeld(c)'
  PROVE  IInv'
<1>1. frame'[c] = f
  BY MoveFrame
<1>2. FrameBound(c)'
  BY <1>1, Here DEF FrameInv, FrameBound, Memory
<1> QED
  BY <1>2, MoveStep DEF FrameInv

\* Going to a step needs only what that step relies on.
LEMMA GotoStep ==
  ASSUME IInv, NEW c \in Conns, NEW step \in Steps \ {"idle", "apps_put"},
         Goto(c, step), UNCHANGED <<store, Memory, History>>,
         frame[c].pc \notin {"idle", "apps_put"},
         FrameCommand(c)', FrameOpen(c)', FrameHeld(c)'
  PROVE  IInv'
<1> DEFINE f == [frame[c] EXCEPT !.pc = step]
<1>1. frame[c] \in FrameType /\ FrameInv(c) /\ f \in FrameType
  BY Here, FrameFields
<1>2. /\ f.pc = step
      /\ f.app = frame[c].app /\ f.home = frame[c].home
      /\ f.side = frame[c].side /\ f.cmd = frame[c].cmd /\ f.then # "idle"
  BY <1>1 DEF FrameType, FrameInv, FrameBound
<1> HIDE DEF f
<1> QED
  BY <1>1, <1>2, KeepStep DEF Goto, f

\* The frame after that.
LEMMA GotoFrame ==
  ASSUME IInv, NEW c \in Conns, NEW step \in Steps, Goto(c, step)
  PROVE  frame'[c] = [frame[c] EXCEPT !.pc = step]
BY Here, FrameFields, MoveFrame DEF Goto

LEMMA AddMailboxCountStep ==
  ASSUME IInv, NEW c \in Conns, AddMailboxCount(c)
  PROVE  IInv'
<1> DEFINE f == frame[c]
<1>1. f \in FrameType /\ FrameInv(c) /\ f.pc = "mb_count"
  BY Here DEF AddMailboxCount, At
<1>2. f.then \in Steps \ {"idle", "apps_put"} /\ "mb_insert" \in Steps
  BY <1>1 DEF FrameType, FrameInv, FrameBound, Steps, DBSteps
<1>3. CASE MailboxRows(f.app, f.mailbox) # {}
  <2>1. Goto(c, f.then)
    BY <1>3 DEF AddMailboxCount
  <2>2. frame'[c] = [f EXCEPT !.pc = f.then]
    BY <1>2, <2>1, GotoFrame
  <2>3. FrameCommand(c)' /\ FrameOpen(c)' /\ FrameHeld(c)'
    BY <1>1, <1>2, <1>3, <2>2
    DEF FrameInv, FrameType, FrameCommand, FrameOpen, FrameHeld, MailboxRows,
        HasRow, AddMailboxCount, store, Memory
  <2> QED
    BY <1>1, <1>2, <2>1, <2>3, GotoStep DEF AddMailboxCount
<1>4. CASE MailboxRows(f.app, f.mailbox) = {}
  <2>1. Goto(c, "mb_insert")
    BY <1>4 DEF AddMailboxCount
  <2>2. frame'[c] = [f EXCEPT !.pc = "mb_insert"]
    BY <1>2, <2>1, GotoFrame
  <2>3. FrameCommand(c)' /\ FrameOpen(c)' /\ FrameHeld(c)'
    BY <1>1, <1>4, <2>2
    DEF FrameInv, FrameType, FrameCommand, FrameOpen, FrameHeld,
        AddMailboxCount, Memory
  <2> QED
    BY <1>1, <1>2, <2>1, <2>3, GotoStep DEF AddMailboxCount
<1> QED
  BY <1>3, <1>4

LEMMA FindNameplateStep ==
  ASSUME IInv, NEW c \in Conns, FindNameplate(c)
  PROVE  IInv'
<1> DEFINE f == frame[c]
<1>1. f \in FrameType /\ FrameInv(c) /\ f.pc = "find"
  BY Here DEF FindNameplate, At
<1>2. PICK n \in AllocNames : Move(c, [f EXCEPT !.name = n, !.pc = "np_select"])
  BY DEF FindNameplate
<1> DEFINE g == [f EXCEPT !.name = n, !.pc = "np_select"]
<1>3. n \in Names /\ g \in FrameType
  BY <1>1, ApplicationAssumption, FrameFields DEF Steps, DBSteps
<1>4. frame'[c] = g /\ UNCHANGED Memory
  BY <1>2, <1>3, MoveFrame DEF FindNameplate
<1>5. g.pc = "np_select" /\ g.then # "idle" /\ g.app = f.app
      /\ g.home = f.home /\ g.side = f.side /\ g.cmd = f.cmd
  BY <1>1 DEF FrameType, FrameInv, FrameBound
<1>6. FrameCommand(c)' /\ FrameOpen(c)' /\ FrameHeld(c)'
  BY <1>1, <1>3, <1>4
  DEF FrameInv, FrameCommand, FrameOpen, FrameHeld, FrameType, Memory
<1> QED
  BY <1>1, <1>2, <1>3, <1>5, <1>6, KeepStep DEF FindNameplate

LEMMA ClaimSelectStep ==
  ASSUME IInv, NEW c \in Conns, ClaimSelect(c)
  PROVE  IInv'
<1> DEFINE f == frame[c]
<1>1. f \in FrameType /\ FrameInv(c) /\ f.pc = "np_select"
  BY Here DEF ClaimSelect, At
<1>2. f.cmd \in {"allocate", "claim"} /\ f.name \in Names /\ f.then # "idle"
  BY <1>1 DEF FrameInv, FrameCommand, FrameOpen, FrameBound
<1>3. ASSUME NEW r \in nameplates,
             Move(c, [f EXCEPT !.np = r.id, !.mailbox = r.mailbox,
                               !.pc = "nps_select"])
      PROVE  IInv'
  <2> DEFINE g == [f EXCEPT !.np = r.id, !.mailbox = r.mailbox,
                            !.pc = "nps_select"]
  <2>1. r.id \in Nat /\ r.mailbox \in MailboxIDs
    BY DEF IInv, TypeOK, StoreTypeOK
  <2>2. g \in FrameType
    BY <1>1, <2>1, FrameFields DEF Steps, DBSteps
  <2>3. /\ g.pc = "nps_select" /\ g.mailbox = r.mailbox
        /\ g.app = f.app /\ g.home = f.home /\ g.side = f.side
        /\ g.cmd = f.cmd /\ g.then = f.then
    BY <1>1 DEF FrameType
  <2>4. frame'[c] = g
    BY <1>3, <2>2, MoveFrame
  <2> HIDE DEF g
  <2>5. FrameCommand(c)' /\ FrameOpen(c)' /\ FrameHeld(c)'
    BY <1>1, <1>2, <2>1, <2>3, <2>4
    DEF FrameInv, FrameCommand, FrameOpen, FrameHeld, ClaimSelect, Memory
  <2> QED
    BY <1>1, <1>2, <1>3, <2>2, <2>3, <2>5, KeepStep DEF ClaimSelect, g
<1>4. ASSUME NEW id \in MailboxIDs,
             Move(c, [f EXCEPT !.mailbox = id, !.then = "np_insert",
                               !.pc = "mb_count"])
      PROVE  IInv'
  <2> DEFINE g == [f EXCEPT !.mailbox = id, !.then = "np_insert",
                            !.pc = "mb_count"]
  <2>1. g \in FrameType
    BY <1>1, FrameFields DEF Steps, DBSteps
  <2>2. /\ g.pc = "mb_count" /\ g.mailbox = id /\ g.name = f.name
        /\ g.app = f.app /\ g.home = f.home /\ g.side = f.side
        /\ g.cmd = f.cmd /\ g.then = "np_insert"
    BY <1>1 DEF FrameType
  <2>3. frame'[c] = g
    BY <1>4, <2>1, MoveFrame
  <2> HIDE DEF g
  <2>4. FrameCommand(c)' /\ FrameOpen(c)' /\ FrameHeld(c)'
    BY <1>1, <1>2, <2>2, <2>3
    DEF FrameInv, FrameCommand, FrameOpen, FrameHeld, ClaimSelect, Memory
  <2> QED
    BY <1>1, <1>4, <2>1, <2>2, <2>4, KeepStep DEF ClaimSelect, g
<1> QED
  BY <1>3, <1>4 DEF ClaimSelect, FreshMailboxIDs, FirstNameplate, NameplateRows

\* Both ways on from nameplate_sides lead to OpenMailbox.
LEMMA ToOpenMailbox ==
  ASSUME IInv, NEW c \in Conns, frame[c].pc \in {"nps_select", "nps_insert"},
         Move(c, [frame[c] EXCEPT !.then = "map_get", !.pc = "mb_count"])
  PROVE  /\ frame' \in [Conns -> FrameType]
         /\ \A d \in Conns \ {c} : frame'[d] = frame[d]
         /\ sess'[c] = sess[c] /\ gone' = gone => FrameInv(c)'
<1> DEFINE f == frame[c]
           g == [f EXCEPT !.then = "map_get", !.pc = "mb_count"]
<1>1. f \in FrameType /\ FrameInv(c)
  BY Here
<1>2. g \in FrameType
  BY <1>1, FrameFields DEF Steps, DBSteps
<1>3. /\ g.pc = "mb_count" /\ g.then = "map_get"
      /\ g.app = f.app /\ g.home = f.home /\ g.side = f.side
      /\ g.cmd = f.cmd /\ g.mailbox = f.mailbox
  BY <1>1 DEF FrameType
<1>4. /\ frame' \in [Conns -> FrameType]
      /\ frame'[c] = g
      /\ \A d \in Conns \ {c} : frame'[d] = frame[d]
  BY <1>2, MoveFrame
<1> HIDE DEF g
<1>5. ASSUME sess'[c] = sess[c], gone' = gone
      PROVE  FrameInv(c)'
  <2>1. FrameBound(c)' /\ FrameCommand(c)'
    BY <1>1, <1>3, <1>4, <1>5 DEF FrameInv, FrameBound, FrameCommand
  <2>2. FrameOpen(c)' /\ FrameHeld(c)'
    BY <1>1, <1>3, <1>4, <1>5 DEF FrameInv, FrameOpen, FrameHeld, FrameCommand
  <2> QED
    BY <2>1, <2>2 DEF FrameInv
<1> QED
  BY <1>4, <1>5

LEMMA ClaimSelectSideStep ==
  ASSUME IInv, NEW c \in Conns, ClaimSelectSide(c)
  PROVE  IInv'
<1>1. frame[c] \in FrameType /\ FrameInv(c) /\ frame[c].pc = "nps_select"
  BY Here DEF ClaimSelectSide, At
<1>2. UNCHANGED <<store, Memory, History>>
  BY DEF ClaimSelectSide
<1>3. CASE Goto(c, "nps_insert")
  <2>1. "nps_insert" \in Steps
    BY DEF Steps, DBSteps
  <2>2. frame'[c] = [frame[c] EXCEPT !.pc = "nps_insert"]
    BY <1>3, <2>1, GotoFrame
  <2>3. FrameCommand(c)' /\ FrameOpen(c)' /\ FrameHeld(c)'
    BY <1>1, <1>2, <2>2
    DEF FrameInv, FrameType, FrameCommand, FrameOpen, FrameHeld, Memory
  <2> QED
    BY <1>1, <1>2, <1>3, <2>1, <2>3, GotoStep
<1>4. CASE Fail(c)
  BY <1>2, <1>4, FailStep
<1>5. CASE Move(c, [frame[c] EXCEPT !.then = "map_get", !.pc = "mb_count"])
  BY <1>1, <1>2, <1>5, ToOpenMailbox, FrameOnly DEF Memory
<1> QED
  BY <1>3, <1>4, <1>5 DEF ClaimSelectSide

\* The application returns to a handler that asked for no mailbox.
LEMMA GotoOk ==
  ASSUME IInv, NEW c \in Conns, Goto(c, "ok"),
         UNCHANGED <<store, Memory, History>>,
         frame[c].pc \in {"nps_count", "add_touch", "close_select"}
                         \cup ReleaseSteps
  PROVE  IInv'
<1>1. frame[c] \in FrameType /\ FrameInv(c) /\ "ok" \in Steps
  BY Here DEF Steps
<1>2. frame'[c] = [frame[c] EXCEPT !.pc = "ok"]
  BY <1>1, GotoFrame
<1>3. FrameCommand(c)' /\ FrameOpen(c)' /\ FrameHeld(c)'
  BY <1>1, <1>2
  DEF FrameInv, FrameType, FrameCommand, FrameOpen, FrameHeld, Memory
<1> QED
  BY <1>1, <1>3, GotoStep

LEMMA ClaimCountStep ==
  ASSUME IInv, NEW c \in Conns, ClaimCount(c)
  PROVE  IInv'
<1>1. Fail(c) \/ Goto(c, "ok")
  BY DEF ClaimCount
<1> QED
  BY <1>1, FailStep, GotoOk DEF ClaimCount, At

\* A step that also adds to the tables, the histories or a Mailboxes map.
LEMMA GrowStep ==
  ASSUME IInv, NEW c \in Conns, NEW f \in FrameType, Move(c, f), FrameInv(c)',
         Grows, UNCHANGED <<apps, sess, listeners, gone>>,
         StoreTypeOK', TablesInv', HistoryInv',
         boxOf' \in [Conns -> [MailboxIDs -> Conns \cup {None}]],
         granted' \subseteq
           [mailbox : MailboxIDs, side : StoredSides, by : Conns],
         received' \subseteq
           [to : Conns, app : AppIDs, mailbox : MailboxIDs, msg : Msgs]
  PROVE  IInv'
<1>1. /\ frame' \in [Conns -> FrameType]
      /\ \A d \in Conns \ {c} : frame'[d] = frame[d]
  BY MoveFrame
<1>2. TypeOK'
  BY <1>1 DEF IInv, TypeOK, ApplicationTypeOK
<1>3. \A d \in Conns \ {c} : FrameInv(d)' /\ SessInv(d)'
  BY <1>1, OthersKept DEF IInv
<1>4. /\ \A id, app : HasRow(id, app) => HasRow(id, app)'
      /\ \A id, d : LetIn(id, d) => LetIn(id, d)'
  BY DEF Grows, HasRow, LetIn
<1>5. SessInv(c)' /\ ListenersInv'
  BY <1>4 DEF IInv, SessInv, ListenersInv
<1> QED
  BY <1>2, <1>3, <1>5 DEF IInv

\* The tables and the histories, where nothing they relate changes.
LEMMA TablesKept ==
  ASSUME TablesInv, UNCHANGED <<mailboxes, mailboxSides, nameplates>>
  PROVE  TablesInv'
BY DEF TablesInv, NameplateHasMailbox, MailboxRows

LEMMA HistoryKept ==
  ASSUME HistoryInv, Grows, UNCHANGED <<sess, received>>
  PROVE  HistoryInv'
<1>1. DeliveryIsolation'
  BY DEF HistoryInv, DeliveryIsolation, Grows
<1>2. DeliveredIsStored'
  BY DEF HistoryInv, DeliveredIsStored, Grows
<1> QED
  BY <1>1, <1>2 DEF HistoryInv

\* MapGet and MapPut go on with a Mailbox object of the right id.
LEMMA BoxFrame ==
  ASSUME IInv, NEW c \in Conns, NEW k \in Conns,
         frame[c].pc \in {"map_get", "map_put"},
         Move(c, [frame[c] EXCEPT !.box = [id |-> frame[c].mailbox, by |-> k],
                                  !.pc = "mbs_select"]),
         UNCHANGED <<mailboxes, messages, granted, sess, gone>>
  PROVE  /\ [frame[c] EXCEPT !.box = [id |-> frame[c].mailbox, by |-> k],
                             !.pc = "mbs_select"] \in FrameType
         /\ FrameInv(c)'
<1> DEFINE f == frame[c]
           b == [id |-> f.mailbox, by |-> k]
           g == [f EXCEPT !.box = b, !.pc = "mbs_select"]
<1>1. f \in FrameType /\ FrameInv(c)
  BY Here
<1>2. f.mailbox \in MailboxIDs /\ HasRow(f.mailbox, f.app)
  BY <1>1 DEF FrameInv, FrameOpen
<1>3. b \in BoxRefs /\ b.id = f.mailbox
  BY <1>2 DEF BoxRefs
<1> HIDE DEF b
<1>4. g \in FrameType
  BY <1>1, <1>3, FrameFields DEF Steps, DBSteps
<1>5. /\ g.pc = "mbs_select" /\ g.box = b /\ g.then = f.then
      /\ g.app = f.app /\ g.home = f.home /\ g.side = f.side
      /\ g.cmd = f.cmd /\ g.mailbox = f.mailbox
  BY <1>1 DEF FrameType
<1>6. frame'[c] = g
  BY <1>4, MoveFrame DEF b
<1> HIDE DEF g
<1>7. FrameBound(c)' /\ FrameCommand(c)'
  BY <1>1, <1>5, <1>6 DEF FrameInv, FrameBound, FrameCommand
<1>8. FrameOpen(c)' /\ FrameHeld(c)'
  BY <1>1, <1>2, <1>3, <1>5, <1>6 DEF FrameInv, FrameOpen, FrameHeld, HasRow
<1> QED
  BY <1>4, <1>7, <1>8 DEF FrameInv, g, b

LEMMA MapGetStep ==
  ASSUME IInv, NEW c \in Conns, MapGet(c)
  PROVE  IInv'
<1> DEFINE f == frame[c]
           k == boxOf[f.home][f.mailbox]
<1>1. f \in FrameType /\ FrameInv(c) /\ f.pc = "map_get"
  BY Here DEF MapGet, At
<1>2. UNCHANGED <<store, Memory, History>>
  BY DEF MapGet
<1>3. f.home \in Conns /\ f.mailbox \in MailboxIDs
  BY <1>1 DEF FrameInv, FrameBound, FrameOpen
<1>4. CASE k = None
  <2>1. Goto(c, "map_put")
    BY <1>4 DEF MapGet
  <2>2. "map_put" \in Steps
    BY DEF Steps
  <2>3. frame'[c] = [f EXCEPT !.pc = "map_put"]
    BY <2>1, <2>2, GotoFrame
  <2>4. FrameCommand(c)' /\ FrameOpen(c)' /\ FrameHeld(c)'
    BY <1>1, <1>2, <2>3
    DEF FrameInv, FrameType, FrameCommand, FrameOpen, FrameHeld, HasRow,
        store, Memory
  <2> QED
    BY <1>1, <1>2, <2>1, <2>2, <2>4, GotoStep
<1>5. CASE k # None
  <2>1. k \in Conns
    BY <1>3, <1>5 DEF IInv, TypeOK, ApplicationTypeOK
  <2>2. Move(c, [f EXCEPT !.box = [id |-> f.mailbox, by |-> k],
                          !.pc = "mbs_select"])
    BY <1>5 DEF MapGet
  <2> HIDE DEF k
  <2> QED
    BY <1>1, <1>2, <2>1, <2>2, BoxFrame, MoveStep DEF store, Memory, History
<1> QED
  BY <1>4, <1>5

LEMMA MapPutStep ==
  ASSUME IInv, NEW c \in Conns, MapPut(c)
  PROVE  IInv'
<1> DEFINE f == frame[c]
           g == [f EXCEPT !.box = [id |-> f.mailbox, by |-> c],
                          !.pc = "mbs_select"]
<1>1. f \in FrameType /\ FrameInv(c) /\ f.pc = "map_put"
  BY Here DEF MapPut, At
<1>2. Move(c, g) /\ UNCHANGED <<store, apps, sess, listeners, gone, History>>
  BY DEF MapPut
<1>3. g \in FrameType /\ FrameInv(c)'
  BY <1>1, <1>2, BoxFrame DEF store, History
<1>4. boxOf' \in [Conns -> [MailboxIDs -> Conns \cup {None}]]
  <2>1. f.home \in Conns /\ f.mailbox \in MailboxIDs
    BY <1>1 DEF FrameInv, FrameBound, FrameOpen
  <2> QED
    BY <2>1 DEF MapPut, IInv, TypeOK, ApplicationTypeOK
<1>5. Grows /\ StoreTypeOK' /\ TablesInv' /\ HistoryInv'
  BY <1>2, TablesKept, HistoryKept
  DEF Grows, IInv, TypeOK, StoreTypeOK, store, History
<1>6. granted' = granted /\ received' = received
  BY <1>2 DEF History
<1> HIDE DEF g
<1> QED
  BY <1>2, <1>3, <1>4, <1>5, <1>6, GrowStep
  DEF IInv, TypeOK, ApplicationTypeOK

-----------------------------------------------------------------------------
(* OpenMailbox. *)

\* From a step of Mailbox.Open to another: what is known stays known.
LEMMA OpenGoto ==
  ASSUME IInv, NEW c \in Conns, NEW step \in OpenSteps,
         frame[c].pc \in OpenSteps, Goto(c, step),
         Grows, UNCHANGED <<apps, sess, boxOf, listeners, gone, received,
                            granted, nameplates>>,
         mailboxes' = mailboxes, StoreTypeOK', IsFiniteSet(mailboxSides')
  PROVE  IInv'
<1> DEFINE f == frame[c]
           g == [f EXCEPT !.pc = step]
<1>1. f \in FrameType /\ FrameInv(c) /\ step \in Steps
  BY Here DEF Steps, DBSteps
<1>2. g \in FrameType /\ Move(c, g) /\ frame'[c] = g
  BY <1>1, FrameFields, GotoFrame DEF Goto
<1>3. FrameBound(c)' /\ FrameCommand(c)'
  BY <1>1, <1>2 DEF FrameInv, FrameType, FrameBound, FrameCommand
<1>4. FrameOpen(c)' /\ FrameHeld(c)'
  BY <1>1, <1>2
  DEF FrameInv, FrameType, FrameCommand, FrameOpen, FrameHeld, HasRow
<1>5. TablesInv' /\ HistoryInv'
  BY HistoryKept DEF IInv, TablesInv, NameplateHasMailbox, MailboxRows
<1> HIDE DEF g
<1> QED
  BY <1>2, <1>3, <1>4, <1>5, GrowStep
  DEF FrameInv, IInv, TypeOK, ApplicationTypeOK

LEMMA OpenSelectSideStep ==
  ASSUME IInv, NEW c \in Conns, OpenSelectSide(c)
  PROVE  IInv'
<1>1. Goto(c, "touch") \/ Goto(c, "mbs_insert")
  BY DEF OpenSelectSide
<1>2. StoreTypeOK' /\ IsFiniteSet(mailboxSides') /\ Grows
  BY DEF OpenSelectSide, IInv, TypeOK, StoreTypeOK, TablesInv, Grows, store,
         History
<1> QED
  BY <1>1, <1>2, OpenGoto DEF OpenSelectSide, At, store, Memory, History

LEMMA OpenInsertSideStep ==
  ASSUME IInv, NEW c \in Conns, OpenInsertSide(c)
  PROVE  IInv'
<1> DEFINE row == [mailbox |-> frame[c].box.id, side |-> frame[c].side, by |-> c]
<1>1. FrameInv(c) /\ frame[c].pc = "mbs_insert"
  BY Here DEF OpenInsertSide, At
<1>2. row \in [mailbox : MailboxIDs, side : StoredSides, by : Conns]
  BY <1>1 DEF FrameInv, FrameBound, FrameOpen, BoxRefs
<1>3. mailboxSides' = mailboxSides \cup {row}
  BY DEF OpenInsertSide
<1>4. IsFiniteSet(mailboxSides')
  <2> HIDE DEF row
  <2> QED
    BY <1>3, FS_AddElement DEF IInv, TablesInv
<1>5. StoreTypeOK' /\ Grows
  BY <1>2, <1>3
  DEF OpenInsertSide, IInv, TypeOK, StoreTypeOK, Grows, History
<1> QED
  BY <1>1, <1>4, <1>5, OpenGoto DEF OpenInsertSide, Memory, History

LEMMA OpenTouchStep ==
  ASSUME IInv, NEW c \in Conns, OpenTouch(c)
  PROVE  IInv'
<1>1. mailboxes' = mailboxes
  BY TouchedIsSame DEF OpenTouch, IInv, TypeOK
<1>2. StoreTypeOK' /\ IsFiniteSet(mailboxSides') /\ Grows
  BY <1>1 DEF OpenTouch, IInv, TypeOK, StoreTypeOK, TablesInv, Grows, History
<1> QED
  BY <1>1, <1>2, OpenGoto DEF OpenTouch, At, Memory, History

LEMMA OpenCountStep ==
  ASSUME IInv, NEW c \in Conns, OpenCount(c)
  PROVE  IInv'
<1> DEFINE f == frame[c]
           grant == [mailbox |-> f.mailbox, side |-> f.side, by |-> c]
           step == IF f.cmd \in {"allocate", "claim"} THEN "nps_count" ELSE "ok"
           g == [f EXCEPT !.pc = step]
<1>1. f \in FrameType /\ FrameInv(c) /\ f.pc = "mbs_count"
  BY Here DEF OpenCount, At
<1>2. CASE Crowded(MailboxSideRows(f.mailbox))
  BY <1>2, FailStep DEF OpenCount, History
<1>3. CASE ~Crowded(MailboxSideRows(f.mailbox))
  <2>1. granted' = granted \cup {grant} /\ Goto(c, step)
    BY <1>3 DEF OpenCount
  <2>2. grant \in [mailbox : MailboxIDs, side : StoredSides, by : Conns]
    BY <1>1 DEF FrameInv, FrameBound, FrameOpen
  <2>3. step \in {"nps_count", "ok"} /\ step \in Steps
    BY DEF Steps, DBSteps
  <2>4. g \in FrameType /\ Move(c, g) /\ frame'[c] = g
    BY <1>1, <2>1, <2>3, FrameFields, GotoFrame DEF Goto
  <2>5. /\ g.pc = step /\ g.box = f.box /\ g.mailbox = f.mailbox
        /\ g.cmd = f.cmd /\ g.app = f.app /\ g.home = f.home
        /\ g.side = f.side /\ g.then = f.then
    BY <1>1 DEF FrameType
  <2>6. UNCHANGED <<store, Memory, received>>
    BY DEF OpenCount
  <2> HIDE DEF g
  <2>7. FrameBound(c)' /\ FrameHeld(c)'
    BY <1>1, <2>3, <2>4, <2>5, <2>6
    DEF FrameInv, FrameBound, FrameHeld, FrameCommand, Memory
  <2>8. FrameCommand(c)'
    BY <1>1, <2>4, <2>5, <2>6 DEF FrameInv, FrameCommand, Memory
  <2>9. /\ \E q \in granted' : q.mailbox = f.mailbox /\ q.by = c
        /\ \E r \in mailboxes' : r.id = f.mailbox /\ r.app = f.app
    <3>1. grant \in granted' /\ grant.mailbox = f.mailbox /\ grant.by = c
      BY <2>1
    <3>2. HasRow(f.mailbox, f.app) /\ mailboxes' = mailboxes
      BY <1>1, <2>6 DEF FrameInv, FrameOpen, store
    <3> QED
      BY <3>1, <3>2 DEF HasRow
  <2>10. FrameOpen(c)'
    <3>1. f.box \in BoxRefs /\ f.box.id = f.mailbox
      BY <1>1 DEF FrameInv, FrameOpen
    <3>2. \A id, app : id = f.mailbox /\ app = f.app =>
                         HasRow(id, app)' /\ LetIn(id, c)'
      BY <2>9 DEF HasRow, LetIn
    <3> QED
      BY <2>3, <2>4, <2>5, <3>1, <3>2 DEF FrameOpen
  <2>11. StoreTypeOK' /\ Grows /\ TablesInv' /\ HistoryInv'
    BY <2>1, <2>6, TablesKept, HistoryKept
    DEF IInv, TypeOK, StoreTypeOK, Grows, store, Memory
  <2>12. granted' \subseteq
           [mailbox : MailboxIDs, side : StoredSides, by : Conns]
    BY <2>1, <2>2 DEF IInv, TypeOK, ApplicationTypeOK
  <2> QED
    BY <2>4, <2>6, <2>7, <2>8, <2>10, <2>11, <2>12, GrowStep
    DEF FrameInv, IInv, TypeOK, ApplicationTypeOK, Memory
<1> QED
  BY <1>2, <1>3

LEMMA AddMailboxInsertStep ==
  ASSUME IInv, NEW c \in Conns, AddMailboxInsert(c)
  PROVE  IInv'
<1> DEFINE f == frame[c]
           row == [id |-> f.mailbox, app |-> f.app, updated |-> now]
           g == [f EXCEPT !.pc = f.then]
<1>1. f \in FrameType /\ FrameInv(c) /\ f.pc = "mb_insert"
  BY Here DEF AddMailboxInsert, At
<1>2. UNCHANGED <<mailboxSides, messages, nameplates, nameplateSides, npSeq,
                  now, Memory, History>>
  BY DEF AddMailboxInsert
<1>3. CASE \E r \in mailboxes : r.id = f.mailbox
  BY <1>3, FailStep DEF AddMailboxInsert, store
<1>4. CASE ~ \E r \in mailboxes : r.id = f.mailbox
  <2>1. mailboxes' = mailboxes \cup {row} /\ Goto(c, f.then)
    BY <1>4 DEF AddMailboxInsert
  <2>2. f.mailbox \in MailboxIDs /\ f.app \in AppIDs
    BY <1>1 DEF FrameInv, FrameBound, FrameOpen
  <2>3. row \in [id : MailboxIDs, app : AppIDs, updated : Nat]
    BY <2>2 DEF IInv, TypeOK, StoreTypeOK
  <2>4. f.then \in {"np_insert", "map_get"} /\ f.then \in Steps
    BY <1>1 DEF FrameType, FrameInv, FrameBound, Steps, DBSteps
  <2>5. g \in FrameType /\ Move(c, g) /\ frame'[c] = g
    BY <1>1, <2>1, <2>4, FrameFields, GotoFrame DEF Goto
  <2>6. /\ g.pc = f.then /\ g.box = f.box /\ g.mailbox = f.mailbox
        /\ g.cmd = f.cmd /\ g.app = f.app /\ g.home = f.home
        /\ g.side = f.side /\ g.then = f.then /\ g.name = f.name
    BY <1>1 DEF FrameType
  <2> HIDE DEF g
  <2>7. FrameBound(c)' /\ FrameCommand(c)' /\ FrameHeld(c)'
    BY <1>1, <1>2, <2>4, <2>5, <2>6
    DEF FrameInv, FrameBound, FrameCommand, FrameHeld, Memory
  <2>8. \E r \in mailboxes' : r.id = f.mailbox /\ r.app = f.app
    <3>1. row \in mailboxes' /\ row.id = f.mailbox /\ row.app = f.app
      BY <2>1
    <3> QED
      BY <3>1
  <2>9. FrameOpen(c)'
    <3>1. f.then = "np_insert" => f.name \in Names
      BY <1>1 DEF FrameInv, FrameOpen
    <3>2. \A id, app : id = f.mailbox /\ app = f.app => HasRow(id, app)'
      BY <2>8 DEF HasRow
    <3> QED
      BY <2>2, <2>4, <2>5, <2>6, <3>1, <3>2 DEF FrameOpen
  <2>10. StoreTypeOK' /\ Grows
    BY <1>2, <2>1, <2>3
    DEF IInv, TypeOK, StoreTypeOK, Grows, History
  <2>11. TablesInv'
    BY <1>2, <1>4, <2>1
    DEF IInv, TablesInv, NameplateHasMailbox, MailboxRows
  <2>12. HistoryInv'
    BY <1>2, <2>10, HistoryKept DEF IInv, Memory, History
  <2> QED
    BY <1>2, <2>5, <2>7, <2>9, <2>10, <2>11, <2>12, GrowStep
    DEF FrameInv, IInv, TypeOK, ApplicationTypeOK, Memory, History
<1> QED
  BY <1>3, <1>4

-----------------------------------------------------------------------------
(* The rest of ClaimNameplate, and ReleaseNameplate. *)

\* A step that writes nameplates and nameplate_sides only.
LEMMA NameplateTables ==
  ASSUME IInv, NEW c \in Conns, NEW f \in FrameType, Move(c, f), FrameInv(c)',
         UNCHANGED <<mailboxes, mailboxSides, messages, now, Memory, History>>,
         npSeq' \in Nat,
         nameplates' \subseteq
           [id : Nat, app : AppIDs, name : Names, mailbox : MailboxIDs],
         nameplateSides' \subseteq
           [np : Nat, side : StoredSides, claimed : BOOLEAN, by : Conns],
         NameplateHasMailbox'
  PROVE  IInv'
<1>1. StoreTypeOK' /\ Grows
  BY DEF IInv, TypeOK, StoreTypeOK, Grows, History
<1>2. TablesInv'
  BY DEF IInv, TablesInv
<1>3. HistoryInv'
  BY <1>1, HistoryKept DEF IInv, Memory, History
<1> QED
  BY <1>1, <1>2, <1>3, GrowStep
  DEF IInv, TypeOK, ApplicationTypeOK, Memory, History

\* Fewer nameplates, or the same, still have their mailboxes.
LEMMA FewerNameplates ==
  ASSUME IInv, nameplates' \subseteq nameplates, mailboxes' = mailboxes
  PROVE  NameplateHasMailbox'
BY DEF IInv, TablesInv, NameplateHasMailbox, MailboxRows

LEMMA ClaimInsertNameplateStep ==
  ASSUME IInv, NEW c \in Conns, ClaimInsertNameplate(c)
  PROVE  IInv'
<1> DEFINE f == frame[c]
           row == [id |-> npSeq + 1, app |-> f.app, name |-> f.name,
                   mailbox |-> f.mailbox]
           g == [f EXCEPT !.np = npSeq + 1, !.pc = "nps_select"]
<1>1. f \in FrameType /\ FrameInv(c) /\ f.pc = "np_insert"
  BY Here DEF ClaimInsertNameplate, At
<1>2. npSeq + 1 \in Nat /\ npSeq' = npSeq + 1
  BY DEF ClaimInsertNameplate, IInv, TypeOK, StoreTypeOK
<1>3. /\ nameplates' = nameplates \cup {row} /\ Move(c, g)
      /\ UNCHANGED <<mailboxes, mailboxSides, messages, nameplateSides, now,
                     Memory, History>>
  BY DEF ClaimInsertNameplate
<1>4. /\ f.app \in AppIDs /\ f.name \in Names /\ f.mailbox \in MailboxIDs
      /\ HasRow(f.mailbox, f.app)
  BY <1>1 DEF FrameInv, FrameBound, FrameOpen
<1>5. row \in [id : Nat, app : AppIDs, name : Names, mailbox : MailboxIDs]
  BY <1>2, <1>4
<1>6. NameplateHasMailbox'
  BY <1>3, <1>4
  DEF IInv, TablesInv, NameplateHasMailbox, MailboxRows, HasRow
<1>7. g \in FrameType
  BY <1>1, <1>2, FrameFields DEF Steps, DBSteps
<1>8. /\ g.pc = "nps_select" /\ g.mailbox = f.mailbox
      /\ g.app = f.app /\ g.home = f.home /\ g.side = f.side
      /\ g.cmd = f.cmd /\ g.then = f.then
  BY <1>1 DEF FrameType
<1>9. frame'[c] = g
  BY <1>3, <1>7, MoveFrame
<1> HIDE DEF g
<1>10. FrameBound(c)' /\ FrameCommand(c)'
  BY <1>1, <1>3, <1>8, <1>9 DEF FrameInv, FrameBound, FrameCommand, Memory
<1>11. FrameOpen(c)' /\ FrameHeld(c)'
  BY <1>1, <1>3, <1>4, <1>8, <1>9
  DEF FrameInv, FrameOpen, FrameHeld, FrameCommand
<1> QED
  BY <1>2, <1>3, <1>5, <1>6, <1>7, <1>10, <1>11, NameplateTables
  DEF FrameInv, IInv, TypeOK, StoreTypeOK

LEMMA ClaimInsertSideStep ==
  ASSUME IInv, NEW c \in Conns, ClaimInsertSide(c)
  PROVE  IInv'
<1> DEFINE f == frame[c]
           row == [np |-> f.np, side |-> f.side, claimed |-> TRUE, by |-> c]
           g == [f EXCEPT !.then = "map_get", !.pc = "mb_count"]
<1>1. f \in FrameType /\ FrameInv(c) /\ f.pc = "nps_insert"
  BY Here DEF ClaimInsertSide, At
<1>2. /\ nameplateSides' = nameplateSides \cup {row} /\ Move(c, g)
      /\ UNCHANGED <<mailboxes, mailboxSides, messages, nameplates, npSeq,
                     now, Memory, History>>
  BY DEF ClaimInsertSide
<1>3. row \in [np : Nat, side : StoredSides, claimed : BOOLEAN, by : Conns]
  BY <1>1 DEF FrameType, FrameInv, FrameBound
<1>4. g \in FrameType
  BY <1>1, FrameFields DEF Steps, DBSteps
<1>5. FrameInv(c)'
  BY <1>1, <1>2, ToOpenMailbox DEF Memory
<1>6. NameplateHasMailbox'
  BY <1>2, FewerNameplates
<1> HIDE DEF g
<1> QED
  BY <1>2, <1>3, <1>4, <1>5, <1>6, NameplateTables
  DEF IInv, TypeOK, StoreTypeOK

\* ReleaseNameplate's frame from one of its steps to the next.
LEMMA ReleaseFrame ==
  ASSUME IInv, NEW c \in Conns, frame[c].pc \in ReleaseSteps,
         NEW step \in ReleaseSteps \cup {"ok"}, NEW n \in Nat,
         Move(c, [frame[c] EXCEPT !.np = n, !.pc = step]),
         UNCHANGED <<mailboxes, messages, Memory, History>>
  PROVE  /\ [frame[c] EXCEPT !.np = n, !.pc = step] \in FrameType
         /\ FrameInv(c)'
<1> DEFINE f == frame[c]
           g == [f EXCEPT !.np = n, !.pc = step]
<1>1. f \in FrameType /\ FrameInv(c)
  BY Here
<1>2. g \in FrameType
  BY <1>1, FrameFields DEF Steps, DBSteps
<1>3. /\ g.pc = step /\ g.app = f.app /\ g.home = f.home
      /\ g.side = f.side /\ g.cmd = f.cmd /\ g.then = f.then
  BY <1>1 DEF FrameType
<1>4. frame'[c] = g
  BY <1>2, MoveFrame
<1> HIDE DEF g
<1>5. FrameBound(c)' /\ FrameCommand(c)'
  BY <1>1, <1>3, <1>4 DEF FrameInv, FrameBound, FrameCommand, Memory
<1>6. FrameOpen(c)' /\ FrameHeld(c)'
  BY <1>1, <1>3, <1>4 DEF FrameInv, FrameOpen, FrameHeld, FrameCommand
<1> QED
  BY <1>2, <1>5, <1>6 DEF FrameInv, g

\* Goto leaves np as it is.
LEMMA GotoNp ==
  ASSUME NEW c \in Conns, NEW step, frame[c] \in FrameType, Goto(c, step)
  PROVE  /\ frame[c].np \in Nat
         /\ Move(c, [frame[c] EXCEPT !.np = frame[c].np, !.pc = step])
<1>1. frame[c].np \in Nat
  BY DEF FrameType
<1>2. [frame[c] EXCEPT !.np = frame[c].np, !.pc = step]
        = [frame[c] EXCEPT !.pc = step]
  BY DEF FrameType
<1> QED
  BY <1>1, <1>2 DEF Goto

\* The statements of ReleaseNameplate that only read.
LEMMA ReleaseReadStep ==
  ASSUME IInv, NEW c \in Conns,
         ReleaseSelect(c) \/ ReleaseSelectSide(c) \/ ReleaseCount(c)
  PROVE  IInv'
<1>1. /\ frame[c] \in FrameType /\ frame[c].pc \in ReleaseSteps
      /\ UNCHANGED <<store, Memory, History>>
  BY Here DEF ReleaseSelect, ReleaseSelectSide, ReleaseCount, At
<1>2. ASSUME NEW step \in ReleaseSteps \cup {"ok"}, Goto(c, step)
      PROVE  IInv'
  <2>1. /\ frame[c].np \in Nat
        /\ Move(c, [frame[c] EXCEPT !.np = frame[c].np, !.pc = step])
    BY <1>1, <1>2, GotoNp
  <2> QED
    BY <1>1, <2>1, ReleaseFrame, MoveStep DEF store
<1>3. ASSUME NEW r \in nameplates,
             Move(c, [frame[c] EXCEPT !.np = r.id, !.pc = "rel_side"])
      PROVE  IInv'
  <2>1. r.id \in Nat
    BY DEF IInv, TypeOK, StoreTypeOK
  <2> QED
    BY <1>1, <1>3, <2>1, ReleaseFrame, MoveStep DEF store
<1> QED
  BY <1>2, <1>3
  DEF ReleaseSelect, ReleaseSelectSide, ReleaseCount, FirstNameplate,
      NameplateRows

\* And those that write.
LEMMA ReleaseWriteStep ==
  ASSUME IInv, NEW c \in Conns,
         ReleaseUpdate(c) \/ ReleaseDeleteSides(c) \/ ReleaseDelete(c)
  PROVE  IInv'
<1>1. PICK step \in {"rel_count", "rel_delnp", "ok"} : Goto(c, step)
  BY DEF ReleaseUpdate, ReleaseDeleteSides, ReleaseDelete
<1> DEFINE g == [frame[c] EXCEPT !.np = frame[c].np, !.pc = step]
<1>2. /\ frame[c] \in FrameType /\ frame[c].pc \in ReleaseSteps
      /\ UNCHANGED <<mailboxes, mailboxSides, messages, npSeq, now,
                     Memory, History>>
  BY Here DEF ReleaseUpdate, ReleaseDeleteSides, ReleaseDelete, At
<1>3. frame[c].np \in Nat /\ Move(c, g)
  BY <1>1, <1>2, GotoNp
<1>4. g \in FrameType /\ FrameInv(c)'
  BY <1>2, <1>3, ReleaseFrame
<1>5. nameplates' \subseteq nameplates
  BY DEF ReleaseUpdate, ReleaseDeleteSides, ReleaseDelete
<1>6. nameplateSides' \subseteq
        [np : Nat, side : StoredSides, claimed : BOOLEAN, by : Conns]
  <2>1. CASE ReleaseUpdate(c)
    BY <2>1 DEF ReleaseUpdate, IInv, TypeOK, StoreTypeOK
  <2>2. CASE ReleaseDeleteSides(c) \/ ReleaseDelete(c)
    BY <2>2 DEF ReleaseDeleteSides, ReleaseDelete, IInv, TypeOK, StoreTypeOK
  <2> QED
    BY <2>1, <2>2
<1>7. NameplateHasMailbox'
  BY <1>2, <1>5, FewerNameplates
<1> HIDE DEF g
<1> QED
  BY <1>2, <1>3, <1>4, <1>5, <1>6, <1>7, NameplateTables
  DEF IInv, TypeOK, StoreTypeOK

-----------------------------------------------------------------------------
(* AddMessage, Close, and a statement that fails. *)

\* AddMessage's frame from one of its steps to the next.
LEMMA AddFrame ==
  ASSUME IInv, NEW c \in Conns, NEW step \in {"broadcast", "add_touch"},
         frame[c].pc \in AddMessageSteps, Goto(c, step),
         mailboxes' = mailboxes, UNCHANGED Memory,
         step = "broadcast" =>
           /\ frame[c].pc = "add_insert"
           /\ [app |-> frame[c].app, mailbox |-> frame[c].box.id,
               side |-> frame[c].side, msg |-> frame[c].msg] \in messages'
  PROVE  /\ [frame[c] EXCEPT !.pc = step] \in FrameType
         /\ FrameInv(c)'
<1> DEFINE f == frame[c]
           g == [f EXCEPT !.pc = step]
<1>1. f \in FrameType /\ FrameInv(c) /\ step \in Steps
  BY Here DEF Steps, DBSteps
<1>2. g \in FrameType /\ frame'[c] = g
  BY <1>1, FrameFields, GotoFrame
<1>3. /\ g.pc = step /\ g.app = f.app /\ g.home = f.home /\ g.side = f.side
      /\ g.cmd = f.cmd /\ g.then = f.then /\ g.box = f.box /\ g.msg = f.msg
  BY <1>1 DEF FrameType
<1> HIDE DEF g
<1>4. FrameBound(c)' /\ FrameCommand(c)' /\ FrameOpen(c)'
  BY <1>1, <1>2, <1>3
  DEF FrameInv, FrameBound, FrameCommand, FrameOpen, Memory
<1>5. FrameHeld(c)'
  <2>1. f.box \in BoxRefs /\ HasRow(f.box.id, f.app) /\ f.side \in Sides
    BY <1>1 DEF FrameInv, FrameHeld, FrameCommand
  <2>2. step = "broadcast" => f.msg \in Msgs
    BY <1>1 DEF FrameInv, FrameHeld
  <2>3. \A id, app : id = f.box.id /\ app = f.app => HasRow(id, app)'
    BY <2>1 DEF HasRow
  <2> QED
    BY <1>2, <1>3, <2>1, <2>2, <2>3 DEF FrameHeld
<1> QED
  BY <1>2, <1>4, <1>5 DEF FrameInv, g

LEMMA AddInsertStep ==
  ASSUME IInv, NEW c \in Conns, AddInsert(c)
  PROVE  IInv'
<1> DEFINE f == frame[c]
           row == [app |-> f.app, mailbox |-> f.box.id, side |-> f.side,
                   msg |-> f.msg]
<1>1. f \in FrameType /\ FrameInv(c) /\ f.pc = "add_insert"
  BY Here DEF AddInsert, At
<1>2. /\ messages' = messages \cup {row} /\ Goto(c, "broadcast")
      /\ UNCHANGED <<mailboxes, mailboxSides, nameplates, nameplateSides,
                     npSeq, now, Memory, History>>
  BY DEF AddInsert
<1>3. row \in [app : AppIDs, mailbox : MailboxIDs, side : Sides, msg : Msgs]
  BY <1>1 DEF FrameInv, FrameBound, FrameHeld, BoxRefs
<1>4. [f EXCEPT !.pc = "broadcast"] \in FrameType /\ FrameInv(c)'
  BY <1>1, <1>2, AddFrame
<1>5. StoreTypeOK' /\ Grows
  BY <1>2, <1>3 DEF IInv, TypeOK, StoreTypeOK, Grows, History
<1>6. TablesInv' /\ HistoryInv'
  BY <1>2, <1>5, TablesKept, HistoryKept DEF IInv, Memory, History
<1> QED
  BY <1>2, <1>4, <1>5, <1>6, GrowStep
  DEF Goto, IInv, TypeOK, ApplicationTypeOK, Memory, History

\* The broadcast reaches listeners of the message's application: the two
\* rows they rely on are one, for the id is a primary key.
LEMMA AddBroadcastStep ==
  ASSUME IInv, NEW c \in Conns, AddBroadcast(c)
  PROVE  IInv'
<1> DEFINE f == frame[c]
           told == {m \in listeners : m.box = f.box /\ m.conn \notin gone}
           copies == { [to |-> l.conn, app |-> f.app, mailbox |-> f.box.id,
                        msg |-> f.msg] : l \in told }
<1>1. f \in FrameType /\ FrameInv(c) /\ f.pc = "broadcast"
  BY Here DEF AddBroadcast, At
<1>2. /\ received' = received \cup copies /\ Goto(c, "add_touch")
      /\ UNCHANGED <<store, Memory, granted>>
  BY DEF AddBroadcast
<1>3. [f EXCEPT !.pc = "add_touch"] \in FrameType /\ FrameInv(c)'
  BY <1>1, <1>2, AddFrame DEF store
<1>4. /\ f.app \in AppIDs /\ f.box \in BoxRefs /\ f.msg \in Msgs
      /\ f.box.id \in MailboxIDs /\ HasRow(f.box.id, f.app)
  BY <1>1 DEF FrameInv, FrameBound, FrameHeld, BoxRefs
<1>5. ASSUME NEW l \in told
      PROVE  /\ l.conn \in Conns /\ sess[l.conn].app = f.app
             /\ LetIn(f.box.id, l.conn)
  <2>1. l \in listeners /\ l.box = f.box
    OBVIOUS
  <2>2. l.conn \in Conns
    BY <2>1 DEF IInv, TypeOK, ApplicationTypeOK
  <2>3. HasRow(f.box.id, sess[l.conn].app) /\ LetIn(f.box.id, l.conn)
    BY <2>1 DEF IInv, ListenersInv
  <2> QED
    BY <1>4, <2>2, <2>3 DEF HasRow, IInv, TablesInv
<1>6. copies \subseteq
        [to : Conns, app : AppIDs, mailbox : MailboxIDs, msg : Msgs]
  BY <1>4, <1>5
<1>7. StoreTypeOK' /\ Grows /\ TablesInv'
  BY <1>2, TablesKept DEF IInv, TypeOK, StoreTypeOK, Grows, store
<1>8. DeliveryIsolation'
  <2>1. ASSUME NEW d \in received'
        PROVE  /\ sess[d.to].app = d.app
               /\ \E g \in granted : g.mailbox = d.mailbox /\ g.by = d.to
    <3>1. CASE d \in received
      BY <3>1 DEF IInv, HistoryInv, DeliveryIsolation
    <3>2. CASE d \in copies
      <4>1. PICK l \in told : d = [to |-> l.conn, app |-> f.app,
                                   mailbox |-> f.box.id, msg |-> f.msg]
        BY <3>2
      <4> QED
        BY <4>1, <1>5 DEF LetIn
    <3> QED
      BY <1>2, <3>1, <3>2
  <2> QED
    BY <1>2, <2>1 DEF DeliveryIsolation, Memory
<1>9. DeliveredIsStored'
  <2>1. ASSUME NEW d \in received'
        PROVE  \E r \in messages : r.app = d.app /\ r.mailbox = d.mailbox
                                   /\ r.msg = d.msg
    <3>1. CASE d \in received
      BY <3>1 DEF IInv, HistoryInv, DeliveredIsStored
    <3>2. CASE d \in copies
      <4>1. d.app = f.app /\ d.mailbox = f.box.id /\ d.msg = f.msg
        BY <3>2
      <4>2. [app |-> f.app, mailbox |-> f.box.id, side |-> f.side,
             msg |-> f.msg] \in messages
        BY <1>1 DEF FrameInv, FrameHeld
      <4> QED
        BY <4>1, <4>2
    <3> QED
      BY <1>2, <3>1, <3>2
  <2> QED
    BY <1>2, <2>1 DEF DeliveredIsStored, store
<1> HIDE DEF copies
<1> QED
  BY <1>2, <1>3, <1>6, <1>7, <1>8, <1>9, GrowStep
  DEF Goto, HistoryInv, IInv, TypeOK, ApplicationTypeOK, Memory

LEMMA AddTouchStep ==
  ASSUME IInv, NEW c \in Conns, AddTouch(c)
  PROVE  IInv'
<1>1. UNCHANGED <<store, Memory, History>>
  BY TouchedIsSame DEF AddTouch, IInv, TypeOK, store
<1> QED
  BY <1>1, GotoOk DEF AddTouch, At

LEMMA CloseSelectStep ==
  ASSUME IInv, NEW c \in Conns, CloseSelect(c)
  PROVE  IInv'
<1>1. Fail(c) \/ Goto(c, "ok")
  BY DEF CloseSelect
<1> QED
  BY <1>1, FailStep, GotoOk DEF CloseSelect, At

\* Any statement's failure included, the application keeps the invariant.
LEMMA ApplicationStepInv ==
  ASSUME IInv, NEW c \in Conns, ApplicationStep(c)
  PROVE  IInv'
<1>1. CASE AllocateOrClaimStep(c)
  BY <1>1, FindNameplateStep, ClaimSelectStep, ClaimInsertNameplateStep,
     ClaimSelectSideStep, ClaimInsertSideStep, ClaimCountStep
  DEF AllocateOrClaimStep
<1>2. CASE OpenStep(c)
  BY <1>2, AddMailboxCountStep, AddMailboxInsertStep, MapGetStep, MapPutStep,
     OpenSelectSideStep, OpenInsertSideStep, OpenTouchStep, OpenCountStep
  DEF OpenStep
<1>3. CASE ReleaseStep(c)
  BY <1>3, ReleaseReadStep, ReleaseWriteStep DEF ReleaseStep
<1>4. CASE MessageOrCloseStep(c)
  BY <1>4, AddInsertStep, AddBroadcastStep, AddTouchStep, CloseSelectStep
  DEF MessageOrCloseStep
<1>5. CASE StatementFails(c)
  BY <1>5, FailStep DEF StatementFails
<1> QED
  BY <1>1, <1>2, <1>3, <1>4, <1>5 DEF ApplicationStep

-----------------------------------------------------------------------------
(* The beginnings of the handlers. *)

LEMMA CallFields ==
  ASSUME IInv, NEW c \in Conns, IsBound(c),
         NEW cmd \in Commands, NEW step \in Steps
  PROVE  /\ CallFrame(c, cmd, step) \in FrameType
         /\ CallFrame(c, cmd, step).pc = step
         /\ CallFrame(c, cmd, step).cmd = cmd
         /\ CallFrame(c, cmd, step).app = sess[c].app
         /\ CallFrame(c, cmd, step).home = sess[c].home
         /\ CallFrame(c, cmd, step).side = sess[c].side
         /\ CallFrame(c, cmd, step).then = "map_get"
         /\ sess[c].app \in AppIDs /\ sess[c].home \in Conns
         /\ sess[c].side \in Sides /\ c \notin gone
<1>1. sess[c] \in SessType /\ SessInv(c) /\ sess[c].home # None
  BY DEF IInv, TypeOK, IsBound
<1>2. /\ sess[c].app \in AppIDs /\ sess[c].home \in Conns
      /\ sess[c].side \in Sides /\ c \notin gone
  BY <1>1 DEF SessInv, SessType
<1> QED
  BY <1>2 DEF CallFrame, FrameType, Idle, StoredSides

LEMMA CallSteps ==
  /\ {"find", "np_select", "rel_np"} \subseteq Steps
  /\ {"allocate", "claim", "release"} \subseteq Commands
BY DEF Steps, DBSteps, Commands

\* A handler that is bound begins.
LEMMA BeginStep ==
  ASSUME IInv, NEW c \in Conns, NEW f \in FrameType, Begin(c, f),
         f.app = sess[c].app, f.home = sess[c].home, f.side \in StoredSides,
         f.pc \notin {"idle", "apps_put"}, f.cmd # "bind", f.then # "idle",
         FrameCommand(c)', FrameOpen(c)', FrameHeld(c)'
  PROVE  IInv'
<1>1. /\ Move(c, f) /\ UNCHANGED <<store, Memory, History>>
      /\ IsBound(c) /\ c \notin gone
  BY DEF Begin, Ready
<1>2. sess[c].app \in AppIDs /\ sess[c].home \in Conns
  BY <1>1 DEF IInv, TypeOK, SessType, SessInv, IsBound
<1>3. frame'[c] = f
  BY <1>1, MoveFrame
<1>4. FrameBound(c)'
  BY <1>1, <1>2, <1>3 DEF FrameBound, Memory
<1> QED
  BY <1>1, <1>4, MoveStep DEF FrameInv

LEMMA BeginFrame ==
  ASSUME IInv, NEW c \in Conns, NEW f \in FrameType, Begin(c, f)
  PROVE  /\ frame'[c] = f /\ UNCHANGED <<store, Memory, History>>
         /\ IsBound(c)
BY MoveFrame DEF Begin

LEMMA HandleAllocateStep ==
  ASSUME IInv, NEW c \in Conns, HandleAllocate(c)
  PROVE  IInv'
<1> DEFINE f == CallFrame(c, "allocate", "find")
<1>1. Begin(c, f) /\ IsBound(c)
  BY DEF HandleAllocate, Begin
<1>2. /\ f \in FrameType /\ f.pc = "find" /\ f.cmd = "allocate"
      /\ f.app = sess[c].app /\ f.home = sess[c].home
      /\ f.side \in StoredSides /\ f.then = "map_get"
  BY <1>1, CallFields, CallSteps DEF StoredSides
<1>3. frame'[c] = f
  BY <1>1, <1>2, BeginFrame
<1> HIDE DEF f
<1>4. FrameCommand(c)' /\ FrameOpen(c)' /\ FrameHeld(c)'
  BY <1>2, <1>3 DEF FrameCommand, FrameOpen, FrameHeld
<1> QED
  BY <1>1, <1>2, <1>4, BeginStep

LEMMA HandleClaimStep ==
  ASSUME IInv, NEW c \in Conns, HandleClaim(c)
  PROVE  IInv'
<1>1. PICK n \in Names : Begin(c, [CallFrame(c, "claim", "np_select")
                                     EXCEPT !.name = n, !.side = n])
  BY DEF HandleClaim
<1> DEFINE f == CallFrame(c, "claim", "np_select")
           g == [f EXCEPT !.name = n, !.side = n]
<1>2. /\ f \in FrameType /\ f.pc = "np_select" /\ f.cmd = "claim"
      /\ f.app = sess[c].app /\ f.home = sess[c].home /\ f.then = "map_get"
  BY <1>1, CallFields, CallSteps DEF Begin
<1> HIDE DEF f
<1>3. /\ g \in FrameType /\ g.pc = "np_select" /\ g.cmd = "claim"
      /\ g.app = f.app /\ g.home = f.home
      /\ g.side = n /\ g.name = n /\ g.then = f.then
      /\ n \in StoredSides
  BY <1>2 DEF FrameType, StoredSides
<1> HIDE DEF g
<1>4. frame'[c] = g
  BY <1>1, <1>3, BeginFrame DEF f, g
<1>5. FrameCommand(c)' /\ FrameOpen(c)' /\ FrameHeld(c)'
  BY <1>3, <1>4 DEF FrameCommand, FrameOpen, FrameHeld
<1> QED
  BY <1>1, <1>2, <1>3, <1>5, BeginStep DEF f, g

LEMMA HandleReleaseStep ==
  ASSUME IInv, NEW c \in Conns, HandleRelease(c)
  PROVE  IInv'
<1> DEFINE f == CallFrame(c, "release", "rel_np")
           g == [f EXCEPT !.name = sess[c].nameplate]
<1>1. Begin(c, g) /\ IsBound(c) /\ sess[c].nameplate # None
  BY DEF HandleRelease, Begin
<1>2. /\ f \in FrameType /\ f.pc = "rel_np" /\ f.cmd = "release"
      /\ f.app = sess[c].app /\ f.home = sess[c].home
      /\ f.side \in StoredSides /\ f.then = "map_get"
  BY <1>1, CallFields, CallSteps DEF StoredSides
<1>3. sess[c].nameplate \in Names
  BY <1>1 DEF IInv, TypeOK, SessType
<1> HIDE DEF f
<1>4. /\ g \in FrameType /\ g.pc = "rel_np" /\ g.cmd = "release"
      /\ g.app = f.app /\ g.home = f.home /\ g.side = f.side
      /\ g.then = f.then
  BY <1>2, <1>3 DEF FrameType
<1> HIDE DEF g
<1>5. frame'[c] = g
  BY <1>1, <1>4, BeginFrame
<1>6. FrameCommand(c)' /\ FrameOpen(c)' /\ FrameHeld(c)'
  BY <1>4, <1>5 DEF FrameCommand, FrameOpen, FrameHeld
<1> QED
  BY <1>1, <1>2, <1>4, <1>6, BeginStep

\* HandleOpen, and HandleClose with the mailbox it opens first.
LEMMA BeginOpenStep ==
  ASSUME IInv, NEW c \in Conns, NEW cmd \in {"open", "reopen"},
         NEW id \in MailboxIDs, sess[c].mailbox = None,
         cmd = "reopen" => ~sess[c].closed,
         Begin(c, [CallFrame(c, cmd, "mb_count") EXCEPT !.mailbox = id])
  PROVE  IInv'
<1> DEFINE f == CallFrame(c, cmd, "mb_count")
           g == [f EXCEPT !.mailbox = id]
<1>1. /\ f \in FrameType /\ f.pc = "mb_count" /\ f.cmd = cmd
      /\ f.app = sess[c].app /\ f.home = sess[c].home
      /\ f.side \in StoredSides /\ f.then = "map_get"
  <2>1. "mb_count" \in Steps /\ cmd \in Commands /\ IsBound(c)
    BY DEF Steps, DBSteps, Commands, Begin
  <2> QED
    BY <2>1, CallFields DEF StoredSides
<1> HIDE DEF f
<1>2. /\ g \in FrameType /\ g.pc = "mb_count" /\ g.cmd = cmd
      /\ g.app = f.app /\ g.home = f.home /\ g.side = f.side
      /\ g.then = f.then /\ g.mailbox = id
  BY <1>1 DEF FrameType
<1> HIDE DEF g
<1>3. frame'[c] = g /\ sess' = sess
  BY <1>2, BeginFrame DEF f, g, Memory
<1>4. FrameCommand(c)' /\ FrameOpen(c)' /\ FrameHeld(c)'
  BY <1>1, <1>2, <1>3 DEF FrameCommand, FrameOpen, FrameHeld
<1> QED
  BY <1>1, <1>2, <1>4, BeginStep DEF f, g

LEMMA HandleOpenStep ==
  ASSUME IInv, NEW c \in Conns, HandleOpen(c)
  PROVE  IInv'
BY BeginOpenStep DEF HandleOpen

LEMMA HandleAddStep ==
  ASSUME IInv, NEW c \in Conns, HandleAdd(c)
  PROVE  IInv'
<1>1. PICK m \in Msgs :
        Begin(c, [CallFrame(c, "add", "add_insert")
                    EXCEPT !.box = sess[c].mailbox, !.msg = m])
  BY DEF HandleAdd
<1> DEFINE f == CallFrame(c, "add", "add_insert")
           g == [f EXCEPT !.box = sess[c].mailbox, !.msg = m]
<1>2. /\ f \in FrameType /\ f.pc = "add_insert" /\ f.cmd = "add"
      /\ f.app = sess[c].app /\ f.home = sess[c].home
      /\ f.side \in Sides /\ f.then = "map_get"
  <2>1. "add_insert" \in Steps /\ "add" \in Commands /\ IsBound(c)
    BY <1>1 DEF Steps, DBSteps, Commands, Begin
  <2> QED
    BY <2>1, CallFields
<1>3. /\ sess[c].mailbox \in BoxRefs
      /\ HasRow(sess[c].mailbox.id, sess[c].app)
  BY DEF HandleAdd, IInv, TypeOK, SessType, SessInv
<1> HIDE DEF f
<1>4. /\ g \in FrameType /\ g.pc = "add_insert" /\ g.cmd = "add"
      /\ g.app = f.app /\ g.home = f.home /\ g.side = f.side
      /\ g.then = f.then /\ g.box = sess[c].mailbox /\ g.msg = m
  BY <1>2, <1>3 DEF FrameType
<1> HIDE DEF g
<1>5. frame'[c] = g /\ mailboxes' = mailboxes
  BY <1>1, <1>4, BeginFrame DEF f, g, store
<1>6. FrameCommand(c)' /\ FrameOpen(c)'
  BY <1>4, <1>5 DEF FrameCommand, FrameOpen
<1>7. FrameHeld(c)'
  <2>1. \A id, app : id = sess[c].mailbox.id /\ app = sess[c].app
                       => HasRow(id, app)'
    BY <1>3, <1>5 DEF HasRow
  <2> QED
    BY <1>2, <1>3, <1>4, <1>5, <2>1 DEF FrameHeld
<1> QED
  BY <1>1, <1>2, <1>4, <1>6, <1>7, BeginStep DEF f, g, StoredSides

LEMMA HandleCloseStep ==
  ASSUME IInv, NEW c \in Conns, HandleClose(c)
  PROVE  IInv'
<1> DEFINE f == CallFrame(c, "close", "close_select")
           g == [f EXCEPT !.box = sess[c].mailbox]
<1>1. CASE sess[c].mailbox = None
  BY <1>1, BeginOpenStep DEF HandleClose
<1>2. CASE sess[c].mailbox # None
  <2>1. Begin(c, g) /\ IsBound(c)
    BY <1>2 DEF HandleClose, Begin
  <2>2. /\ f \in FrameType /\ f.pc = "close_select" /\ f.cmd = "close"
        /\ f.app = sess[c].app /\ f.home = sess[c].home
        /\ f.side \in StoredSides /\ f.then = "map_get"
    <3>1. "close_select" \in Steps /\ "close" \in Commands
      BY DEF Steps, DBSteps, Commands
    <3> QED
      BY <2>1, <3>1, CallFields DEF StoredSides
  <2>3. /\ sess[c].mailbox \in BoxRefs
        /\ HasRow(sess[c].mailbox.id, sess[c].app)
    BY <1>2 DEF IInv, TypeOK, SessType, SessInv
  <2> HIDE DEF f
  <2>4. /\ g \in FrameType /\ g.pc = "close_select" /\ g.cmd = "close"
        /\ g.app = f.app /\ g.home = f.home /\ g.side = f.side
        /\ g.then = f.then /\ g.box = sess[c].mailbox
    BY <2>2, <2>3 DEF FrameType
  <2> HIDE DEF g
  <2>5. /\ frame'[c] = g /\ mailboxes' = mailboxes /\ sess' = sess
    BY <2>1, <2>4, BeginFrame DEF store, Memory
  <2>6. FrameCommand(c)' /\ FrameOpen(c)'
    BY <2>4, <2>5 DEF FrameCommand, FrameOpen, HandleClose
  <2>7. FrameHeld(c)'
    <3>1. \A id, app : id = sess[c].mailbox.id /\ app = sess[c].app
                         => HasRow(id, app)'
      BY <2>3, <2>5 DEF HasRow
    <3> QED
      BY <2>2, <2>3, <2>4, <2>5, <3>1 DEF FrameHeld
  <2> QED
    BY <2>1, <2>2, <2>4, <2>6, <2>7, BeginStep
<1> QED
  BY <1>1, <1>2

-----------------------------------------------------------------------------
(* Steps that change a Client object, the Apps map or the listeners. *)

LEMMA ClientStep ==
  ASSUME IInv, NEW c \in Conns,
         NEW f \in FrameType, Move(c, f),
         NEW s \in SessType, sess' = [sess EXCEPT ![c] = s],
         s.app = sess[c].app \/ sess[c].app = None,
         UNCHANGED <<store, boxOf, History>>,
         apps' \in [AppIDs -> Conns \cup {None}],
         gone' \subseteq Conns, gone' \ {c} = gone \ {c},
         listeners' \subseteq [box : BoxRefs, conn : Conns, handle : 1..2],
         \A l \in listeners' \ listeners :
           l.conn = c /\ HasRow(l.box.id, s.app) /\ LetIn(l.box.id, c),
         FrameInv(c)', SessInv(c)'
  PROVE  IInv'
<1>1. /\ frame' \in [Conns -> FrameType]
      /\ \A d \in Conns \ {c} : frame'[d] = frame[d]
  BY MoveFrame
<1>2. /\ sess' \in [Conns -> SessType] /\ sess'[c] = s
      /\ \A d \in Conns \ {c} : sess'[d] = sess[d]
  BY DEF IInv, TypeOK
<1>3. TypeOK'
  BY <1>1, <1>2
  DEF IInv, TypeOK, StoreTypeOK, ApplicationTypeOK, store, History
<1>4. \A d \in Conns \ {c} : FrameInv(d)' /\ SessInv(d)'
  BY <1>1, <1>2, OthersKept DEF IInv, Grows, store, History
<1>5. TablesInv' /\ DeliveredIsStored'
  BY DEF IInv, TablesInv, HistoryInv, NameplateHasMailbox, MailboxRows,
         DeliveredIsStored, store, History
<1>6. /\ \A id, app : HasRow(id, app) <=> HasRow(id, app)'
      /\ \A id, d : LetIn(id, d) <=> LetIn(id, d)'
  BY DEF HasRow, LetIn, store, History
<1>7. \A id : ~ HasRow(id, None)
  BY StoreAssumption DEF HasRow, IInv, TypeOK, StoreTypeOK
<1>8. ListenersInv'
  <2>1. ASSUME NEW l \in listeners'
        PROVE  HasRow(l.box.id, sess'[l.conn].app) /\ LetIn(l.box.id, l.conn)
    <3>1. l.conn \in Conns
      OBVIOUS
    <3>2. CASE l \in listeners
      <4>1. HasRow(l.box.id, sess[l.conn].app) /\ LetIn(l.box.id, l.conn)
        BY <3>2 DEF IInv, ListenersInv
      <4> QED
        BY <1>2, <1>7, <3>1, <4>1
    <3>3. CASE l \notin listeners
      BY <1>2, <3>3
    <3> QED
      BY <3>2, <3>3
  <2> QED
    BY <1>6, <2>1 DEF ListenersInv
<1>9. DeliveryIsolation'
  <2>1. ASSUME NEW d \in received
        PROVE  sess'[d.to].app = d.app
    <3>1. d.to \in Conns /\ d.app \in AppIDs /\ sess[d.to].app = d.app
      BY DEF IInv, TypeOK, ApplicationTypeOK, HistoryInv, DeliveryIsolation
    <3> QED
      BY <1>2, <3>1, StoreAssumption
  <2> QED
    BY <2>1 DEF IInv, HistoryInv, DeliveryIsolation, History
<1> QED
  BY <1>3, <1>4, <1>5, <1>8, <1>9 DEF IInv, HistoryInv

\* Such a step that also ends the handler.
LEMMA EndStep ==
  ASSUME IInv, NEW c \in Conns, Fail(c),
         NEW s \in SessType, sess' = [sess EXCEPT ![c] = s],
         s.app = sess[c].app \/ sess[c].app = None,
         UNCHANGED <<store, boxOf, History>>,
         apps' \in [AppIDs -> Conns \cup {None}],
         gone' \subseteq Conns, gone' \ {c} = gone \ {c},
         listeners' \subseteq [box : BoxRefs, conn : Conns, handle : 1..2],
         \A l \in listeners' \ listeners :
           l.conn = c /\ HasRow(l.box.id, s.app) /\ LetIn(l.box.id, c),
         s.home # None => s.app \in AppIDs /\ s.side \in Sides /\ c \notin gone',
         s.home = None /\ c \notin gone' => s.app = None,
         s.mailbox # None => HasRow(s.mailbox.id, s.app),
         s.handle <= (IF s.closed THEN 1 ELSE 0)
                     + (IF s.mailbox # None THEN 1 ELSE 0)
  PROVE  IInv'
<1>1. FrameInv(c)'
  BY IdleType, MoveFrame, IdleInv DEF Fail
<1>2. sess'[c] = s
  BY DEF IInv, TypeOK
<1>3. \A id, app : HasRow(id, app) <=> HasRow(id, app)'
  BY DEF HasRow, store
<1>4. SessInv(c)'
  BY <1>2, <1>3 DEF SessInv
<1> QED
  BY <1>1, <1>4, IdleType, ClientStep DEF Fail

LEMMA BindStep ==
  ASSUME IInv, NEW c \in Conns, NEW a \in AppIDs, NEW s \in Sides,
         NEW k \in Conns, c \notin gone, sess[c].app = None,
         sess[c].home = None, BindTo(c, a, s, k)
  PROVE  \E t \in SessType :
           /\ sess' = [sess EXCEPT ![c] = t]
           /\ t.app = a /\ t.side = s /\ t.home = k
           /\ t.mailbox = sess[c].mailbox /\ t.handle = sess[c].handle
           /\ t.closed = sess[c].closed
<1> DEFINE t == [sess[c] EXCEPT !.app = a, !.side = s, !.home = k]
<1>1. sess[c] \in SessType
  BY DEF IInv, TypeOK
<1>2. t \in SessType
  BY <1>1 DEF SessType
<1>3. sess' = [sess EXCEPT ![c] = t]
  BY DEF BindTo, IInv, TypeOK
<1>4. /\ t.app = a /\ t.side = s /\ t.home = k
      /\ t.mailbox = sess[c].mailbox /\ t.handle = sess[c].handle
      /\ t.closed = sess[c].closed
  BY <1>1 DEF SessType
<1> QED
  BY <1>2, <1>3, <1>4

LEMMA HandleBindStep ==
  ASSUME IInv, NEW c \in Conns, HandleBind(c)
  PROVE  IInv'
<1>1. /\ frame[c].pc = "idle" /\ c \notin gone
      /\ sess[c].home = None /\ sess[c].app = None
  BY Here DEF HandleBind, Ready, At, IsBound, SessInv
<1>2. PICK a \in AppIDs, s \in Sides :
        \/ /\ apps[a] # None
           /\ BindTo(c, a, s, apps[a])
           /\ UNCHANGED frame
        \/ /\ apps[a] = None
           /\ Move(c, [Idle EXCEPT !.pc = "apps_put", !.app = a, !.side = s])
           /\ UNCHANGED sess
  BY DEF HandleBind
<1>3. UNCHANGED <<store, boxOf, listeners, gone, History, apps>>
  BY DEF HandleBind
<1>4. CASE apps[a] # None /\ BindTo(c, a, s, apps[a]) /\ UNCHANGED frame
  <2>1. apps[a] \in Conns
    BY <1>4 DEF IInv, TypeOK
  <2>2. PICK t \in SessType :
          /\ sess' = [sess EXCEPT ![c] = t]
          /\ t.app = a /\ t.side = s /\ t.home = apps[a]
          /\ t.mailbox = sess[c].mailbox /\ t.handle = sess[c].handle
          /\ t.closed = sess[c].closed
    BY <1>1, <1>4, <2>1, BindStep
  <2>3. sess'[c] = t /\ Move(c, frame[c])
    BY <1>4, <2>2 DEF Move, IInv, TypeOK, ApplicationTypeOK
  <2>4. \A id : ~ HasRow(id, None)
    BY StoreAssumption DEF HasRow, IInv, TypeOK, StoreTypeOK
  <2>5. sess[c].mailbox = None
    BY <1>1, <2>4, Here DEF SessInv
  <2>6. SessInv(c)'
    BY <1>1, <1>3, <2>1, <2>2, <2>3, <2>5, Here, StoreAssumption DEF SessInv
  <2>7. FrameInv(c)'
    BY <1>1, <1>4, Here
    DEF FrameInv, FrameBound, FrameCommand, FrameOpen, FrameHeld
  <2> QED
    BY <1>1, <1>3, <2>2, <2>3, <2>6, <2>7, Here, ClientStep
    DEF IInv, TypeOK, ApplicationTypeOK
<1>5. CASE /\ Move(c, [Idle EXCEPT !.pc = "apps_put", !.app = a, !.side = s])
           /\ UNCHANGED sess
  <2> DEFINE g == [Idle EXCEPT !.pc = "apps_put", !.app = a, !.side = s]
  <2>1. g \in FrameType
    BY DEF Idle, FrameType, Steps, Commands, StoredSides
  <2>2. /\ g.pc = "apps_put" /\ g.app = a /\ g.side = s /\ g.cmd = "bind"
    BY DEF Idle
  <2> HIDE DEF g
  <2>3. frame'[c] = g
    BY <1>5, <2>1, MoveFrame DEF g
  <2>4. FrameInv(c)'
    BY <1>1, <1>3, <1>5, <2>2, <2>3
    DEF FrameInv, FrameBound, FrameCommand, FrameOpen, FrameHeld
  <2> QED
    BY <1>3, <1>5, <2>1, <2>4, MoveStep DEF g, Memory
<1> QED
  BY <1>2, <1>4, <1>5

LEMMA GetAppInsertStep ==
  ASSUME IInv, NEW c \in Conns, GetAppInsert(c)
  PROVE  IInv'
<1> DEFINE a == frame[c].app
           s == frame[c].side
<1>1. /\ sess[c].home = None /\ sess[c].app = None /\ c \notin gone
      /\ a \in AppIDs /\ s \in Sides
  BY Here DEF GetAppInsert, At, FrameInv, FrameBound
<1>2. /\ apps' = [apps EXCEPT ![a] = c] /\ BindTo(c, a, s, c) /\ Fail(c)
      /\ UNCHANGED <<store, boxOf, listeners, gone, History>>
  BY DEF GetAppInsert
<1> HIDE DEF a, s
<1>3. PICK t \in SessType :
        /\ sess' = [sess EXCEPT ![c] = t]
        /\ t.app = a /\ t.side = s /\ t.home = c
        /\ t.mailbox = sess[c].mailbox /\ t.handle = sess[c].handle
        /\ t.closed = sess[c].closed
  BY <1>1, <1>2, BindStep
<1>4. apps' \in [AppIDs -> Conns \cup {None}]
  BY <1>1, <1>2 DEF IInv, TypeOK
<1>5. \A id : ~ HasRow(id, None)
  BY StoreAssumption DEF HasRow, IInv, TypeOK, StoreTypeOK
<1>6. /\ sess[c].mailbox = None
      /\ t.handle <= (IF t.closed THEN 1 ELSE 0)
                     + (IF t.mailbox # None THEN 1 ELSE 0)
  BY <1>1, <1>3, <1>5, Here DEF SessInv
<1>7. listeners \subseteq [box : BoxRefs, conn : Conns, handle : 1..2]
      /\ gone \subseteq Conns
  BY DEF IInv, TypeOK, ApplicationTypeOK
<1> QED
  BY <1>1, <1>2, <1>3, <1>4, <1>6, <1>7, StoreAssumption, EndStep

\* The handlers whose end leaves the client's mailbox as it is.
LEMMA SimpleEnds ==
  ASSUME IInv, NEW c \in Conns,
         Allocated(c) \/ Claimed(c) \/ Released(c) \/ Added(c)
  PROVE  IInv'
<1>1. /\ Fail(c) /\ At(c, "ok")
      /\ UNCHANGED <<store, boxOf, gone, History, apps, listeners>>
  BY DEF Allocated, Claimed, Released, Added, Finish
<1>2. sess[c] \in SessType /\ SessInv(c)
  BY DEF IInv, TypeOK
<1>3. PICK t \in SessType :
        /\ sess' = [sess EXCEPT ![c] = t]
        /\ t.app = sess[c].app /\ t.side = sess[c].side
        /\ t.home = sess[c].home /\ t.mailbox = sess[c].mailbox
        /\ t.handle = sess[c].handle /\ t.closed = sess[c].closed
  <2>1. CASE Allocated(c)
    <3> DEFINE t == [sess[c] EXCEPT !.allocated = TRUE]
    <3>1. t \in SessType /\ sess' = [sess EXCEPT ![c] = t]
      BY <1>2, <2>1 DEF Allocated, SessType, IInv, TypeOK
    <3> QED
      BY <1>2, <3>1 DEF SessType
  <2>2. CASE Claimed(c)
    <3> DEFINE t == [sess[c] EXCEPT !.claimed = TRUE,
                                    !.nameplate = frame[c].name]
    <3>1. t \in SessType /\ sess' = [sess EXCEPT ![c] = t]
      BY <1>2, <2>2, Here DEF Claimed, SessType, FrameType, IInv, TypeOK
    <3> QED
      BY <1>2, <3>1 DEF SessType
  <2>3. CASE Released(c)
    <3> DEFINE t == [sess[c] EXCEPT !.released = TRUE]
    <3>1. t \in SessType /\ sess' = [sess EXCEPT ![c] = t]
      BY <1>2, <2>3 DEF Released, SessType, IInv, TypeOK
    <3> QED
      BY <1>2, <3>1 DEF SessType
  <2>4. CASE Added(c)
    <3>1. sess' = [sess EXCEPT ![c] = sess[c]]
      BY <2>4 DEF Added, IInv, TypeOK
    <3> QED
      BY <1>2, <3>1
  <2> QED
    BY <2>1, <2>2, <2>3, <2>4
<1>4. /\ listeners \subseteq [box : BoxRefs, conn : Conns, handle : 1..2]
      /\ gone \subseteq Conns /\ apps \in [AppIDs -> Conns \cup {None}]
  BY DEF IInv, TypeOK, ApplicationTypeOK
<1> QED
  BY <1>1, <1>2, <1>3, <1>4, EndStep DEF SessInv

LEMMA OpenedStep ==
  ASSUME IInv, NEW c \in Conns, Opened(c)
  PROVE  IInv'
<1> DEFINE b == frame[c].box
           h == sess[c].handle + 1
           t == [sess[c] EXCEPT !.mailbox = b, !.handle = h]
           l == [box |-> b, conn |-> c, handle |-> h]
<1>1. frame[c].pc = "ok" /\ frame[c].cmd = "open" /\ Fail(c)
  BY DEF Opened, Finish, At
<1>2. /\ sess' = [sess EXCEPT ![c] = t] /\ listeners' = listeners \cup {l}
      /\ UNCHANGED <<store, boxOf, gone, History, apps>>
  BY DEF Opened, Finish, IInv, TypeOK
<1>3. /\ b \in BoxRefs /\ HasRow(b.id, sess[c].app) /\ LetIn(b.id, c)
      /\ sess[c].mailbox = None /\ b # None
      /\ sess[c].home # None
  BY <1>1, Here, StoreAssumption, ApplicationAssumption
  DEF FrameInv, FrameBound, FrameCommand, FrameOpen
<1>4. sess[c] \in SessType /\ SessInv(c)
  BY DEF IInv, TypeOK
<1>5. h \in 1..2 /\ h \in 0..2 /\ h <= (IF sess[c].closed THEN 1 ELSE 0) + 1
  BY <1>3, <1>4 DEF SessType, SessInv
<1> HIDE DEF b, h
<1>6. /\ t \in SessType /\ t.app = sess[c].app /\ t.side = sess[c].side
      /\ t.home = sess[c].home /\ t.mailbox = b /\ t.handle = h
      /\ t.closed = sess[c].closed
  BY <1>3, <1>4, <1>5 DEF SessType
<1>7. /\ l \in [box : BoxRefs, conn : Conns, handle : 1..2]
      /\ l.conn = c /\ l.box = b
  BY <1>3, <1>5
<1> HIDE DEF t, l
<1>8. /\ listeners' \subseteq [box : BoxRefs, conn : Conns, handle : 1..2]
      /\ gone \subseteq Conns /\ apps \in [AppIDs -> Conns \cup {None}]
  BY <1>2, <1>7 DEF IInv, TypeOK, ApplicationTypeOK
<1>9. /\ t.home # None => t.app \in AppIDs /\ t.side \in Sides /\ c \notin gone
      /\ t.mailbox # None => HasRow(t.mailbox.id, t.app)
      /\ t.handle <= (IF t.closed THEN 1 ELSE 0)
                     + (IF t.mailbox # None THEN 1 ELSE 0)
  BY <1>3, <1>4, <1>5, <1>6 DEF SessInv
<1>10. \A m \in listeners' \ listeners :
         m.conn = c /\ HasRow(m.box.id, t.app) /\ LetIn(m.box.id, c)
  BY <1>2, <1>3, <1>6, <1>7
<1> QED
  BY <1>1, <1>2, <1>3, <1>6, <1>8, <1>9, <1>10, EndStep

LEMMA ClosedStep ==
  ASSUME IInv, NEW c \in Conns, Closed(c)
  PROVE  IInv'
<1> DEFINE t == [sess[c] EXCEPT !.mailbox = None, !.closed = TRUE]
<1>1. frame[c].pc = "ok" /\ frame[c].cmd = "close" /\ Fail(c)
  BY DEF Closed, Finish, At
<1>2. /\ sess' = [sess EXCEPT ![c] = t]
      /\ UNCHANGED <<store, boxOf, gone, History, apps, listeners>>
  BY DEF Closed, Finish, IInv, TypeOK
<1>3. /\ sess[c] \in SessType /\ SessInv(c)
      /\ ~sess[c].closed /\ sess[c].home # None
  BY <1>1, Here, StoreAssumption
  DEF FrameInv, FrameBound, FrameCommand, IInv, TypeOK
<1>4. /\ t \in SessType /\ t.app = sess[c].app /\ t.side = sess[c].side
      /\ t.home = sess[c].home /\ t.mailbox = None /\ t.closed
      /\ t.handle = sess[c].handle
  BY <1>3 DEF SessType
<1>5. t.handle <= 1
  BY <1>3, <1>4 DEF SessInv, SessType
<1> HIDE DEF t
<1>6. /\ listeners \subseteq [box : BoxRefs, conn : Conns, handle : 1..2]
      /\ gone \subseteq Conns /\ apps \in [AppIDs -> Conns \cup {None}]
  BY DEF IInv, TypeOK, ApplicationTypeOK
<1>7. t.home # None => t.app \in AppIDs /\ t.side \in Sides /\ c \notin gone
  BY <1>3, <1>4 DEF SessInv
<1>8. t.handle <= (IF t.closed THEN 1 ELSE 0)
                  + (IF t.mailbox # None THEN 1 ELSE 0)
  BY <1>4, <1>5
<1> QED
  BY <1>1, <1>2, <1>3, <1>4, <1>6, <1>7, <1>8, EndStep

LEMMA ReopenedStep ==
  ASSUME IInv, NEW c \in Conns, Reopened(c)
  PROVE  IInv'
<1> DEFINE f == frame[c]
           b == f.box
           g == [f EXCEPT !.cmd = "close", !.pc = "close_select"]
           t == [sess[c] EXCEPT !.mailbox = b]
<1>1. f \in FrameType /\ FrameInv(c) /\ f.pc = "ok" /\ f.cmd = "reopen"
  BY Here DEF Reopened, At
<1>2. /\ sess' = [sess EXCEPT ![c] = t] /\ Move(c, g)
      /\ UNCHANGED <<store, boxOf, listeners, gone, History, apps>>
  BY DEF Reopened, IInv, TypeOK
<1>3. /\ b \in BoxRefs /\ HasRow(b.id, sess[c].app) /\ b # None
      /\ sess[c].mailbox = None /\ ~sess[c].closed
      /\ f.app = sess[c].app
  BY <1>1, ApplicationAssumption
  DEF FrameInv, FrameBound, FrameCommand, FrameOpen
<1>4. sess[c] \in SessType /\ SessInv(c)
  BY DEF IInv, TypeOK
<1>5. /\ g \in FrameType /\ g.pc = "close_select" /\ g.cmd = "close"
      /\ g.app = f.app /\ g.home = f.home /\ g.side = f.side
      /\ g.then = f.then /\ g.box = b
  <2>1. "close_select" \in Steps /\ "close" \in Commands
    BY DEF Steps, DBSteps, Commands
  <2> QED
    BY <1>1, <2>1 DEF FrameType
<1> HIDE DEF b, g
<1>6. /\ t \in SessType /\ t.app = sess[c].app /\ t.side = sess[c].side
      /\ t.home = sess[c].home /\ t.mailbox = b /\ t.closed = sess[c].closed
      /\ t.handle = sess[c].handle
  BY <1>3, <1>4 DEF SessType
<1> HIDE DEF t
<1>7. frame'[c] = g /\ sess'[c] = t
  BY <1>2, <1>5, MoveFrame DEF IInv, TypeOK
<1>8. \A id, app : HasRow(id, app) <=> HasRow(id, app)'
  BY <1>2 DEF HasRow, store
<1>9. FrameBound(c)' /\ FrameCommand(c)' /\ FrameOpen(c)' /\ FrameHeld(c)'
  <2>1. FrameBound(c)'
    BY <1>1, <1>2, <1>5, <1>6, <1>7 DEF FrameInv, FrameBound
  <2>2. FrameCommand(c)' /\ FrameOpen(c)'
    BY <1>3, <1>5, <1>6, <1>7 DEF FrameCommand, FrameOpen
  <2>3. FrameHeld(c)'
    BY <1>3, <1>5, <1>7, <1>8 DEF FrameHeld
  <2> QED
    BY <2>1, <2>2, <2>3
<1>10. SessInv(c)'
  BY <1>2, <1>3, <1>4, <1>6, <1>7, <1>8 DEF SessInv, SessType
<1>11. /\ listeners \subseteq [box : BoxRefs, conn : Conns, handle : 1..2]
       /\ gone \subseteq Conns /\ apps \in [AppIDs -> Conns \cup {None}]
  BY DEF IInv, TypeOK, ApplicationTypeOK
<1> QED
  BY <1>2, <1>5, <1>6, <1>9, <1>10, <1>11, ClientStep DEF FrameInv

LEMMA DepartedFields ==
  ASSUME IInv, NEW c \in Conns
  PROVE  /\ Departed(c) \in SessType /\ Departed(c).app = sess[c].app
         /\ Departed(c).home = None /\ Departed(c).mailbox = None
         /\ Departed(c).handle = 0 /\ ~Departed(c).closed
<1>1. sess[c] \in SessType
  BY DEF IInv, TypeOK
<1>2. /\ NewClient \in SessType /\ NewClient.home = None
      /\ NewClient.mailbox = None /\ NewClient.handle = 0
      /\ ~NewClient.closed
  BY DEF NewClient, SessType
<1> QED
  BY <1>1, <1>2 DEF Departed, SessType

LEMMA DisconnectStep ==
  ASSUME IInv, NEW c \in Conns, Disconnect(c)
  PROVE  IInv'
<1>1. /\ frame[c].pc = "idle" /\ frame[c] \in FrameType
      /\ sess' = [sess EXCEPT ![c] = Departed(c)]
      /\ gone' = gone \cup {c} /\ listeners' \subseteq listeners
      /\ UNCHANGED <<store, boxOf, frame, History, apps>>
  BY Here DEF Disconnect, Ready, At
<1>2. Move(c, frame[c]) /\ sess'[c] = Departed(c)
  BY <1>1 DEF Move, IInv, TypeOK, ApplicationTypeOK
<1>3. FrameInv(c)'
  BY <1>1, Here DEF FrameInv, FrameBound, FrameCommand, FrameOpen, FrameHeld
<1>4. SessInv(c)'
  BY <1>1, <1>2, DepartedFields DEF SessInv
<1> QED
  BY <1>1, <1>2, <1>3, <1>4, DepartedFields, ClientStep
  DEF IInv, TypeOK, ApplicationTypeOK

\* Of a process that died the tables, which every handler's invariant was
\* careful to be about, are all that is left.
LEMMA RestartStep ==
  ASSUME IInv, Restart
  PROVE  IInv'
<1>1. PICK Up \in SUBSET Conns :
        /\ gone' = gone \cup Up
        /\ sess' = [c \in Conns |-> IF c \in Up THEN Departed(c) ELSE sess[c]]
        /\ \A c \in Conns \ Up : sess[c].home = None
  BY DEF Restart, IsBound
<1>2. /\ boxOf' = NoBoxes /\ listeners' = {}
      /\ frame' = [c \in Conns |-> Idle] /\ apps' = [a \in AppIDs |-> None]
      /\ UNCHANGED <<store, History>>
  BY DEF Restart
<1>3. \A c \in Conns : sess'[c] \in SessType /\ sess'[c].app = sess[c].app
  BY <1>1, DepartedFields DEF IInv, TypeOK
<1>4. TypeOK'
  <2>1. sess' \in [Conns -> SessType]
    BY <1>1, <1>3
  <2>2. StoreTypeOK'
    BY <1>2 DEF IInv, TypeOK, StoreTypeOK, store
  <2>3. ApplicationTypeOK'
    BY <1>1, <1>2, IdleType
    DEF IInv, TypeOK, ApplicationTypeOK, NoBoxes, History
  <2> QED
    BY <1>2, <2>1, <2>2, <2>3 DEF TypeOK
<1>5. \A id, app : HasRow(id, app) <=> HasRow(id, app)'
  BY <1>2 DEF HasRow, store
<1>6. ASSUME NEW c \in Conns
      PROVE  FrameInv(c)' /\ SessInv(c)'
  <2>1. FrameInv(c)'
    BY <1>2, IdleInv
  <2>2. CASE c \in Up
    <3>1. SessInv(c)'
      BY <1>1, <2>2, DepartedFields DEF SessInv
    <3> QED
      BY <2>1, <3>1
  <2>3. CASE c \notin Up
    <3>1. sess'[c] = sess[c] /\ sess[c].home = None
          /\ (c \in gone <=> c \in gone')
      BY <1>1, <2>3
    <3>2. SessInv(c)'
      BY <1>5, <3>1 DEF IInv, SessInv
    <3> QED
      BY <2>1, <3>2
  <2> QED
    BY <2>2, <2>3
<1>7. TablesInv' /\ ListenersInv'
  BY <1>2
  DEF IInv, TablesInv, ListenersInv, NameplateHasMailbox, MailboxRows, store
<1>8. HistoryInv'
  <2>1. \A d \in received : d.to \in Conns
    BY DEF IInv, TypeOK, ApplicationTypeOK
  <2>2. DeliveryIsolation'
    BY <1>2, <1>3, <2>1 DEF IInv, HistoryInv, DeliveryIsolation, History
  <2>3. DeliveredIsStored'
    BY <1>2 DEF IInv, HistoryInv, DeliveredIsStored, History, store
  <2> QED
    BY <2>2, <2>3 DEF HistoryInv
<1> QED
  BY <1>4, <1>6, <1>7, <1>8 DEF IInv

-----------------------------------------------------------------------------
(* The invariant. *)

LEMMA InitInv == Init => IInv
<1> SUFFICES ASSUME Init PROVE IInv
  OBVIOUS
<1> USE DEF Init, StoreInit, ApplicationInit
<1>1. TypeOK
  <2>1. NewClient \in SessType
    BY DEF NewClient, SessType
  <2> QED
    BY <2>1, IdleType DEF TypeOK, StoreTypeOK, ApplicationTypeOK, NoBoxes
<1>2. \A c \in Conns : FrameInv(c)
  BY DEF FrameInv, FrameBound, FrameCommand, FrameOpen, FrameHeld, Idle
<1>3. \A c \in Conns : SessInv(c)
  BY DEF SessInv, NewClient
<1>4. TablesInv
  BY FS_EmptySet DEF TablesInv, NameplateHasMailbox
<1>5. ListenersInv /\ HistoryInv
  BY DEF ListenersInv, HistoryInv, DeliveryIsolation, DeliveredIsStored
<1> QED
  BY <1>1, <1>2, <1>3, <1>4, <1>5 DEF IInv

LEMMA NextInv == IInv /\ [Next]_vars => IInv'
<1> SUFFICES ASSUME IInv, [Next]_vars PROVE IInv'
  OBVIOUS
<1>1. ASSUME NEW c \in Conns, Begins(c) PROVE IInv'
  BY <1>1, HandleBindStep, HandleAllocateStep, HandleClaimStep,
     HandleReleaseStep, HandleOpenStep, HandleAddStep, HandleCloseStep
  DEF Begins
<1>2. ASSUME NEW c \in Conns, ApplicationStep(c) PROVE IInv'
  BY <1>2, ApplicationStepInv
<1>3. ASSUME NEW c \in Conns, Ends(c) PROVE IInv'
  BY <1>3, GetAppInsertStep, SimpleEnds, OpenedStep, ReopenedStep, ClosedStep
  DEF Ends
<1>4. ASSUME NEW c \in Conns, Disconnect(c) PROVE IInv'
  BY <1>4, DisconnectStep
<1>5. CASE Crash \/ \E c \in Conns : AllocatePanics(c)
  BY <1>5, RestartStep DEF Crash, AllocatePanics
<1>6. CASE UNCHANGED vars
  <2>1. UNCHANGED <<store, Memory, History, frame>>
    BY <1>6 DEF vars, application, Memory, History
  <2>2. /\ frame' \in [Conns -> FrameType]
        /\ \A c \in Conns : FrameInv(c)' /\ SessInv(c)'
    BY <2>1, OthersKept
    DEF IInv, TypeOK, ApplicationTypeOK, Grows, store, Memory, History
  <2>3. TypeOK'
    BY <2>1 DEF IInv, TypeOK, StoreTypeOK, ApplicationTypeOK, store, Memory,
                History
  <2>4. TablesInv' /\ ListenersInv' /\ HistoryInv'
    BY <2>1
    DEF IInv, TablesInv, ListenersInv, HistoryInv, NameplateHasMailbox,
        MailboxRows, HasRow, LetIn, DeliveryIsolation, DeliveredIsStored,
        store, Memory, History
  <2> QED
    BY <2>2, <2>3, <2>4 DEF IInv
<1> QED
  BY <1>1, <1>2, <1>3, <1>4, <1>5, <1>6 DEF Next

LEMMA Invariance == Spec => []IInv
BY InitInv, NextInv, PTL DEF Spec

\* Every variable keeps its type: in particular no handler is ever left
\* without an application, a Mailbox object or an id its step uses.
THEOREM TypeCorrect == Spec => []TypeOK
<1>1. IInv => TypeOK
  BY DEF IInv
<1> QED
  BY <1>1, Invariance, PTL

\* For any number of connections and applications, a broadcast crosses no
\* application and reaches only who OpenMailbox let in.
THEOREM Isolation == Spec => []DeliveryIsolation
<1>1. IInv => DeliveryIsolation
  BY DEF IInv, HistoryInv
<1> QED
  BY <1>1, Invariance, PTL

\* No interleaving, failed statement or crash of ClaimNameplate, which opens
\* no transaction, leaves a nameplate without its mailbox.
THEOREM NameplateIntegrity == Spec => []NameplateHasMailbox
<1>1. IInv => NameplateHasMailbox
  BY DEF IInv, TablesInv
<1> QED
  BY <1>1, Invariance, PTL

\* What a client holds is in the database under the client's application.
THEOREM HeldIntegrity == Spec => []HeldMailboxExists
<1>1. IInv => HeldMailboxExists
  BY DEF IInv, SessInv, HeldMailboxExists, HasRow, MailboxRows
<1> QED
  BY <1>1, Invariance, PTL

\* A message a client was handed is in the messages table.
THEOREM StoredBeforeDelivered == Spec => []DeliveredIsStored
<1>1. IInv => DeliveredIsStored
  BY DEF IInv, HistoryInv
<1> QED
  BY <1>1, Invariance, PTL

=============================================================================
