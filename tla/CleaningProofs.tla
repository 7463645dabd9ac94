--------------------------- MODULE CleaningProofs ---------------------------
(***************************************************************************)
(* What module Cleaning promises for every number of connections,          *)
(* applications and mailboxes, every interval, any clock, any statements   *)
(* that fail and any steps the process dies at.                            *)
(*                                                                         *)
(* The inductive invariant has three parts.  ClockInv bounds the sweep's   *)
(* limit by the ticker: two ticks the cleaner takes are an interval apart, *)
(* also when a tick was dropped or the process came back.  SweepInv says   *)
(* what the cleaner's lists still mean at each of its statements, whatever *)
(* the handlers did since they were read.  LinkInv, which needs an         *)
(* interval longer than a handler, says that no handler is about to insert *)
(* a nameplate for a mailbox on those lists.                               *)
(***************************************************************************)
EXTENDS Cleaning, TLAPS

-----------------------------------------------------------------------------
(* The invariant. *)

AddSteps == {"mb_count", "mb_insert"}
MailboxSteps == AddSteps \cup {"np_insert", "nps_select", "nps_insert"}

NameSteps == {"del_npsides", "del_np"}
BoxSteps == {"del_msgs", "del_mbsides", "del_mb"}
OldSteps == {"names"} \cup NameSteps \cup BoxSteps
UseSteps == {"use_mb", "use_np"}

\* The tables' keys.
StoreInv ==
  /\ now \in Nat /\ npSeq \in Nat
  /\ \A r \in mailboxes :
       /\ r.id \in MailboxIDs
       /\ r.updated \in Nat /\ r.updated <= now
       /\ \A q \in mailboxes : q.id = r.id => q = r
  /\ \A n \in nameplates :
       /\ n.id \in Nat /\ n.id <= npSeq /\ n.mailbox \in MailboxIDs
       /\ \A m \in nameplates : m.id = n.id => m = n

\* The mailbox a handler is about to look for, insert or name is a mailbox's.
FrameShape(f) ==
  /\ DOMAIN f = DOMAIN Idle
  /\ f.pc \in MailboxSteps => f.mailbox \in MailboxIDs
  /\ f.pc \in AddSteps => f.then \in {"np_insert", "map_get"}

FramesInv ==
  /\ DOMAIN frame = Conns
  /\ \A c \in Conns : FrameShape(frame[c])

\* The last tick the cleaner took.
LastTick == IF CleanerAt("idle") THEN lastCleaning ELSE cleaner.tick

\* It, the tick that waits and the next one are an interval apart.
ClockInv ==
  /\ nextTick \in Nat /\ now < nextTick
  /\ LastTick \in Int
  /\ LastTick + CleaningInterval <= nextTick
  /\ \/ ticks = <<>>
     \/ \E t \in 0..now :
          /\ ticks = <<t>>
          /\ LastTick + CleaningInterval <= t
          /\ t + CleaningInterval <= nextTick

\* A listed mailbox is as old as the limit until it is deleted, and nothing
\* else of the application is.  A listed nameplate is a listed mailbox's.
SweepInv ==
  /\ DOMAIN cleaner = DOMAIN Resting
  /\ ~CleanerAt("idle") =>
       /\ cleaner.since \in Int /\ cleaner.tick \in Int
       /\ cleaner.since + CleaningInterval <= cleaner.tick
       /\ cleaner.tick <= now
  /\ cleaner.pc \in OldSteps =>
       \A id \in cleaner.old : \E r \in mailboxes :
         r.id = id /\ r.app = cleaner.app /\ r.updated <= cleaner.since
  /\ cleaner.pc \in OldSteps \cup UseSteps =>
       \A r \in mailboxes :
         r.app = cleaner.app /\ r.updated <= cleaner.since =>
           cleaner.pc \in OldSteps /\ r.id \in cleaner.old
  /\ cleaner.pc \in NameSteps =>
       /\ \A np \in cleaner.names : np \in Nat /\ np <= npSeq
       /\ \A n \in nameplates : n.id \in cleaner.names => n.mailbox \in cleaner.old
  /\ CleanerAt("del_np") => cleaner.np \in cleaner.names
  /\ cleaner.pc \in {"del_mbsides", "del_mb"} => cleaner.box \in cleaner.old

CInv == StoreInv /\ FramesInv /\ ClockInv /\ SweepInv

\* How far the clock may be ahead of what a running handler has read.
Slack(c) == IF c \in lingering THEN 1 ELSE 0

\* ClaimNameplate: the mailbox it found or inserted is as young as its call.
Young(c) ==
  LET f == frame[c] IN
  /\ f.pc \in AddSteps /\ f.then = "np_insert" =>
       \A r \in mailboxes : r.id = f.mailbox => r.updated + Slack(c) >= now
  /\ f.pc = "np_insert" =>
       \E r \in mailboxes : r.id = f.mailbox /\ r.app = f.app
                            /\ r.updated + Slack(c) >= now

LinkInv ==
  /\ NameplateHasMailbox
  /\ \A c \in Conns : Young(c)
  /\ cleaner.pc \in NameSteps =>
       \A n \in nameplates : n.mailbox \in cleaner.old => n.id \in cleaner.names
  /\ cleaner.pc \in BoxSteps => \A n \in nameplates : n.mailbox \notin cleaner.old

-----------------------------------------------------------------------------
(* What a step of a handler does. *)

Handler(c) == Begins(c) \/ ApplicationStep(c) \/ Ends(c) \/ Disconnect(c)

\* It adds at most a mailbox of a new id, and a nameplate its frame names.
Tables(c) ==
  /\ now' = now
  /\ \A r \in mailboxes : r \in mailboxes'
  /\ \A r, q \in mailboxes' \ mailboxes : r = q
  /\ \A r \in mailboxes' \ mailboxes :
       /\ r.id \in MailboxIDs /\ r.updated = now
       /\ \A q \in mailboxes : q.id # r.id
  /\ npSeq' = npSeq \/ npSeq' = npSeq + 1
  /\ \A n, m \in nameplates' \ nameplates : n = m
  /\ \A n \in nameplates' \ nameplates :
       /\ frame[c].pc = "np_insert"
       /\ n.id = npSeq + 1 /\ npSeq' = npSeq + 1
       /\ n.app = frame[c].app /\ n.mailbox = frame[c].mailbox

\* It moves one frame.  A claim comes to AddMailbox with an id no mailbox
\* has, and to the nameplate's insertion with the mailbox in the table.
Moves(c) ==
  LET f == frame[c]
      g == frame'[c]
  IN
  /\ DOMAIN frame' = Conns
  /\ \A d \in Conns \ {c} : frame'[d] = frame[d]
  /\ FrameShape(g)
  /\ g.pc \in AddSteps /\ g.then = "np_insert" =>
       /\ mailboxes' = mailboxes
       /\ \/ \A r \in mailboxes : r.id # g.mailbox
          \/ f.pc \in AddSteps /\ f.then = "np_insert" /\ f.mailbox = g.mailbox
  /\ g.pc = "np_insert" =>
       /\ f.pc \in AddSteps /\ f.then = "np_insert" /\ f.mailbox = g.mailbox
       /\ \E r \in mailboxes' : r.id = g.mailbox /\ r.app = g.app

LEMMA TouchedIsSame ==
  ASSUME NEW id, StoreInv
  PROVE  Touched(id) = mailboxes
<1>1. Arg(<<2, 1>>, <<id, now>>, 1) = now
  BY DEF Arg
<1>2. \A r \in mailboxes : r.id # now
  BY StoreAssumption DEF StoreInv
<1> QED
  BY <1>1, <1>2 DEF Touched

\* A frame that changes only where no mailbox matters.
LEMMA MovesOn ==
  ASSUME CInv, NEW c \in Conns, NEW f, Move(c, f), DOMAIN f = DOMAIN Idle,
         f.pc \notin MailboxSteps
  PROVE  Moves(c)
<1>1. /\ DOMAIN frame' = Conns
      /\ \A d \in Conns \ {c} : frame'[d] = frame[d]
      /\ frame'[c] = f
  BY DEF Move, CInv, FramesInv
<1> QED
  BY <1>1 DEF Moves, FrameShape, MailboxSteps, AddSteps

LEMMA GotoOn ==
  ASSUME CInv, NEW c \in Conns, NEW step, Goto(c, step),
         step \notin MailboxSteps
  PROVE  Moves(c)
<1>1. DOMAIN frame[c] = DOMAIN Idle
  BY DEF CInv, FramesInv, FrameShape
<1> DEFINE f == [frame[c] EXCEPT !.pc = step]
<1>2. DOMAIN f = DOMAIN Idle /\ f.pc = step
  BY <1>1 DEF Idle
<1>3. Move(c, f)
  BY DEF Goto
<1> HIDE DEF f
<1> QED
  BY <1>2, <1>3, MovesOn

LEMMA FailOn ==
  ASSUME CInv, NEW c \in Conns, Fail(c)
  PROVE  Moves(c)
<1>1. DOMAIN Idle = DOMAIN Idle /\ Idle.pc \notin MailboxSteps
  BY DEF Idle, MailboxSteps, AddSteps
<1> QED
  BY <1>1, MovesOn DEF Fail

\* Tables that no step of the cleaner's concern changes.
LEMMA TablesKept ==
  ASSUME CInv, NEW c \in Conns,
         UNCHANGED <<mailboxes, npSeq, now>>, nameplates' \subseteq nameplates
  PROVE  Tables(c)
BY DEF Tables

LEMMA OpenStepEffect ==
  ASSUME CInv, NEW c \in Conns,
         \/ MapGet(c) \/ MapPut(c) \/ OpenSelectSide(c) \/ OpenInsertSide(c)
         \/ OpenTouch(c) \/ OpenCount(c)
  PROVE  Tables(c) /\ Moves(c)
<1> DEFINE get(k) == [frame[c] EXCEPT !.box = [id |-> frame[c].mailbox, by |-> k],
                                      !.pc = "mbs_select"]
<1>1. \A k : DOMAIN get(k) = DOMAIN Idle /\ get(k).pc = "mbs_select"
  BY DEF CInv, FramesInv, FrameShape, Idle
<1>2. UNCHANGED <<mailboxes, npSeq, now, nameplates>>
  BY TouchedIsSame DEF MapGet, MapPut, OpenSelectSide, OpenInsertSide,
     OpenTouch, OpenCount, store, CInv
<1>3. Tables(c)
  BY <1>2, TablesKept
<1>4. CASE MapGet(c)
  <2>1. Goto(c, "map_put") \/ Move(c, get(boxOf[frame[c].home][frame[c].mailbox]))
    BY <1>4 DEF MapGet
  <2> HIDE DEF get
  <2>2. PICK k : Goto(c, "map_put") \/ Move(c, get(k))
    BY <2>1
  <2>3. "map_put" \notin MailboxSteps /\ "mbs_select" \notin MailboxSteps
    BY DEF MailboxSteps, AddSteps
  <2> QED
    BY <1>1, <1>3, <2>2, <2>3, GotoOn, MovesOn
<1>5. CASE MapPut(c)
  <2>1. Move(c, get(c))
    BY <1>5 DEF MapPut
  <2>2. "mbs_select" \notin MailboxSteps
    BY DEF MailboxSteps, AddSteps
  <2> HIDE DEF get
  <2> QED
    BY <1>1, <1>3, <2>1, <2>2, MovesOn
<1>6. CASE \/ OpenSelectSide(c) \/ OpenInsertSide(c) \/ OpenTouch(c)
           \/ OpenCount(c)
  <2>1. Fail(c) \/ \E step \in {"touch", "mbs_insert", "mbs_count",
                                "nps_count", "ok"} : Goto(c, step)
    BY <1>6 DEF OpenSelectSide, OpenInsertSide, OpenTouch, OpenCount
  <2>2. \A step \in {"touch", "mbs_insert", "mbs_count", "nps_count", "ok"} :
          step \notin MailboxSteps
    BY DEF MailboxSteps, AddSteps
  <2> QED
    BY <1>3, <2>1, <2>2, GotoOn, FailOn
<1> QED
  BY <1>4, <1>5, <1>6

LEMMA ReleaseStepEffect ==
  ASSUME CInv, NEW c \in Conns, ReleaseStep(c)
  PROVE  Tables(c) /\ Moves(c)
<1> DEFINE chosen(np) == [frame[c] EXCEPT !.np = np, !.pc = "rel_side"]
<1>1. \A np : DOMAIN chosen(np) = DOMAIN Idle /\ chosen(np).pc = "rel_side"
  BY DEF CInv, FramesInv, FrameShape, Idle
<1>2. UNCHANGED <<mailboxes, npSeq, now>> /\ nameplates' \subseteq nameplates
  BY DEF ReleaseStep, ReleaseSelect, ReleaseSelectSide, ReleaseUpdate,
     ReleaseCount, ReleaseDeleteSides, ReleaseDelete, store
<1>3. \/ \E step \in {"ok", "rel_update", "rel_count", "rel_delsides",
                      "rel_delnp"} : Goto(c, step)
      \/ \E np : Move(c, chosen(np))
  BY DEF ReleaseStep, ReleaseSelect, ReleaseSelectSide, ReleaseUpdate,
     ReleaseCount, ReleaseDeleteSides, ReleaseDelete
<1>4. \A step \in {"ok", "rel_update", "rel_count", "rel_delsides",
                   "rel_delnp", "rel_side"} : step \notin MailboxSteps
  BY DEF MailboxSteps, AddSteps
<1> HIDE DEF chosen
<1> QED
  BY <1>1, <1>2, <1>3, <1>4, GotoOn, MovesOn, TablesKept

LEMMA MessageStepEffect ==
  ASSUME CInv, NEW c \in Conns,
         MessageOrCloseStep(c) \/ StatementFails(c) \/ ClaimCount(c)
  PROVE  Tables(c) /\ Moves(c)
<1>1. UNCHANGED <<mailboxes, npSeq, now, nameplates>>
  BY TouchedIsSame DEF MessageOrCloseStep, AddInsert, AddBroadcast, AddTouch,
     CloseSelect, StatementFails, ClaimCount, store, CInv
<1>2. Fail(c) \/ \E step \in {"broadcast", "add_touch", "ok"} : Goto(c, step)
  BY DEF MessageOrCloseStep, AddInsert, AddBroadcast, AddTouch, CloseSelect,
     StatementFails, ClaimCount
<1>3. \A step \in {"broadcast", "add_touch", "ok"} : step \notin MailboxSteps
  BY DEF MailboxSteps, AddSteps
<1> QED
  BY <1>1, <1>2, <1>3, GotoOn, FailOn, TablesKept

LEMMA AddMailboxEffect ==
  ASSUME CInv, NEW c \in Conns, AddMailboxCount(c) \/ AddMailboxInsert(c)
  PROVE  Tables(c) /\ Moves(c)
<1> DEFINE f == frame[c]
           at(step) == [f EXCEPT !.pc = step]
           row == [id |-> f.mailbox, app |-> f.app, updated |-> now]
<1>1. /\ f.pc \in AddSteps /\ f.mailbox \in MailboxIDs
      /\ f.then \in {"np_insert", "map_get"}
  BY DEF CInv, FramesInv, FrameShape, AddMailboxCount, AddMailboxInsert, At,
     AddSteps, MailboxSteps
<1>2. \A step : /\ DOMAIN at(step) = DOMAIN Idle
                /\ at(step).pc = step /\ at(step).then = f.then
                /\ at(step).mailbox = f.mailbox /\ at(step).app = f.app
  BY DEF CInv, FramesInv, FrameShape, Idle
<1>3. ASSUME NEW step, Goto(c, step),
             \/ step = "mb_insert" /\ mailboxes' = mailboxes
             \/ step = f.then /\ \E r \in mailboxes' : r.id = f.mailbox
                                                       /\ r.app = f.app
      PROVE  Moves(c)
  <2>1. /\ DOMAIN frame' = Conns
        /\ \A d \in Conns \ {c} : frame'[d] = frame[d]
        /\ frame'[c] = at(step)
    BY <1>3 DEF Goto, Move, CInv, FramesInv
  <2> HIDE DEF at
  <2>2. /\ DOMAIN frame'[c] = DOMAIN Idle
        /\ frame'[c].pc = step /\ frame'[c].then = f.then
        /\ frame'[c].mailbox = f.mailbox /\ frame'[c].app = f.app
    BY <1>2, <2>1
  <2> QED
    BY <1>1, <1>3, <2>1, <2>2 DEF Moves, FrameShape, MailboxSteps, AddSteps
<1>4. CASE AddMailboxCount(c)
  <2>1. UNCHANGED <<mailboxes, npSeq, now, nameplates>>
    BY <1>4 DEF AddMailboxCount, store
  <2>2. \/ Goto(c, "mb_insert")
        \/ /\ Goto(c, f.then)
           /\ \E r \in mailboxes : r.id = f.mailbox /\ r.app = f.app
    BY <1>4 DEF AddMailboxCount, MailboxRows
  <2> QED
    BY <1>3, <2>1, <2>2, TablesKept
<1>5. CASE AddMailboxInsert(c)
  <2>1. CASE \E r \in mailboxes : r.id = f.mailbox
    <3>1. Fail(c) /\ UNCHANGED <<mailboxes, npSeq, now, nameplates>>
      BY <1>5, <2>1 DEF AddMailboxInsert
    <3> QED
      BY <3>1, FailOn, TablesKept
  <2>2. CASE \A r \in mailboxes : r.id # f.mailbox
    <3>1. /\ mailboxes' = mailboxes \cup {row}
          /\ UNCHANGED <<npSeq, now, nameplates>>
          /\ Goto(c, f.then)
      BY <1>5, <2>2 DEF AddMailboxInsert
    <3>2. row.id = f.mailbox /\ row.app = f.app /\ row.updated = now
      OBVIOUS
    <3> HIDE DEF row
    <3>3. Tables(c)
      BY <1>1, <2>2, <3>1, <3>2 DEF Tables
    <3> QED
      BY <1>3, <3>1, <3>2, <3>3
  <2> QED
    BY <2>1, <2>2
<1> QED
  BY <1>4, <1>5

LEMMA ClaimStepEffect ==
  ASSUME CInv, NEW c \in Conns,
         \/ FindNameplate(c) \/ ClaimSelect(c) \/ ClaimInsertNameplate(c)
         \/ ClaimSelectSide(c) \/ ClaimInsertSide(c)
  PROVE  Tables(c) /\ Moves(c)
<1> DEFINE f == frame[c]
           named(n) == [f EXCEPT !.name = n, !.pc = "np_select"]
           found(r) == [f EXCEPT !.np = r.id, !.mailbox = r.mailbox,
                                 !.pc = "nps_select"]
           new(id) == [f EXCEPT !.mailbox = id, !.then = "np_insert",
                                !.pc = "mb_count"]
           plate == [f EXCEPT !.np = npSeq + 1, !.pc = "nps_select"]
           open == [f EXCEPT !.then = "map_get", !.pc = "mb_count"]
           insert == [f EXCEPT !.pc = "nps_insert"]
<1>1. /\ DOMAIN f = DOMAIN Idle /\ DOMAIN frame = Conns
      /\ f.pc \in MailboxSteps => f.mailbox \in MailboxIDs
  BY DEF CInv, FramesInv, FrameShape
<1>2. ASSUME NEW g, Move(c, g), DOMAIN g = DOMAIN Idle,
             g.pc \in {"nps_select", "nps_insert", "mb_count"},
             g.mailbox \in MailboxIDs,
             g.pc = "mb_count" =>
               \/ g.then = "map_get"
               \/ /\ g.then = "np_insert" /\ mailboxes' = mailboxes
                  /\ \A r \in mailboxes : r.id # g.mailbox
      PROVE  Moves(c)
  <2>1. /\ DOMAIN frame' = Conns
        /\ \A d \in Conns \ {c} : frame'[d] = frame[d]
        /\ frame'[c] = g
    BY <1>1, <1>2 DEF Move
  <2> QED
    BY <1>2, <2>1 DEF Moves, FrameShape, MailboxSteps, AddSteps
<1>3. CASE FindNameplate(c)
  <2>1. PICK n : Move(c, named(n))
    BY <1>3 DEF FindNameplate
  <2>2. DOMAIN named(n) = DOMAIN Idle /\ named(n).pc \notin MailboxSteps
    BY <1>1 DEF Idle, MailboxSteps, AddSteps
  <2>3. Tables(c)
    BY <1>3, TablesKept DEF FindNameplate, store
  <2> HIDE DEF named
  <2> QED
    BY <2>1, <2>2, <2>3, MovesOn
<1>4. CASE ClaimSelect(c)
  <2>1. UNCHANGED <<mailboxes, npSeq, now, nameplates>>
    BY <1>4 DEF ClaimSelect, store
  <2>2. Tables(c)
    BY <2>1, TablesKept
  <2>3. \/ \E r \in nameplates : Move(c, found(r))
        \/ \E id \in FreshMailboxIDs : Move(c, new(id))
    BY <1>4 DEF ClaimSelect, FirstNameplate, NameplateRows
  <2>4. CASE \E r \in nameplates : Move(c, found(r))
    <3>1. PICK r \in nameplates : Move(c, found(r))
      BY <2>4
    <3>2. r.mailbox \in MailboxIDs
      BY DEF CInv, StoreInv
    <3>3. /\ DOMAIN found(r) = DOMAIN Idle
          /\ found(r).pc = "nps_select" /\ found(r).mailbox = r.mailbox
      BY <1>1 DEF Idle
    <3> HIDE DEF found
    <3> QED
      BY <1>2, <2>2, <3>1, <3>2, <3>3
  <2>5. CASE \E id \in FreshMailboxIDs : Move(c, new(id))
    <3>1. PICK id \in FreshMailboxIDs : Move(c, new(id))
      BY <2>5
    <3>2. id \in MailboxIDs /\ \A r \in mailboxes : r.id # id
      BY DEF FreshMailboxIDs
    <3>3. /\ DOMAIN new(id) = DOMAIN Idle /\ new(id).pc = "mb_count"
          /\ new(id).then = "np_insert" /\ new(id).mailbox = id
      BY <1>1 DEF Idle
    <3> HIDE DEF new
    <3> QED
      BY <1>2, <2>1, <2>2, <3>1, <3>2, <3>3
  <2> QED
    BY <2>3, <2>4, <2>5
<1>5. CASE ClaimInsertNameplate(c)
  <2>1. f.mailbox \in MailboxIDs /\ f.pc = "np_insert"
    BY <1>1, <1>5 DEF ClaimInsertNameplate, At, MailboxSteps
  <2>2. /\ DOMAIN plate = DOMAIN Idle
        /\ plate.pc = "nps_select" /\ plate.mailbox = f.mailbox
    BY <1>1 DEF Idle
  <2>3. Move(c, plate)
    BY <1>5 DEF ClaimInsertNameplate
  <2> DEFINE row == [id |-> npSeq + 1, app |-> f.app, name |-> f.name,
                     mailbox |-> f.mailbox]
  <2>4. /\ UNCHANGED <<mailboxes, now>> /\ npSeq' = npSeq + 1
        /\ nameplates' = nameplates \cup {row}
    BY <1>5 DEF ClaimInsertNameplate
  <2>5. row.id = npSeq + 1 /\ row.app = f.app /\ row.mailbox = f.mailbox
    OBVIOUS
  <2> HIDE DEF row, plate
  <2>6. Tables(c)
    BY <2>1, <2>4, <2>5 DEF Tables
  <2> QED
    BY <1>2, <2>1, <2>2, <2>3, <2>6
<1>6. CASE ClaimSelectSide(c) \/ ClaimInsertSide(c)
  <2>1. f.mailbox \in MailboxIDs
    BY <1>1, <1>6 DEF ClaimSelectSide, ClaimInsertSide, At, MailboxSteps
  <2>2. Fail(c) \/ Move(c, insert) \/ Move(c, open)
    BY <1>6 DEF ClaimSelectSide, ClaimInsertSide, Goto
  <2>3. /\ DOMAIN insert = DOMAIN Idle
        /\ insert.pc = "nps_insert" /\ insert.mailbox = f.mailbox
        /\ DOMAIN open = DOMAIN Idle /\ open.pc = "mb_count"
        /\ open.then = "map_get" /\ open.mailbox = f.mailbox
    BY <1>1 DEF Idle
  <2>4. Tables(c)
    BY <1>6, TablesKept DEF ClaimSelectSide, ClaimInsertSide, store
  <2> HIDE DEF insert, open
  <2> QED
    BY <1>2, <2>1, <2>2, <2>3, <2>4, FailOn
<1> QED
  BY <1>3, <1>4, <1>5, <1>6

LEMMA ApplicationEffect ==
  ASSUME CInv, NEW c \in Conns, ApplicationStep(c)
  PROVE  Tables(c) /\ Moves(c)
BY ClaimStepEffect, OpenStepEffect, AddMailboxEffect, ReleaseStepEffect,
   MessageStepEffect
DEF ApplicationStep, AllocateOrClaimStep, OpenStep

LEMMA BeginsEffect ==
  ASSUME CInv, NEW c \in Conns, Begins(c)
  PROVE  Tables(c) /\ Moves(c)
<1> DEFINE bind(a, s) == [Idle EXCEPT !.pc = "apps_put", !.app = a, !.side = s]
           call(cmd, step) == CallFrame(c, cmd, step)
           claim(n) == [call("claim", "np_select") EXCEPT !.name = n, !.side = n]
           release == [call("release", "rel_np") EXCEPT !.name = sess[c].nameplate]
           open(cmd, id) == [call(cmd, "mb_count") EXCEPT !.mailbox = id]
           add(m) == [call("add", "add_insert") EXCEPT !.box = sess[c].mailbox,
                                                       !.msg = m]
           close == [call("close", "close_select") EXCEPT !.box = sess[c].mailbox]
<1>1. Tables(c)
  <2>1. UNCHANGED store
    BY DEF Begins, HandleBind, HandleAllocate, HandleClaim, HandleRelease,
       HandleOpen, HandleAdd, HandleClose, Begin
  <2> QED
    BY <2>1, TablesKept DEF store
<1>2. \A a, s : DOMAIN bind(a, s) = DOMAIN Idle /\ bind(a, s).pc = "apps_put"
  BY DEF Idle
<1>3. \A cmd, step : /\ DOMAIN call(cmd, step) = DOMAIN Idle
                     /\ call(cmd, step).pc = step
                     /\ call(cmd, step).then = "map_get"
  BY DEF CallFrame, Idle
<1> HIDE DEF call
<1>4. /\ \A n : DOMAIN claim(n) = DOMAIN Idle /\ claim(n).pc = "np_select"
      /\ DOMAIN release = DOMAIN Idle /\ release.pc = "rel_np"
      /\ \A m : DOMAIN add(m) = DOMAIN Idle /\ add(m).pc = "add_insert"
      /\ DOMAIN close = DOMAIN Idle /\ close.pc = "close_select"
  BY <1>3 DEF Idle
<1>5. \A cmd, id : /\ DOMAIN open(cmd, id) = DOMAIN Idle
                   /\ open(cmd, id).pc = "mb_count"
                   /\ open(cmd, id).then = "map_get"
                   /\ open(cmd, id).mailbox = id
  BY <1>3 DEF Idle
<1>6. \A step \in {"apps_put", "find", "np_select", "rel_np", "add_insert",
                   "close_select"} : step \notin MailboxSteps
  BY DEF MailboxSteps, AddSteps
<1>7. CASE HandleBind(c)
  <2>1. frame' = frame \/ \E a, s : Move(c, bind(a, s))
    BY <1>7 DEF HandleBind
  <2>2. frame[c].pc = "idle"
    BY <1>7 DEF HandleBind, Ready, At
  <2>3. ASSUME frame' = frame PROVE Moves(c)
    BY <2>2, <2>3 DEF Moves, CInv, FramesInv, AddSteps
  <2> HIDE DEF bind
  <2> QED
    BY <1>1, <1>2, <1>6, <2>1, <2>3, MovesOn
<1>8. CASE HandleAllocate(c)
  <2>1. Move(c, call("allocate", "find"))
    BY <1>8 DEF HandleAllocate, Begin, call
  <2> QED
    BY <1>1, <1>3, <1>6, <2>1, MovesOn
<1>9. CASE HandleClaim(c) \/ HandleRelease(c) \/ HandleAdd(c)
  <2>1. \/ \E n : Move(c, claim(n))
        \/ Move(c, release)
        \/ \E m : Move(c, add(m))
    BY <1>9 DEF HandleClaim, HandleRelease, HandleAdd, Begin, call
  <2> HIDE DEF claim, release, add
  <2> QED
    BY <1>1, <1>4, <1>6, <2>1, MovesOn
<1>10. CASE HandleOpen(c) \/ HandleClose(c)
  <2>1. \/ Move(c, close)
        \/ \E id \in MailboxIDs : \E cmd \in {"open", "reopen"} :
             Move(c, open(cmd, id))
    BY <1>10 DEF HandleOpen, HandleClose, Begin, call
  <2> HIDE DEF close, open
  <2>2. CASE Move(c, close)
    BY <1>1, <1>4, <1>6, <2>2, MovesOn
  <2>3. ASSUME NEW id \in MailboxIDs, NEW cmd, Move(c, open(cmd, id))
        PROVE  Moves(c)
    <3>1. /\ DOMAIN frame' = Conns
          /\ \A d \in Conns \ {c} : frame'[d] = frame[d]
          /\ frame'[c] = open(cmd, id)
      BY <2>3 DEF Move, CInv, FramesInv
    <3> QED
      BY <1>5, <3>1 DEF Moves, FrameShape, MailboxSteps, AddSteps
  <2> QED
    BY <1>1, <2>1, <2>2, <2>3
<1> QED
  BY <1>7, <1>8, <1>9, <1>10 DEF Begins

LEMMA EndsEffect ==
  ASSUME CInv, NEW c \in Conns, Ends(c) \/ Disconnect(c)
  PROVE  Tables(c) /\ Moves(c)
<1> DEFINE again == [frame[c] EXCEPT !.cmd = "close", !.pc = "close_select"]
<1>1. UNCHANGED store
  BY DEF Ends, GetAppInsert, Allocated, Claimed, Released, Opened, Added,
     Reopened, Closed, Finish, Disconnect
<1>2. Tables(c)
  BY <1>1, TablesKept DEF store
<1>3. Fail(c) \/ Move(c, again) \/ (frame' = frame /\ frame[c].pc = "idle")
  BY DEF Ends, GetAppInsert, Allocated, Claimed, Released, Opened, Added,
     Reopened, Closed, Finish, Disconnect, Ready, At
<1>4. DOMAIN again = DOMAIN Idle /\ again.pc \notin MailboxSteps
  BY DEF CInv, FramesInv, FrameShape, Idle, MailboxSteps, AddSteps
<1>5. ASSUME frame' = frame, frame[c].pc = "idle" PROVE Moves(c)
  BY <1>5 DEF Moves, CInv, FramesInv, AddSteps
<1> HIDE DEF again
<1> QED
  BY <1>2, <1>3, <1>4, <1>5, FailOn, MovesOn

LEMMA HandlerEffect ==
  ASSUME CInv, NEW c \in Conns, Handler(c)
  PROVE  Tables(c) /\ Moves(c)
BY ApplicationEffect, BeginsEffect, EndsEffect DEF Handler

-----------------------------------------------------------------------------
(* The handlers keep the invariant. *)

LEMMA HandlerInv ==
  ASSUME CInv, NEW c \in Conns, Handler(c), Tables(c), Moves(c),
         UNCHANGED <<cleaner, lastCleaning, ticks, nextTick>>
  PROVE  CInv'
<1>1. /\ \A r \in mailboxes' :
           r \in mailboxes \/ /\ r.id \in MailboxIDs /\ r.updated = now
                              /\ \A q \in mailboxes : q.id # r.id
      /\ \A r, q \in mailboxes' \ mailboxes : r = q
      /\ \A r \in mailboxes : r \in mailboxes'
      /\ now' = now /\ npSeq' \in Nat /\ npSeq <= npSeq'
  BY DEF Tables, CInv, StoreInv
<1>2. \A n \in nameplates' :
        \/ n \in nameplates
        \/ /\ n.id = npSeq + 1 /\ npSeq' = npSeq + 1 /\ n.mailbox \in MailboxIDs
  BY DEF Tables, CInv, FramesInv, FrameShape, MailboxSteps
<1>3. StoreInv'
  <2>1. \A r, q \in mailboxes' : q.id = r.id => q = r
    BY <1>1 DEF CInv, StoreInv
  <2>2. \A r \in mailboxes' :
          r.id \in MailboxIDs /\ r.updated \in Nat /\ r.updated <= now'
    BY <1>1 DEF CInv, StoreInv
  <2>3. \A n \in nameplates' :
          n.id \in Nat /\ n.id <= npSeq' /\ n.mailbox \in MailboxIDs
    BY <1>1, <1>2 DEF CInv, StoreInv
  <2>4. \A n, m \in nameplates' : m.id = n.id => m = n
    <3>1. \A n \in nameplates : n.id \in Nat /\ n.id <= npSeq /\ npSeq \in Nat
      BY DEF CInv, StoreInv
    <3>2. \A n, m \in nameplates : m.id = n.id => m = n
      BY DEF CInv, StoreInv
    <3>3. \A n, m \in nameplates' \ nameplates : n = m
      BY DEF Tables
    <3> QED
      BY <1>2, <3>1, <3>2, <3>3
  <2> QED
    BY <1>1, <2>1, <2>2, <2>3, <2>4 DEF CInv, StoreInv
<1>4. FramesInv'
  BY DEF Moves, CInv, FramesInv
<1>5. ClockInv'
  BY <1>1 DEF CInv, ClockInv, LastTick, CleanerAt
<1>6. SweepInv'
  <2>1. ASSUME cleaner.pc \in OldSteps \cup UseSteps,
               NEW r \in mailboxes', r.app = cleaner.app,
               r.updated <= cleaner.since
        PROVE  cleaner.pc \in OldSteps /\ r.id \in cleaner.old
    <3>1. /\ cleaner.since \in Int /\ cleaner.tick \in Int
          /\ cleaner.since + CleaningInterval <= cleaner.tick
          /\ cleaner.tick <= now /\ now \in Nat
      BY <2>1 DEF CInv, SweepInv, CleanerAt, OldSteps, UseSteps, NameSteps,
         BoxSteps, StoreInv
    <3>2. cleaner.since < now
      BY <3>1, CleaningAssumption
    <3>3. r \in mailboxes
      BY <1>1, <2>1, <3>1, <3>2
    <3> QED
      BY <2>1, <3>3 DEF CInv, SweepInv
  <2>2. ASSUME cleaner.pc \in NameSteps,
               NEW n \in nameplates', n.id \in cleaner.names
        PROVE  n.mailbox \in cleaner.old
    <3>1. n.id <= npSeq /\ npSeq \in Nat
      BY <2>2 DEF CInv, SweepInv, StoreInv
    <3>2. n \in nameplates
      BY <1>2, <3>1
    <3> QED
      BY <2>2, <3>2 DEF CInv, SweepInv
  <2>3. cleaner.pc \in NameSteps =>
          \A np \in cleaner.names : np \in Nat /\ np <= npSeq'
    BY <1>1 DEF CInv, SweepInv, StoreInv
  <2>4. cleaner.pc \in OldSteps =>
          \A id \in cleaner.old : \E r \in mailboxes' :
            r.id = id /\ r.app = cleaner.app /\ r.updated <= cleaner.since
    BY <1>1 DEF CInv, SweepInv
  <2> QED
    BY <1>1, <2>1, <2>2, <2>3, <2>4 DEF CInv, SweepInv, CleanerAt
<1> QED
  BY <1>3, <1>4, <1>5, <1>6 DEF CInv

\* No handler that is about to insert a nameplate has a mailbox that the
\* cleaner lists.
LEMMA YoungIsNotOld ==
  ASSUME CInv, LinkInv, CleaningInterval >= 2, NEW c \in Conns,
         frame[c].pc = "np_insert", cleaner.pc \in OldSteps
  PROVE  frame[c].mailbox \notin cleaner.old
<1> SUFFICES ASSUME frame[c].mailbox \in cleaner.old PROVE FALSE
  OBVIOUS
<1>1. PICK r \in mailboxes : r.id = frame[c].mailbox
                             /\ r.updated + Slack(c) >= now
  BY DEF LinkInv, Young
<1>2. PICK q \in mailboxes : q.id = frame[c].mailbox
                             /\ q.updated <= cleaner.since
  BY DEF CInv, SweepInv
<1>3. q = r /\ r.updated \in Nat /\ now \in Nat
  BY <1>1, <1>2 DEF CInv, StoreInv
<1>4. /\ cleaner.since \in Int /\ cleaner.tick \in Int
      /\ cleaner.since + CleaningInterval <= cleaner.tick
      /\ cleaner.tick <= now
  BY DEF CInv, SweepInv, CleanerAt, OldSteps, NameSteps, BoxSteps
<1>5. Slack(c) \in {0, 1}
  BY DEF Slack
<1> QED
  BY <1>1, <1>2, <1>3, <1>4, <1>5, CleaningAssumption

LEMMA HandlerLink ==
  ASSUME CInv, LinkInv, CleaningInterval >= 2,
         NEW c \in Conns, Handler(c), Tables(c), Moves(c),
         lingering' = {d \in lingering : frame'[d].pc # "idle"},
         UNCHANGED cleaner
  PROVE  LinkInv'
<1>1. /\ now' = now /\ now \in Nat
      /\ \A r \in mailboxes : r \in mailboxes'
      /\ \A r \in mailboxes' : r \in mailboxes \/ r.updated = now
  BY DEF Tables, CInv, StoreInv
<1>2. \A n \in nameplates' :
        \/ n \in nameplates
        \/ /\ frame[c].pc = "np_insert"
           /\ n.app = frame[c].app /\ n.mailbox = frame[c].mailbox
  BY DEF Tables
<1>3. NameplateHasMailbox'
  <2>1. ASSUME NEW n \in nameplates'
        PROVE  \E r \in mailboxes' : r.app = n.app /\ r.id = n.mailbox
    BY <1>1, <1>2 DEF LinkInv, Young, NameplateHasMailbox, MailboxRows
  <2> QED
    BY <2>1 DEF NameplateHasMailbox, MailboxRows
<1>4. ASSUME NEW d \in Conns PROVE Young(d)'
  <2>1. \A x \in Conns : frame'[x].pc # "idle" => Slack(x)' = Slack(x)
    BY DEF Slack
  <2>2. Slack(d) \in {0, 1} /\ \A r \in mailboxes : r.updated \in Nat
    BY DEF Slack, CInv, StoreInv
  <2>3. CASE d # c
    <3>1. frame'[d] = frame[d]
      BY <2>3 DEF Moves
    <3>2. CASE frame[d].pc \in AddSteps \cup {"np_insert"}
      <4>1. Slack(d)' = Slack(d)
        BY <2>1, <3>1, <3>2 DEF AddSteps
      <4>2. (frame[d].pc \in AddSteps /\ frame[d].then = "np_insert") =>
              \A r \in mailboxes' : r.id = frame[d].mailbox
                                    => r.updated + Slack(d) >= now
        BY <1>1, <2>2 DEF LinkInv, Young
      <4>3. frame[d].pc = "np_insert" =>
              \E r \in mailboxes' : r.id = frame[d].mailbox
                /\ r.app = frame[d].app /\ r.updated + Slack(d) >= now
        BY <1>1 DEF LinkInv, Young
      <4> QED
        BY <1>1, <3>1, <4>1, <4>2, <4>3 DEF Young
    <3> QED
      BY <3>1, <3>2 DEF Young
  <2>4. CASE d = c
    <3> DEFINE f == frame[c]
               g == frame'[c]
    <3>1. ASSUME g.pc \in AddSteps, g.then = "np_insert",
                 NEW r \in mailboxes', r.id = g.mailbox
          PROVE  r.updated + Slack(c)' >= now
      <4>1. /\ r \in mailboxes
            /\ f.pc \in AddSteps /\ f.then = "np_insert" /\ r.id = f.mailbox
        BY <3>1 DEF Moves
      <4>2. Slack(c)' = Slack(c)
        BY <2>1, <3>1 DEF AddSteps
      <4> QED
        BY <4>1, <4>2 DEF LinkInv, Young
    <3>2. ASSUME g.pc = "np_insert"
          PROVE  \E r \in mailboxes' : r.id = g.mailbox /\ r.app = g.app
                                       /\ r.updated + Slack(c)' >= now
      <4>1. f.pc \in AddSteps /\ f.then = "np_insert" /\ f.mailbox = g.mailbox
        BY <3>2 DEF Moves
      <4>2. PICK r \in mailboxes' : r.id = g.mailbox /\ r.app = g.app
        BY <3>2 DEF Moves
      <4>3. Slack(c)' = Slack(c)
        BY <2>1, <3>2
      <4>4. CASE r \in mailboxes
        BY <4>1, <4>2, <4>3, <4>4 DEF LinkInv, Young
      <4>5. CASE r.updated = now
        BY <1>1, <2>2, <2>4, <4>2, <4>3, <4>5
      <4> QED
        BY <1>1, <4>4, <4>5
    <3> QED
      BY <1>1, <2>4, <3>1, <3>2 DEF Young
  <2> QED
    BY <2>3, <2>4
<1>5. ASSUME cleaner.pc \in NameSteps,
             NEW n \in nameplates', n.mailbox \in cleaner.old
      PROVE  n.id \in cleaner.names
  BY <1>2, <1>5, YoungIsNotOld DEF LinkInv, OldSteps
<1>6. ASSUME cleaner.pc \in BoxSteps, NEW n \in nameplates'
      PROVE  n.mailbox \notin cleaner.old
  BY <1>2, <1>6, YoungIsNotOld DEF LinkInv, OldSteps
<1> QED
  BY <1>3, <1>4, <1>5, <1>6 DEF LinkInv

-----------------------------------------------------------------------------
(* The clock and a restart keep it. *)

LEMMA PassTimeInv ==
  ASSUME CInv, PassTime
  PROVE  CInv'
<1>1. /\ now' = now + 1 /\ now \in Nat
      /\ UNCHANGED <<mailboxes, nameplates, npSeq, frame, cleaner, lastCleaning>>
  BY DEF PassTime, application, CInv, StoreInv
<1>2. StoreInv' /\ FramesInv'
  BY <1>1 DEF CInv, StoreInv, FramesInv
<1>3. SweepInv'
  BY <1>1 DEF CInv, SweepInv, CleanerAt
<1>4. ClockInv'
  <2>1. /\ LastTick' = LastTick /\ LastTick \in Int
        /\ nextTick \in Nat /\ now < nextTick
        /\ LastTick + CleaningInterval <= nextTick
    BY <1>1 DEF CInv, ClockInv, LastTick, CleanerAt
  <2>2. nextTick' \in Nat /\ now' < nextTick' /\ nextTick <= nextTick'
    BY <1>1, <2>1, CleaningAssumption DEF PassTime
  <2>3. CASE ticks' = ticks
    BY <1>1, <2>1, <2>2, <2>3, CleaningAssumption DEF CInv, ClockInv
  <2>4. CASE ticks' # ticks
    <3>1. /\ now' = nextTick /\ nextTick' = nextTick + CleaningInterval
          /\ ticks' = <<now'>>
      BY <2>4 DEF PassTime
    <3>2. now' \in 0..now'
      BY <1>1
    <3> QED
      BY <2>1, <2>2, <3>1, <3>2, CleaningAssumption DEF ClockInv
  <2> QED
    BY <2>3, <2>4
<1> QED
  BY <1>2, <1>3, <1>4 DEF CInv

LEMMA PassTimeLink ==
  ASSUME CInv, LinkInv, PassTime
  PROVE  LinkInv'
<1>1. /\ now' = now + 1 /\ now \in Nat
      /\ lingering = {} /\ lingering' = Running
      /\ UNCHANGED <<mailboxes, nameplates, frame, cleaner>>
  BY DEF PassTime, application, CInv, StoreInv
<1>2. ASSUME NEW c \in Conns, frame[c].pc # "idle"
      PROVE  Slack(c) = 0 /\ Slack(c)' = 1
  BY <1>1, <1>2 DEF Slack, Running, At
<1>3. \A r \in mailboxes : r.updated \in Nat
  BY DEF CInv, StoreInv
<1>4. \A c \in Conns : Young(c)'
  BY <1>1, <1>2, <1>3 DEF LinkInv, Young, AddSteps
<1> QED
  BY <1>1, <1>4 DEF LinkInv, NameplateHasMailbox, MailboxRows

LEMMA RebootInv ==
  ASSUME CInv, Reboot
  PROVE  CInv'
<1>1. /\ UNCHANGED <<mailboxes, nameplates, npSeq, now>>
      /\ frame' = [c \in Conns |-> Idle]
      /\ cleaner' = Resting /\ ticks' = <<>>
      /\ lastCleaning' = now - CleaningInterval
      /\ nextTick' = now + CleaningInterval
  BY DEF Reboot, Restart, store
<1>2. StoreInv' /\ FramesInv'
  BY <1>1 DEF CInv, StoreInv, FramesInv, FrameShape, Idle, MailboxSteps, AddSteps
<1>3. Resting.pc = "idle"
  BY DEF Resting
<1>4. ClockInv'
  BY <1>1, <1>3, CleaningAssumption
  DEF CInv, StoreInv, ClockInv, LastTick, CleanerAt
<1>5. SweepInv'
  BY <1>1, <1>3
  DEF SweepInv, CleanerAt, OldSteps, UseSteps, NameSteps, BoxSteps
<1> QED
  BY <1>2, <1>4, <1>5 DEF CInv

LEMMA RebootLink ==
  ASSUME LinkInv, Reboot
  PROVE  LinkInv'
<1>1. /\ UNCHANGED <<mailboxes, nameplates>>
      /\ frame' = [c \in Conns |-> Idle] /\ cleaner' = Resting
  BY DEF Reboot, Restart, store
<1>2. Resting.pc = "idle" /\ Idle.pc = "idle"
  BY DEF Resting, Idle
<1>3. \A c \in Conns : Young(c)'
  BY <1>1, <1>2 DEF Young, AddSteps
<1> QED
  BY <1>1, <1>2, <1>3
  DEF LinkInv, NameplateHasMailbox, MailboxRows, NameSteps, BoxSteps

-----------------------------------------------------------------------------
(* The cleaner keeps it. *)

\* A step of the cleaner that adds nothing and leaves the sweep's limit.
LEMMA SweepGoesOn ==
  ASSUME CInv, mailboxes' \subseteq mailboxes, nameplates' \subseteq nameplates,
         UNCHANGED <<npSeq, now, frame, ticks, nextTick, lastCleaning>>,
         DOMAIN cleaner' = DOMAIN Resting,
         ~CleanerAt("idle"), cleaner'.pc # "idle",
         cleaner'.since = cleaner.since, cleaner'.tick = cleaner.tick
  PROVE  /\ StoreInv' /\ FramesInv' /\ ClockInv'
         /\ cleaner'.since \in Int /\ cleaner'.tick \in Int
         /\ cleaner'.since + CleaningInterval <= cleaner'.tick
         /\ cleaner'.tick <= now'
BY DEF CInv, StoreInv, FramesInv, ClockInv, SweepInv, LastTick, CleanerAt

\* ... and does not come to a step that relies on the lists.
LEMMA ListlessStep ==
  ASSUME CInv, UNCHANGED <<mailboxes, nameplates, npSeq, now, frame, ticks,
                           nextTick, lastCleaning>>,
         DOMAIN cleaner' = DOMAIN Resting,
         ~CleanerAt("idle"),
         cleaner'.pc \in {"apps_np", "apps_mb", "apps_msg", "next", "touch",
                          "boxes", "drop"},
         cleaner'.since = cleaner.since, cleaner'.tick = cleaner.tick
  PROVE  CInv'
BY SweepGoesOn
DEF CInv, SweepInv, CleanerAt, OldSteps, UseSteps, NameSteps, BoxSteps

LEMMA ListlessLink ==
  ASSUME LinkInv, UNCHANGED <<mailboxes, nameplates, now, frame, lingering>>,
         cleaner'.pc \notin NameSteps \cup BoxSteps
  PROVE  LinkInv'
BY DEF LinkInv, NameplateHasMailbox, MailboxRows, Young, Slack

LEMMA ListlessSteps ==
  ASSUME CInv, \/ GetAllApps \/ NextApp \/ AllAppsSeen \/ TouchListened
               \/ AllTouched \/ DropApp
  PROVE  CInv' /\ (LinkInv => LinkInv')
<1> DEFINE Listless == {"apps_mb", "apps_msg", "next", "touch", "boxes", "drop"}
<1>1. DOMAIN cleaner = DOMAIN Resting
  BY DEF CInv, SweepInv
<1>2. /\ UNCHANGED <<mailboxes, nameplates, npSeq, now, frame, ticks, nextTick,
                     lastCleaning, lingering>>
      /\ ~CleanerAt("idle")
  BY TouchedIsSame
  DEF GetAllApps, ListApps, NextApp, AllAppsSeen, TouchListened, AllTouched,
      DropApp, CInv, CleanerAt, store, Elsewhere, application
<1>3. CASE GetAllApps
  <2>1. ASSUME NEW step \in Listless, NEW rows, NEW at,
               ListApps(at, rows, step)
        PROVE  CInv' /\ (LinkInv => LinkInv')
    <3> DEFINE listed == cleaner.todo \cup {r.app : r \in rows}
    <3>1. cleaner' = [cleaner EXCEPT !.todo = listed, !.pc = step]
      BY <2>1 DEF ListApps
    <3> HIDE DEF listed
    <3>2. /\ DOMAIN cleaner' = DOMAIN Resting /\ cleaner'.pc = step
          /\ cleaner'.since = cleaner.since /\ cleaner'.tick = cleaner.tick
      BY <1>1, <3>1 DEF Resting
    <3> QED
      BY <1>2, <3>2, ListlessStep, ListlessLink DEF NameSteps, BoxSteps
  <2> QED
    BY <1>3, <2>1 DEF GetAllApps
<1>4. CASE NextApp
  <2>1. PICK a \in cleaner.todo :
          cleaner' = [cleaner EXCEPT
            !.todo = @ \ {a}, !.app = a,
            !.look = IF apps[a] = None THEN {} ELSE
                       { [id |-> id, by |-> boxOf[apps[a]][id]] :
                         id \in {i \in MailboxIDs : boxOf[apps[a]][i] # None} },
            !.pc = IF apps[a] = None THEN "next" ELSE "touch"]
    BY <1>4 DEF NextApp
  <2> DEFINE looked == IF apps[a] = None THEN {} ELSE
                         { [id |-> id, by |-> boxOf[apps[a]][id]] :
                           id \in {i \in MailboxIDs : boxOf[apps[a]][i] # None} }
             step == IF apps[a] = None THEN "next" ELSE "touch"
  <2>2. cleaner' = [cleaner EXCEPT !.todo = @ \ {a}, !.app = a, !.look = looked,
                                   !.pc = step]
    BY <2>1
  <2>3. step \in Listless
    OBVIOUS
  <2> HIDE DEF looked, step
  <2>4. /\ DOMAIN cleaner' = DOMAIN Resting /\ cleaner'.pc = step
        /\ cleaner'.since = cleaner.since /\ cleaner'.tick = cleaner.tick
    BY <1>1, <2>2 DEF Resting
  <2> QED
    BY <1>2, <2>3, <2>4, ListlessStep, ListlessLink DEF NameSteps, BoxSteps
<1>5. CASE AllAppsSeen \/ AllTouched
  <2>1. PICK step \in Listless : cleaner' = [cleaner EXCEPT !.pc = step]
    BY <1>5 DEF AllAppsSeen, AllTouched, CleanerGoto
  <2>2. /\ DOMAIN cleaner' = DOMAIN Resting /\ cleaner'.pc = step
        /\ cleaner'.since = cleaner.since /\ cleaner'.tick = cleaner.tick
    BY <1>1, <2>1 DEF Resting
  <2> QED
    BY <1>2, <2>2, ListlessStep, ListlessLink DEF NameSteps, BoxSteps
<1>6. CASE TouchListened \/ DropApp
  <2>1. cleaner.pc \in Listless
    BY <1>6 DEF TouchListened, DropApp, CleanerAt
  <2>2. \/ \E b : cleaner' = [cleaner EXCEPT !.look = b]
        \/ \E b : cleaner' = [cleaner EXCEPT !.dead = b]
    BY <1>6 DEF TouchListened, DropApp
  <2>3. /\ DOMAIN cleaner' = DOMAIN Resting /\ cleaner'.pc = cleaner.pc
        /\ cleaner'.since = cleaner.since /\ cleaner'.tick = cleaner.tick
    BY <1>1, <2>2 DEF Resting
  <2> QED
    BY <1>2, <2>1, <2>3, ListlessStep, ListlessLink DEF NameSteps, BoxSteps
<1> QED
  BY <1>3, <1>4, <1>5, <1>6

LEMMA TakeTickStep ==
  ASSUME CInv, TakeTick
  PROVE  CInv' /\ (LinkInv => LinkInv')
<1>1. /\ UNCHANGED <<mailboxes, nameplates, npSeq, now, frame, nextTick,
                     lastCleaning, lingering>>
      /\ cleaner.pc = "idle" /\ ticks # <<>> /\ ticks' = <<>>
  BY DEF TakeTick, vars, store, application, CleanerAt
<1>2. PICK t \in 0..now : /\ ticks = <<t>>
                          /\ lastCleaning + CleaningInterval <= t
                          /\ t + CleaningInterval <= nextTick
  BY <1>1 DEF CInv, ClockInv, LastTick, CleanerAt
<1>3. /\ DOMAIN cleaner' = DOMAIN Resting /\ cleaner'.pc = "apps_np"
      /\ cleaner'.since = lastCleaning /\ cleaner'.tick = t
  BY <1>2 DEF TakeTick, CInv, SweepInv, Resting
<1>4. StoreInv' /\ FramesInv'
  BY <1>1 DEF CInv, StoreInv, FramesInv
<1>5. ClockInv'
  BY <1>1, <1>2, <1>3 DEF CInv, StoreInv, ClockInv, LastTick, CleanerAt
<1>6. SweepInv'
  <2>1. lastCleaning \in Int
    BY <1>1 DEF CInv, ClockInv, LastTick, CleanerAt
  <2> QED
    BY <1>1, <1>2, <1>3, <2>1
    DEF CInv, StoreInv, SweepInv, CleanerAt, OldSteps, UseSteps, NameSteps,
        BoxSteps
<1>7. LinkInv => LinkInv'
  BY <1>1, <1>3, ListlessLink DEF NameSteps, BoxSteps
<1> QED
  BY <1>4, <1>5, <1>6, <1>7 DEF CInv

LEMMA EndSweepStep ==
  ASSUME CInv, EndSweep, ~CleanerAt("idle")
  PROVE  CInv' /\ (LinkInv => LinkInv')
<1>1. /\ UNCHANGED <<mailboxes, nameplates, npSeq, now, frame, ticks, nextTick,
                     lingering>>
      /\ cleaner' = Resting /\ lastCleaning' = cleaner.tick
  BY DEF EndSweep, vars, store, application
<1>2. Resting.pc = "idle"
  BY DEF Resting
<1>3. StoreInv' /\ FramesInv'
  BY <1>1 DEF CInv, StoreInv, FramesInv
<1>4. ClockInv'
  BY <1>1, <1>2 DEF CInv, ClockInv, LastTick, CleanerAt
<1>5. SweepInv'
  BY <1>1, <1>2
  DEF SweepInv, CleanerAt, OldSteps, UseSteps, NameSteps, BoxSteps
<1>6. LinkInv => LinkInv'
  BY <1>1, <1>2, ListlessLink DEF NameSteps, BoxSteps
<1> QED
  BY <1>3, <1>4, <1>5, <1>6 DEF CInv

LEMMA ListOldStep ==
  ASSUME CInv, ListOld
  PROVE  CInv' /\ (LinkInv => LinkInv')
<1> DEFINE old == {r.id : r \in {q \in mailboxes : q.app = cleaner.app
                                             /\ q.updated <= cleaner.since}}
<1>1. /\ UNCHANGED <<mailboxes, nameplates, npSeq, now, frame, ticks, nextTick,
                     lastCleaning, lingering>>
      /\ cleaner.pc = "boxes"
  BY DEF ListOld, store, Elsewhere, application, CleanerAt
<1>2. /\ \A id \in old : \E r \in mailboxes :
           r.id = id /\ r.app = cleaner.app /\ r.updated <= cleaner.since
      /\ \A r \in mailboxes :
           r.app = cleaner.app /\ r.updated <= cleaner.since => r.id \in old
  OBVIOUS
<1>3. cleaner' = [cleaner EXCEPT !.old = old, !.pc = "names"]
  BY DEF ListOld
<1> HIDE DEF old
<1>4. /\ DOMAIN cleaner' = DOMAIN Resting /\ cleaner'.pc = "names"
      /\ cleaner'.since = cleaner.since /\ cleaner'.tick = cleaner.tick
      /\ cleaner'.app = cleaner.app /\ cleaner'.old = old
  BY <1>3 DEF CInv, SweepInv, Resting
<1>5. /\ StoreInv' /\ FramesInv' /\ ClockInv'
      /\ cleaner'.since \in Int /\ cleaner'.tick \in Int
      /\ cleaner'.since + CleaningInterval <= cleaner'.tick
      /\ cleaner'.tick <= now'
  BY <1>1, <1>4, SweepGoesOn DEF CleanerAt
<1>6. SweepInv'
  BY <1>1, <1>2, <1>4, <1>5
  DEF SweepInv, CleanerAt, OldSteps, UseSteps, NameSteps, BoxSteps
<1>7. LinkInv => LinkInv'
  BY <1>1, <1>4, ListlessLink DEF NameSteps, BoxSteps
<1> QED
  BY <1>5, <1>6, <1>7 DEF CInv

LEMMA ListOldNamesStep ==
  ASSUME CInv, ListOldNames
  PROVE  CInv' /\ (LinkInv => LinkInv')
<1> DEFINE names == {r.id : r \in {q \in nameplates : q.app = cleaner.app
                                             /\ q.mailbox \in cleaner.old}}
<1>1. /\ UNCHANGED <<mailboxes, nameplates, npSeq, now, frame, ticks, nextTick,
                     lastCleaning, lingering>>
      /\ cleaner.pc = "names"
  BY DEF ListOldNames, store, Elsewhere, application, CleanerAt
<1>2. /\ \A np \in names : \E n \in nameplates :
           n.id = np /\ n.mailbox \in cleaner.old
      /\ \A n \in nameplates :
           n.app = cleaner.app /\ n.mailbox \in cleaner.old => n.id \in names
  OBVIOUS
<1>3. cleaner' = [cleaner EXCEPT !.names = names, !.pc = "del_npsides"]
  BY DEF ListOldNames
<1> HIDE DEF names
<1>4. /\ DOMAIN cleaner' = DOMAIN Resting /\ cleaner'.pc = "del_npsides"
      /\ cleaner'.since = cleaner.since /\ cleaner'.tick = cleaner.tick
      /\ cleaner'.app = cleaner.app /\ cleaner'.old = cleaner.old
      /\ cleaner'.names = names
  BY <1>3 DEF CInv, SweepInv, Resting
<1>5. /\ StoreInv' /\ FramesInv' /\ ClockInv'
      /\ cleaner'.since \in Int /\ cleaner'.tick \in Int
      /\ cleaner'.since + CleaningInterval <= cleaner'.tick
      /\ cleaner'.tick <= now'
  BY <1>1, <1>4, SweepGoesOn DEF CleanerAt
<1>6. SweepInv'
  BY <1>1, <1>2, <1>4, <1>5
  DEF CInv, StoreInv, SweepInv, CleanerAt, OldSteps, UseSteps, NameSteps,
      BoxSteps
<1>7. ASSUME LinkInv PROVE LinkInv'
  <2>1. ASSUME NEW n \in nameplates, n.mailbox \in cleaner.old
        PROVE  n.id \in names
    <3>1. PICK r \in mailboxes : r.app = n.app /\ r.id = n.mailbox
      BY <1>7 DEF LinkInv, NameplateHasMailbox, MailboxRows
    <3>2. PICK q \in mailboxes : q.app = cleaner.app /\ q.id = n.mailbox
      BY <1>1, <2>1 DEF CInv, SweepInv, OldSteps
    <3>3. r = q
      BY <3>1, <3>2 DEF CInv, StoreInv
    <3> QED
      BY <1>2, <2>1, <3>1, <3>2, <3>3
  <2> QED
    BY <1>1, <1>4, <1>7, <2>1
    DEF LinkInv, NameplateHasMailbox, MailboxRows, Young, Slack, NameSteps,
        BoxSteps
<1> QED
  BY <1>5, <1>6, <1>7 DEF CInv

LEMMA DeleteNameplateSidesStep ==
  ASSUME CInv, DeleteNameplateSides
  PROVE  CInv' /\ (LinkInv => LinkInv')
<1>1. /\ UNCHANGED <<mailboxes, nameplates, npSeq, now, frame, ticks, nextTick,
                     lastCleaning, lingering>>
      /\ cleaner.pc = "del_npsides"
  BY DEF DeleteNameplateSides, Elsewhere, application, CleanerAt
<1>2. PICK np \in cleaner.names :
        cleaner' = [cleaner EXCEPT !.np = np, !.pc = "del_np"]
  BY DEF DeleteNameplateSides
<1>3. /\ DOMAIN cleaner' = DOMAIN Resting /\ cleaner'.pc = "del_np"
      /\ cleaner'.since = cleaner.since /\ cleaner'.tick = cleaner.tick
      /\ cleaner'.app = cleaner.app /\ cleaner'.old = cleaner.old
      /\ cleaner'.names = cleaner.names /\ cleaner'.np = np
  BY <1>2 DEF CInv, SweepInv, Resting
<1>4. /\ StoreInv' /\ FramesInv' /\ ClockInv'
      /\ cleaner'.since \in Int /\ cleaner'.tick \in Int
      /\ cleaner'.since + CleaningInterval <= cleaner'.tick
      /\ cleaner'.tick <= now'
  BY <1>1, <1>3, SweepGoesOn DEF CleanerAt
<1>5. SweepInv'
  BY <1>1, <1>3, <1>4
  DEF CInv, SweepInv, CleanerAt, OldSteps, UseSteps, NameSteps, BoxSteps
<1>6. LinkInv => LinkInv'
  BY <1>1, <1>3
  DEF LinkInv, NameplateHasMailbox, MailboxRows, Young, Slack, NameSteps, BoxSteps
<1> QED
  BY <1>4, <1>5, <1>6 DEF CInv

LEMMA DeleteNameplateStep ==
  ASSUME CInv, DeleteNameplate
  PROVE  CInv' /\ (LinkInv => LinkInv')
<1>1. /\ UNCHANGED <<mailboxes, npSeq, now, frame, ticks, nextTick,
                     lastCleaning, lingering>>
      /\ nameplates' = {r \in nameplates : r.id # cleaner.np}
      /\ cleaner.pc = "del_np"
  BY DEF DeleteNameplate, Elsewhere, application, CleanerAt
<1>2. /\ DOMAIN cleaner' = DOMAIN Resting /\ cleaner'.pc = "del_npsides"
      /\ cleaner'.since = cleaner.since /\ cleaner'.tick = cleaner.tick
      /\ cleaner'.app = cleaner.app /\ cleaner'.old = cleaner.old
      /\ cleaner'.names = cleaner.names \ {cleaner.np}
  BY DEF DeleteNameplate, CInv, SweepInv, Resting
<1>3. /\ StoreInv' /\ FramesInv' /\ ClockInv'
      /\ cleaner'.since \in Int /\ cleaner'.tick \in Int
      /\ cleaner'.since + CleaningInterval <= cleaner'.tick
      /\ cleaner'.tick <= now'
  BY <1>1, <1>2, SweepGoesOn DEF CleanerAt
<1>4. SweepInv'
  BY <1>1, <1>2, <1>3
  DEF CInv, SweepInv, CleanerAt, OldSteps, UseSteps, NameSteps, BoxSteps
<1>5. LinkInv => LinkInv'
  BY <1>1, <1>2
  DEF LinkInv, NameplateHasMailbox, MailboxRows, Young, Slack, NameSteps, BoxSteps
<1> QED
  BY <1>3, <1>4, <1>5 DEF CInv

LEMMA ListsEndStep ==
  ASSUME CInv, NameplatesDeleted \/ MailboxesDeleted
  PROVE  CInv' /\ (LinkInv => LinkInv')
<1>1. /\ UNCHANGED <<mailboxes, nameplates, npSeq, now, frame, ticks, nextTick,
                     lastCleaning, lingering>>
      /\ \/ /\ cleaner.pc = "del_npsides" /\ cleaner.names = {}
            /\ cleaner'.pc = "del_msgs"
         \/ /\ cleaner.pc = "del_msgs" /\ cleaner.old = {}
            /\ cleaner'.pc = "use_mb"
  BY DEF NameplatesDeleted, MailboxesDeleted, store, Elsewhere, application,
     CleanerAt, CleanerGoto, CInv, SweepInv, Resting
<1>2. /\ DOMAIN cleaner' = DOMAIN Resting
      /\ cleaner'.since = cleaner.since /\ cleaner'.tick = cleaner.tick
      /\ cleaner'.app = cleaner.app /\ cleaner'.old = cleaner.old
  BY DEF NameplatesDeleted, MailboxesDeleted, CleanerGoto, CInv, SweepInv,
     Resting
<1>3. /\ StoreInv' /\ FramesInv' /\ ClockInv'
      /\ cleaner'.since \in Int /\ cleaner'.tick \in Int
      /\ cleaner'.since + CleaningInterval <= cleaner'.tick
      /\ cleaner'.tick <= now'
  BY <1>1, <1>2, SweepGoesOn DEF CleanerAt
<1>4. SweepInv'
  BY <1>1, <1>2, <1>3
  DEF CInv, SweepInv, CleanerAt, OldSteps, UseSteps, NameSteps, BoxSteps
<1>5. LinkInv => LinkInv'
  BY <1>1, <1>2
  DEF LinkInv, NameplateHasMailbox, MailboxRows, Young, Slack, NameSteps, BoxSteps
<1> QED
  BY <1>3, <1>4, <1>5 DEF CInv

LEMMA StillInUseStep ==
  ASSUME CInv, NEW step \in UseSteps, NEW rows, NEW then \in {"use_np", "next"},
         StillInUse(step, rows, then)
  PROVE  CInv' /\ (LinkInv => LinkInv')
<1> DEFINE dead == IF then = "next" THEN cleaner.dead \cup {cleaner.app}
                                    ELSE cleaner.dead
<1>1. /\ UNCHANGED <<mailboxes, nameplates, npSeq, now, frame, ticks, nextTick,
                     lastCleaning, lingering>>
      /\ cleaner.pc \in UseSteps
      /\ DOMAIN cleaner = DOMAIN Resting
  BY DEF StillInUse, store, Elsewhere, application, CleanerAt, CInv, SweepInv
<1>2. \/ cleaner' = [cleaner EXCEPT !.pc = "next"]
      \/ cleaner' = [cleaner EXCEPT !.dead = dead, !.pc = then]
  BY DEF StillInUse, CleanerGoto
<1> HIDE DEF dead
<1>3. /\ DOMAIN cleaner' = DOMAIN Resting /\ cleaner'.pc \in {"use_np", "next"}
      /\ cleaner'.since = cleaner.since /\ cleaner'.tick = cleaner.tick
      /\ cleaner'.app = cleaner.app
  BY <1>1, <1>2 DEF Resting
<1>4. /\ StoreInv' /\ FramesInv' /\ ClockInv'
      /\ cleaner'.since \in Int /\ cleaner'.tick \in Int
      /\ cleaner'.since + CleaningInterval <= cleaner'.tick
      /\ cleaner'.tick <= now'
  BY <1>1, <1>3, SweepGoesOn DEF CleanerAt, UseSteps
<1>5. SweepInv'
  BY <1>1, <1>3, <1>4
  DEF CInv, SweepInv, CleanerAt, OldSteps, UseSteps, NameSteps, BoxSteps
<1>6. LinkInv => LinkInv'
  BY <1>1, <1>3, ListlessLink DEF NameSteps, BoxSteps
<1> QED
  BY <1>4, <1>5, <1>6 DEF CInv

LEMMA DeleteMessagesStep ==
  ASSUME CInv, DeleteMessages \/ DeleteMailboxSides
  PROVE  CInv' /\ (LinkInv => LinkInv')
<1>1. /\ UNCHANGED <<mailboxes, nameplates, npSeq, now, frame, ticks, nextTick,
                     lastCleaning, lingering>>
      /\ cleaner.pc \in {"del_msgs", "del_mbsides"}
  BY DEF DeleteMessages, DeleteMailboxSides, Elsewhere, application, CleanerAt
<1>2. /\ DOMAIN cleaner' = DOMAIN Resting
      /\ cleaner'.pc \in {"del_mbsides", "del_mb"}
      /\ cleaner'.since = cleaner.since /\ cleaner'.tick = cleaner.tick
      /\ cleaner'.app = cleaner.app /\ cleaner'.old = cleaner.old
      /\ cleaner'.box \in cleaner.old
  <2>1. CASE DeleteMessages
    <3>1. PICK id \in cleaner.old :
            cleaner' = [cleaner EXCEPT !.box = id, !.pc = "del_mbsides"]
      BY <2>1 DEF DeleteMessages
    <3> QED
      BY <3>1 DEF CInv, SweepInv, Resting
  <2>2. CASE DeleteMailboxSides
    BY <2>2 DEF DeleteMailboxSides, CleanerAt, CleanerGoto, CInv, SweepInv,
       Resting
  <2> QED
    BY <2>1, <2>2
<1>3. /\ StoreInv' /\ FramesInv' /\ ClockInv'
      /\ cleaner'.since \in Int /\ cleaner'.tick \in Int
      /\ cleaner'.since + CleaningInterval <= cleaner'.tick
      /\ cleaner'.tick <= now'
  BY <1>1, <1>2, SweepGoesOn DEF CleanerAt
<1>4. SweepInv'
  BY <1>1, <1>2, <1>3
  DEF CInv, SweepInv, CleanerAt, OldSteps, UseSteps, NameSteps, BoxSteps
<1>5. LinkInv => LinkInv'
  BY <1>1, <1>2
  DEF LinkInv, NameplateHasMailbox, MailboxRows, Young, Slack, NameSteps, BoxSteps
<1> QED
  BY <1>3, <1>4, <1>5 DEF CInv

LEMMA DeleteMailboxStep ==
  ASSUME CInv, DeleteMailbox
  PROVE  CInv' /\ (LinkInv /\ CleaningInterval >= 2 => LinkInv')
<1>1. /\ UNCHANGED <<nameplates, npSeq, now, frame, ticks, nextTick,
                     lastCleaning, lingering>>
      /\ mailboxes' = {r \in mailboxes : r.id # cleaner.box}
      /\ cleaner.pc = "del_mb"
  BY DEF DeleteMailbox, Elsewhere, application, CleanerAt
<1>2. /\ DOMAIN cleaner' = DOMAIN Resting /\ cleaner'.pc = "del_msgs"
      /\ cleaner'.since = cleaner.since /\ cleaner'.tick = cleaner.tick
      /\ cleaner'.app = cleaner.app
      /\ cleaner'.old = cleaner.old \ {cleaner.box}
      /\ cleaner.box \in cleaner.old
  BY DEF DeleteMailbox, CleanerAt, CInv, SweepInv, Resting
<1>3. /\ StoreInv' /\ FramesInv' /\ ClockInv'
      /\ cleaner'.since \in Int /\ cleaner'.tick \in Int
      /\ cleaner'.since + CleaningInterval <= cleaner'.tick
      /\ cleaner'.tick <= now'
  BY <1>1, <1>2, SweepGoesOn DEF CleanerAt
<1>4. SweepInv'
  BY <1>1, <1>2, <1>3
  DEF CInv, SweepInv, CleanerAt, OldSteps, UseSteps, NameSteps, BoxSteps
<1>5. ASSUME LinkInv, CleaningInterval >= 2 PROVE LinkInv'
  <2>1. \A n \in nameplates : n.mailbox \notin cleaner.old
    BY <1>1, <1>5 DEF LinkInv, BoxSteps
  <2>2. NameplateHasMailbox'
    BY <1>1, <1>2, <1>5, <2>1 DEF LinkInv, NameplateHasMailbox, MailboxRows
  <2>3. ASSUME NEW c \in Conns PROVE Young(c)'
    <3>1. frame[c].pc = "np_insert" => frame[c].mailbox # cleaner.box
      BY <1>1, <1>2, <1>5, YoungIsNotOld DEF OldSteps, BoxSteps
    <3> QED
      BY <1>1, <1>5, <3>1 DEF LinkInv, Young, Slack
  <2> QED
    BY <1>1, <1>2, <2>1, <2>2, <2>3 DEF LinkInv, NameSteps
<1> QED
  BY <1>3, <1>4, <1>5 DEF CInv

LEMMA CleanerInv ==
  ASSUME CInv, CleanerStep
  PROVE  CInv' /\ (LinkInv /\ CleaningInterval >= 2 => LinkInv')
<1>1. ASSUME \/ CleanAppsReturns
             \/ CleanAppsFails
      PROVE  EndSweep /\ ~CleanerAt("idle")
  BY <1>1 DEF CleanAppsReturns, CleanAppsFails, CleanerAt
<1>2. /\ "use_mb" \in UseSteps /\ "use_np" \in UseSteps
  BY DEF UseSteps
<1> QED
  BY <1>1, <1>2, TakeTickStep, ListlessSteps, ListOldStep, ListOldNamesStep,
     DeleteNameplateSidesStep, DeleteNameplateStep, ListsEndStep,
     DeleteMessagesStep, DeleteMailboxStep, StillInUseStep, EndSweepStep
  DEF CleanerStep

-----------------------------------------------------------------------------
(* The theorems. *)

LEMMA CleaningInitInv == CleaningInit => CInv /\ LinkInv
<1> SUFFICES ASSUME CleaningInit PROVE CInv /\ LinkInv
  OBVIOUS
<1>1. /\ now = 0 /\ npSeq = 0 /\ mailboxes = {} /\ nameplates = {}
      /\ frame = [c \in Conns |-> Idle]
      /\ cleaner = Resting /\ ticks = <<>>
      /\ lastCleaning = now - CleaningInterval
      /\ nextTick = now + CleaningInterval
  BY DEF CleaningInit, Init, StoreInit, ApplicationInit
<1>2. Resting.pc = "idle" /\ Idle.pc = "idle"
  BY DEF Resting, Idle
<1>3. StoreInv /\ FramesInv
  BY <1>1, <1>2 DEF StoreInv, FramesInv, FrameShape, MailboxSteps, AddSteps
<1>4. ClockInv
  BY <1>1, <1>2, CleaningAssumption DEF ClockInv, LastTick, CleanerAt
<1>5. SweepInv
  BY <1>1, <1>2
  DEF SweepInv, CleanerAt, OldSteps, UseSteps, NameSteps, BoxSteps
<1>6. LinkInv
  BY <1>1, <1>2
  DEF LinkInv, NameplateHasMailbox, Young, AddSteps, NameSteps, BoxSteps
<1> QED
  BY <1>3, <1>4, <1>5, <1>6 DEF CInv

LEMMA CleaningNextInv ==
  CInv /\ [CleaningNext]_cvars =>
    CInv' /\ (LinkInv /\ CleaningInterval >= 2 => LinkInv')
<1> SUFFICES ASSUME CInv, [CleaningNext]_cvars
             PROVE  CInv' /\ (LinkInv /\ CleaningInterval >= 2 => LinkInv')
  OBVIOUS
<1>1. CASE HandlerStep
  <2>1. PICK c \in Conns : Handler(c)
    BY <1>1 DEF HandlerStep, Handler
  <2>2. Tables(c) /\ Moves(c)
    BY <2>1, HandlerEffect
  <2>3. /\ lingering' = {d \in lingering : frame'[d].pc # "idle"}
        /\ UNCHANGED <<cleaner, lastCleaning, ticks, nextTick>>
    BY <1>1 DEF HandlerStep
  <2> QED
    BY <2>1, <2>2, <2>3, HandlerInv, HandlerLink
<1>2. CASE CleanerStep
  BY <1>2, CleanerInv
<1>3. CASE PassTime
  BY <1>3, PassTimeInv, PassTimeLink
<1>4. CASE Reboot
  BY <1>4, RebootInv, RebootLink
<1>5. CASE UNCHANGED cvars
  <2>1. UNCHANGED <<mailboxes, nameplates, npSeq, now, frame, cleaner,
                    lastCleaning, ticks, nextTick, lingering>>
    BY <1>5 DEF cvars, vars, store, application, cleaning
  <2>2. StoreInv' /\ FramesInv' /\ ClockInv' /\ SweepInv'
    BY <2>1 DEF CInv, StoreInv, FramesInv, ClockInv, SweepInv, LastTick, CleanerAt
  <2>3. LinkInv => LinkInv'
    BY <2>1 DEF LinkInv, NameplateHasMailbox, MailboxRows, Young, Slack
  <2> QED
    BY <2>2, <2>3 DEF CInv
<1> QED
  BY <1>1, <1>2, <1>3, <1>4, <1>5 DEF CleaningNext

LEMMA CleaningInvariance == CleaningSpec => []CInv
<1>1. CleaningInit => CInv
  BY CleaningInitInv
<1>2. CInv /\ [CleaningNext]_cvars => CInv'
  BY CleaningNextInv
<1> QED
  BY <1>1, <1>2, PTL DEF CleaningSpec

\* What the cleaner lists is older than an interval.
LEMMA OldIsNotRecent ==
  ASSUME CInv, cleaner.pc \in OldSteps, NEW r \in mailboxes, Recent(r)
  PROVE  r.id \notin cleaner.old
<1> SUFFICES ASSUME r.id \in cleaner.old PROVE FALSE
  OBVIOUS
<1>1. PICK q \in mailboxes : q.id = r.id /\ q.updated <= cleaner.since
  BY DEF CInv, SweepInv
<1>2. q = r /\ r.updated \in Nat /\ now \in Nat
  BY <1>1 DEF CInv, StoreInv
<1>3. /\ cleaner.since \in Int /\ cleaner.tick \in Int
      /\ cleaner.since + CleaningInterval <= cleaner.tick
      /\ cleaner.tick <= now
  BY DEF CInv, SweepInv, CleanerAt, OldSteps, NameSteps, BoxSteps
<1> QED
  BY <1>1, <1>2, <1>3, CleaningAssumption DEF Recent

\* For any interval, any number of clients and any failures and restarts, a
\* sweep takes nothing from a mailbox younger than the interval, though it
\* deletes by lists that handlers have written past.
THEOREM RecentIsKept == CleaningSpec => KeepsRecent
<1> DEFINE Kept ==
      cleaner' # cleaner =>
        \A r \in mailboxes : Recent(r) =>
          /\ r \in mailboxes'
          /\ MailboxSideRows(r.id) \subseteq mailboxSides'
          /\ {m \in messages : m.mailbox = r.id} \subseteq messages'
          /\ \A n \in nameplates : n.mailbox = r.id =>
               /\ n \in nameplates'
               /\ NameplateSideRows(n.id) \subseteq nameplateSides'
<1>1. ASSUME CInv, [CleaningNext]_cvars PROVE [Kept]_cvars
  <2> DEFINE AllKept == /\ mailboxes \subseteq mailboxes'
                        /\ mailboxSides \subseteq mailboxSides'
                        /\ messages \subseteq messages'
                        /\ nameplates \subseteq nameplates'
                        /\ nameplateSides \subseteq nameplateSides'
  <2>1. ASSUME AllKept PROVE Kept
    BY <2>1 DEF MailboxSideRows, NameplateSideRows
  <2>2. CASE \/ HandlerStep \/ PassTime \/ Reboot \/ UNCHANGED cvars
    <3>1. CASE HandlerStep \/ PassTime
      BY <3>1 DEF HandlerStep, PassTime
    <3>2. CASE Reboot \/ UNCHANGED cvars
      <4>1. AllKept
        BY <3>2 DEF Reboot, Restart, cvars, vars, store
      <4> QED
        BY <2>1, <4>1
    <3> QED
      BY <2>2, <3>1, <3>2
  <2>3. CASE \/ TakeTick \/ GetAllApps \/ NextApp \/ AllAppsSeen
             \/ TouchListened \/ AllTouched \/ ListOld \/ ListOldNames
             \/ NameplatesDeleted \/ MailboxesDeleted
             \/ StillInUse("use_mb", mailboxes, "use_np")
             \/ StillInUse("use_np", nameplates, "next")
             \/ DropApp \/ CleanAppsReturns \/ CleanAppsFails
    <3>1. AllKept
      BY <1>1, <2>3, TouchedIsSame
      DEF TakeTick, GetAllApps, ListApps, NextApp, AllAppsSeen, TouchListened,
          AllTouched, ListOld, ListOldNames, NameplatesDeleted,
          MailboxesDeleted, StillInUse, DropApp, CleanAppsReturns,
          CleanAppsFails, EndSweep, vars, store, CInv
    <3> QED
      BY <2>1, <3>1
  <2>4. ASSUME NEW r \in mailboxes, Recent(r), DeleteNameplateSides
        PROVE  /\ UNCHANGED <<mailboxes, mailboxSides, messages, nameplates>>
               /\ \A n \in nameplates : n.mailbox = r.id =>
                    NameplateSideRows(n.id) \subseteq nameplateSides'
    <3>1. PICK np \in cleaner.names :
            nameplateSides' = {q \in nameplateSides : q.np # np}
      BY <2>4 DEF DeleteNameplateSides
    <3>2. cleaner.pc \in NameSteps /\ cleaner.pc \in OldSteps
      BY <2>4 DEF DeleteNameplateSides, CleanerAt, NameSteps, OldSteps
    <3>3. \A n \in nameplates : n.mailbox = r.id => n.id # np
      BY <1>1, <2>4, <3>1, <3>2, OldIsNotRecent DEF CInv, SweepInv
    <3> QED
      BY <2>4, <3>1, <3>3 DEF DeleteNameplateSides, NameplateSideRows
  <2>5. ASSUME NEW r \in mailboxes, Recent(r), DeleteNameplate
        PROVE  /\ UNCHANGED <<mailboxes, mailboxSides, messages, nameplateSides>>
               /\ \A n \in nameplates : n.mailbox = r.id => n \in nameplates'
    <3>1. /\ cleaner.pc \in NameSteps /\ cleaner.pc \in OldSteps
          /\ cleaner.np \in cleaner.names
      BY <1>1, <2>5
      DEF DeleteNameplate, CleanerAt, NameSteps, OldSteps, CInv, SweepInv
    <3>2. \A n \in nameplates : n.mailbox = r.id => n.id # cleaner.np
      BY <1>1, <2>5, <3>1, OldIsNotRecent DEF CInv, SweepInv
    <3> QED
      BY <2>5, <3>2 DEF DeleteNameplate
  <2>6. ASSUME NEW r \in mailboxes, Recent(r),
               DeleteMessages \/ DeleteMailboxSides \/ DeleteMailbox
        PROVE  /\ UNCHANGED <<nameplates, nameplateSides>>
               /\ r \in mailboxes'
               /\ MailboxSideRows(r.id) \subseteq mailboxSides'
               /\ {m \in messages : m.mailbox = r.id} \subseteq messages'
    <3>1. cleaner.pc \in OldSteps
      BY <2>6 DEF DeleteMessages, DeleteMailboxSides, DeleteMailbox, CleanerAt,
         OldSteps, BoxSteps
    <3>2. r.id \notin cleaner.old
      BY <1>1, <2>6, <3>1, OldIsNotRecent
    <3>3. CASE DeleteMessages
      <4>1. PICK id \in cleaner.old :
              messages' = {m \in messages : m.mailbox # id}
        BY <3>3 DEF DeleteMessages
      <4> QED
        BY <3>2, <3>3, <4>1 DEF DeleteMessages, MailboxSideRows
    <3>4. CASE DeleteMailboxSides \/ DeleteMailbox
      <4>1. cleaner.box \in cleaner.old
        BY <1>1, <3>4 DEF DeleteMailboxSides, DeleteMailbox, CleanerAt, CInv,
           SweepInv
      <4> QED
        BY <3>2, <3>4, <4>1
        DEF DeleteMailboxSides, DeleteMailbox, MailboxSideRows
    <3> QED
      BY <2>6, <3>3, <3>4
  <2>7. CASE \/ DeleteNameplateSides \/ DeleteNameplate
             \/ DeleteMessages \/ DeleteMailboxSides \/ DeleteMailbox
    BY <2>4, <2>5, <2>6, <2>7 DEF NameplateSideRows, MailboxSideRows
  <2> QED
    BY <1>1, <2>2, <2>3, <2>7 DEF CleaningNext, CleanerStep
<1>2. KeepsRecent <=> [][Kept]_cvars
  BY PTL DEF KeepsRecent
<1> QED
  BY <1>1, <1>2, CleaningInvariance, PTL DEF CleaningSpec

\* When an application's sweep is done nothing as old as its limit is left
\* of it, whatever its clients inserted meanwhile.
THEOREM SweepIsComplete == CleaningSpec => []CleanupIsComplete
<1>1. CInv => CleanupIsComplete
  <2> SUFFICES ASSUME CInv, cleaner.pc \in {"use_mb", "use_np"},
                      NEW r \in mailboxes, r.app = cleaner.app
               PROVE  r.updated > cleaner.since
    BY DEF CleanupIsComplete
  <2>1. r.updated \in Nat /\ cleaner.since \in Int
    BY DEF CInv, StoreInv, SweepInv, CleanerAt
  <2>2. ~(r.updated <= cleaner.since)
    BY DEF CInv, SweepInv, OldSteps, UseSteps, NameSteps, BoxSteps
  <2> QED
    BY <2>1, <2>2
<1> QED
  BY <1>1, CleaningInvariance, PTL

\* Where the interval is longer than a handler takes, sweeps, claims and
\* restarts leave no nameplate without its mailbox, though neither the sweep
\* nor the claim is a transaction.
THEOREM SweptNameplateIntegrity ==
  ASSUME CleaningInterval >= 2
  PROVE  CleaningSpec => []NameplateHasMailbox
<1>1. CleaningInit => CInv /\ LinkInv
  BY CleaningInitInv
<1>2. CInv /\ LinkInv /\ [CleaningNext]_cvars => CInv' /\ LinkInv'
  BY CleaningNextInv
<1>3. CInv /\ LinkInv => NameplateHasMailbox
  BY DEF LinkInv
<1> QED
  BY <1>1, <1>2, <1>3, PTL DEF CleaningSpec

=============================================================================
