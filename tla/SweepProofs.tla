---------------------------- MODULE SweepProofs ----------------------------
(***************************************************************************)
(* What the memory of the relay still is when its tables are swept and its *)
(* applications dropped under it (module Cleaning), for every number of    *)
(* connections, applications and mailboxes, whatever fails and wherever    *)
(* the process dies.                                                       *)
(*                                                                         *)
(* The invariant of RendezvousProofs is about rows: a mailbox's row tells  *)
(* its application.  A sweep deletes rows, so here a Mailbox object is     *)
(* told by its maker: whatever map, handler, client or listener refers to  *)
(* it, its maker was bound to the same application.                        *)
(***************************************************************************)
EXTENDS CleaningProofs

-----------------------------------------------------------------------------
(* The invariant. *)

LetIn(id, c) == \E g \in granted : g.mailbox = id /\ g.by = c

\* Mailbox object b was made by a client of application a.
Made(b, a) == b \in BoxRefs /\ sess[b.by].app = a

NamedSteps == {"np_select", "np_insert"}
OpenSteps == {"mbs_select", "mbs_insert", "touch", "mbs_count"}
IdSteps == MailboxSteps \cup OpenSteps \cup {"map_get", "map_put"}
AddMessageSteps == {"add_insert", "broadcast", "add_touch"}
HeldSteps == AddMessageSteps \cup {"close_select"}
ReleaseSteps == {"rel_np", "rel_side", "rel_update", "rel_count",
                 "rel_delsides", "rel_delnp"}

\* What a handler's frame f is while it runs for connection c.
Calls(c, f) ==
  LET s == sess[c] IN
  /\ f.pc # "idle" => c \notin gone
  /\ f.pc = "apps_put" =>
       s.home = None /\ s.app = None /\ f.app \in AppIDs /\ f.side \in Sides
  /\ f.pc \notin {"idle", "apps_put"} =>
       /\ s.home # None /\ f.home = s.home /\ f.app = s.app
       /\ f.side \in StoredSides /\ f.then # "idle"
       /\ f.cmd \in {"open", "reopen"} => s.mailbox = None
       /\ f.cmd \in {"close", "reopen"} => ~s.closed

\* What a step of it needs of frame f.
Needs(c, step, f) ==
  /\ step = "nps_count" => f.cmd \in {"allocate", "claim"}
  /\ step \in ReleaseSteps => f.cmd = "release"
  /\ step \in AddMessageSteps => f.cmd = "add"
  /\ step = "close_select" => f.cmd = "close"
  /\ step \in NamedSteps \/ (step \in AddSteps /\ f.then = "np_insert")
       => f.name \in Names
  /\ step \in IdSteps => f.mailbox \in MailboxIDs
  /\ step \in OpenSteps => Made(f.box, f.app) /\ f.box.id = f.mailbox
  /\ step = "ok" /\ f.cmd \in {"open", "reopen"} =>
       Made(f.box, f.app) /\ LetIn(f.box.id, c)
  /\ step \in HeldSteps => Made(f.box, f.app) /\ LetIn(f.box.id, c)
  /\ step \in {"add_insert", "broadcast"} => f.msg \in Msgs /\ f.side \in Sides

FramesGood ==
  /\ frame \in [Conns -> FrameType]
  /\ \A c \in Conns : Calls(c, frame[c]) /\ Needs(c, frame[c].pc, frame[c])

\* What a Client object refers to, of its own application.
Client(c) ==
  LET s == sess[c] IN
  /\ s.home # None => /\ s.app \in AppIDs /\ s.side \in Sides /\ c \notin gone
                      /\ sess[s.home].app = s.app
  /\ s.home = None /\ c \notin gone => s.app = None
  /\ s.mailbox # None =>
       s.home # None /\ Made(s.mailbox, s.app) /\ LetIn(s.mailbox.id, c)
  /\ s.handle <= (IF s.closed THEN 1 ELSE 0) + (IF s.mailbox # None THEN 1 ELSE 0)

ClientsGood == sess \in [Conns -> SessType] /\ \A c \in Conns : Client(c)

\* A container is its maker's application's, and so are the objects in its map.
MapsGood ==
  /\ apps \in [AppIDs -> Conns \cup {None}]
  /\ \A a \in AppIDs : apps[a] # None => sess[apps[a]].app = a
  /\ boxOf \in [Conns -> [MailboxIDs -> Conns \cup {None}]]
  /\ \A k \in Conns, id \in MailboxIDs : boxOf[k][id] # None =>
       sess[k].app \in AppIDs /\ sess[boxOf[k][id]].app = sess[k].app

ListenersGood ==
  /\ listeners \subseteq [box : BoxRefs, conn : Conns, handle : 1..2]
  /\ \A l \in listeners :
       /\ sess[l.conn].app \in AppIDs
       /\ Made(l.box, sess[l.conn].app) /\ LetIn(l.box.id, l.conn)

HistoryGood ==
  /\ granted \subseteq [mailbox : MailboxIDs, side : StoredSides, by : Conns]
  /\ received \subseteq
       [to : Conns, app : AppIDs, mailbox : MailboxIDs, msg : Msgs]
  /\ DeliveryIsolation

MInv ==
  /\ StoreTypeOK
  /\ gone \subseteq Conns
  /\ FramesGood
  /\ ClientsGood
  /\ MapsGood
  /\ ListenersGood
  /\ HistoryGood

-----------------------------------------------------------------------------
(* Frames, and what keeps them good. *)

LEMMA IdleType == Idle \in FrameType
BY DEF FrameType, Idle, Steps, Commands

\* Some changes of single fields keep a frame a frame.
LEMMA FrameFields ==
  ASSUME NEW f \in FrameType, NEW step \in Steps
  PROVE  /\ [f EXCEPT !.pc = step] \in FrameType
         /\ \A n \in Names : [f EXCEPT !.name = n, !.pc = step] \in FrameType
         /\ \A n \in Nat : [f EXCEPT !.np = n, !.pc = step] \in FrameType
         /\ \A n \in Nat, id \in MailboxIDs :
              [f EXCEPT !.np = n, !.mailbox = id, !.pc = step] \in FrameType
         /\ \A id \in MailboxIDs :
              [f EXCEPT !.mailbox = id, !.then = "np_insert", !.pc = step]
                \in FrameType
         /\ [f EXCEPT !.then = "map_get", !.pc = step] \in FrameType
         /\ \A b \in BoxRefs : [f EXCEPT !.box = b, !.pc = step] \in FrameType
<1>1. [f EXCEPT !.pc = step] \in FrameType
  BY DEF FrameType
<1>2. ASSUME NEW n \in Names
      PROVE  [f EXCEPT !.name = n, !.pc = step] \in FrameType
  BY DEF FrameType
<1>3. ASSUME NEW n \in Nat
      PROVE  [f EXCEPT !.np = n, !.pc = step] \in FrameType
  BY DEF FrameType
<1>4. ASSUME NEW n \in Nat, NEW id \in MailboxIDs
      PROVE  [f EXCEPT !.np = n, !.mailbox = id, !.pc = step] \in FrameType
  BY DEF FrameType
<1>5. ASSUME NEW id \in MailboxIDs
      PROVE  [f EXCEPT !.mailbox = id, !.then = "np_insert", !.pc = step]
               \in FrameType
  BY DEF FrameType
<1>6. [f EXCEPT !.then = "map_get", !.pc = step] \in FrameType
  BY DEF FrameType
<1>7. ASSUME NEW b \in BoxRefs
      PROVE  [f EXCEPT !.box = b, !.pc = step] \in FrameType
  BY DEF FrameType
<1> QED
  BY <1>1, <1>2, <1>3, <1>4, <1>5, <1>6, <1>7

\* A connection's application is never another, and a grant never taken back.
Lasts ==
  /\ granted \subseteq granted'
  /\ \A k \in Conns : sess[k].app # None => sess'[k].app = sess[k].app

LEMMA MadeLasts ==
  ASSUME Lasts, NEW b, NEW a \in AppIDs, Made(b, a)
  PROVE  Made(b, a)'
<1>1. b.by \in Conns
  BY DEF Made, BoxRefs
<1>2. a # None
  BY StoreAssumption
<1> QED
  BY <1>1, <1>2 DEF Made, Lasts

LEMMA LetInLasts ==
  ASSUME Lasts, NEW id, NEW c, LetIn(id, c)
  PROVE  LetIn(id, c)'
BY DEF Lasts, LetIn

\* The handler, the client: as the cases below use them.
LEMMA Here ==
  ASSUME MInv, NEW c \in Conns
  PROVE  /\ frame[c] \in FrameType /\ sess[c] \in SessType
         /\ Calls(c, frame[c]) /\ Needs(c, frame[c].pc, frame[c]) /\ Client(c)
BY DEF MInv, FramesGood, ClientsGood

\* A handler that runs belongs to a client of an application.
LEMMA Bound ==
  ASSUME MInv, NEW c \in Conns, frame[c].pc \notin {"idle", "apps_put"}
  PROVE  /\ frame[c].app \in AppIDs /\ frame[c].home \in Conns
         /\ frame[c].app = sess[c].app /\ frame[c].home = sess[c].home
         /\ frame[c].side \in StoredSides /\ c \notin gone
         /\ frame[c].then \in {"np_insert", "map_get"}
BY Here DEF Calls, Client, SessType, FrameType

\* Steps of others leave a handler and its client good.
LEMMA OthersKept ==
  ASSUME MInv, Lasts, NEW d \in Conns,
         frame'[d] = frame[d], sess'[d] = sess[d], d \in gone <=> d \in gone'
  PROVE  (Calls(d, frame[d]) /\ Needs(d, frame[d].pc, frame[d]) /\ Client(d))'
<1>1. PICK f, s : f = frame[d] /\ s = sess[d]
  OBVIOUS
<1>2. f = frame'[d] /\ s = sess'[d]
  BY <1>1
<1>3. Calls(d, frame[d])'
  BY <1>1, <1>2, Here DEF Calls
<1>4. Needs(d, frame[d].pc, frame[d])'
  <2>1. f.pc \in OpenSteps \cup HeldSteps \cup {"ok"} =>
          f.app \in AppIDs
    BY <1>1, Bound DEF OpenSteps, HeldSteps, AddMessageSteps
  <2>2. f.app \in AppIDs /\ Made(f.box, f.app) => Made(f.box, f.app)'
    BY MadeLasts
  <2>3. LetIn(f.box.id, d) => LetIn(f.box.id, d)'
    BY LetInLasts
  <2>4. Needs(d, f.pc, f)
    BY <1>1, Here
  <2>5. Needs(d, f.pc, f)'
    BY <2>1, <2>2, <2>3, <2>4 DEF Needs
  <2> QED
    BY <1>2, <2>5
<1>5. Client(d)'
  <2>1. Client(d)
    BY Here
  <2>2. s.home # None => sess[s.home].app # None /\ s.home \in Conns
    BY <1>1, <2>1, Here, StoreAssumption DEF Client, SessType
  <2>3. s.home # None => sess'[s.home].app = s.app
    BY <1>1, <2>1, <2>2 DEF Client, Lasts
  <2>4. s.mailbox # None => s.app \in AppIDs
    BY <1>1, <2>1 DEF Client
  <2>5. s.mailbox # None => Made(s.mailbox, s.app)' /\ LetIn(s.mailbox.id, d)'
    BY <1>1, <2>1, <2>4, MadeLasts, LetInLasts DEF Client
  <2> QED
    BY <1>1, <1>2, <2>1, <2>3, <2>5 DEF Client
<1> QED
  BY <1>3, <1>4, <1>5

\* A step of the application: it moves its own handler's frame.
LEMMA AppStep ==
  ASSUME MInv, NEW c \in Conns, NEW g \in FrameType, Move(c, g),
         UNCHANGED <<apps, sess, listeners, gone>>, granted \subseteq granted',
         Calls(c, g), Needs(c, g.pc, g)',
         StoreTypeOK', MapsGood', HistoryGood'
  PROVE  MInv'
<1>1. /\ frame' \in [Conns -> FrameType]
      /\ frame'[c] = g
      /\ \A d \in Conns \ {c} : frame'[d] = frame[d]
  BY DEF Move, MInv, FramesGood
<1>2. Lasts
  BY DEF Lasts
<1>3. \A d \in Conns \ {c} :
        (Calls(d, frame[d]) /\ Needs(d, frame[d].pc, frame[d]) /\ Client(d))'
  BY <1>1, <1>2, OthersKept
<1>4. Calls(c, g)'
  BY DEF Calls
<1>5. (Calls(c, frame[c]) /\ Needs(c, frame[c].pc, frame[c]))'
  BY <1>1, <1>4
<1>6. Client(c)'
  <2>1. \A id : LetIn(id, c) => LetIn(id, c)'
    BY <1>2, LetInLasts
  <2>2. \A b, a : Made(b, a) => Made(b, a)'
    BY DEF Made
  <2> QED
    BY <2>1, <2>2, Here DEF Client
<1>7. ListenersGood'
  <2>1. \A id, k : LetIn(id, k) => LetIn(id, k)'
    BY DEF LetIn
  <2>2. \A b, a : Made(b, a) => Made(b, a)'
    BY DEF Made
  <2> QED
    BY <2>1, <2>2 DEF MInv, ListenersGood
<1>8. FramesGood' /\ ClientsGood'
  BY <1>1, <1>3, <1>5, <1>6 DEF FramesGood, ClientsGood, MInv
<1> QED
  BY <1>7, <1>8 DEF MInv

\* What a handler was called for stays while it runs.
LEMMA SameCall ==
  ASSUME NEW c, NEW f, NEW g, Calls(c, f), f.pc \notin {"idle", "apps_put"},
         g.pc \notin {"idle", "apps_put"}, g.then # "idle",
         g.app = f.app, g.home = f.home, g.side = f.side, g.cmd = f.cmd
  PROVE  Calls(c, g)
BY DEF Calls

LEMMA KeptMaps ==
  ASSUME MapsGood, UNCHANGED <<apps, sess, boxOf>>
  PROVE  MapsGood'
BY DEF MapsGood

LEMMA KeptHistory ==
  ASSUME HistoryGood, UNCHANGED <<sess, granted, received>>
  PROVE  HistoryGood'
BY DEF HistoryGood, DeliveryIsolation

\* One that only writes to the tables, if to anything.
LEMMA MoveStep ==
  ASSUME MInv, NEW c \in Conns, NEW g \in FrameType, Move(c, g),
         UNCHANGED <<Memory, History>>, StoreTypeOK',
         frame[c].pc \notin {"idle", "apps_put"},
         g.pc \notin {"idle", "apps_put"}, g.then # "idle",
         g.app = frame[c].app, g.home = frame[c].home,
         g.side = frame[c].side, g.cmd = frame[c].cmd, Needs(c, g.pc, g)
  PROVE  MInv'
<1>1. UNCHANGED <<apps, sess, boxOf, listeners, gone, granted, received>>
  BY DEF Memory, History
<1>2. Calls(c, g)
  BY Here, SameCall
<1>3. Needs(c, g.pc, g)'
  BY <1>1 DEF Needs, Made, LetIn
<1>4. MapsGood' /\ HistoryGood'
  BY <1>1, KeptMaps, KeptHistory DEF MInv
<1> QED
  BY <1>1, <1>2, <1>3, <1>4, AppStep

LEMMA GotoStep ==
  ASSUME MInv, NEW c \in Conns, NEW step \in Steps \ {"idle", "apps_put"},
         Goto(c, step), UNCHANGED <<Memory, History>>, StoreTypeOK',
         frame[c].pc \notin {"idle", "apps_put"}, Needs(c, step, frame[c])
  PROVE  MInv'
<1>1. PICK f : f = frame[c]
  OBVIOUS
<1> DEFINE g == [f EXCEPT !.pc = step]
<1>2. g \in FrameType /\ Move(c, g)
  BY <1>1, Here, FrameFields DEF Goto
<1>3. /\ g.pc = step /\ g.then = f.then /\ g.app = f.app /\ g.home = f.home
      /\ g.side = f.side /\ g.cmd = f.cmd /\ g.name = f.name
      /\ g.mailbox = f.mailbox /\ g.box = f.box /\ g.msg = f.msg
  BY <1>1, Here DEF FrameType
<1>4. f.then # "idle"
  BY <1>1, Bound
<1> HIDE DEF g
<1>5. Needs(c, g.pc, g)
  BY <1>1, <1>3 DEF Needs
<1> QED
  BY <1>1, <1>2, <1>3, <1>4, <1>5, MoveStep

LEMMA FailStep ==
  ASSUME MInv, NEW c \in Conns, Fail(c), UNCHANGED <<Memory, History>>,
         StoreTypeOK'
  PROVE  MInv'
<1>1. UNCHANGED <<apps, sess, boxOf, listeners, gone, granted, received>>
  BY DEF Memory, History
<1>2. Calls(c, Idle) /\ Needs(c, Idle.pc, Idle)'
  BY DEF Calls, Needs, Idle, NamedSteps, OpenSteps, IdSteps, AddMessageSteps,
     HeldSteps, ReleaseSteps, MailboxSteps, AddSteps
<1>3. MapsGood' /\ HistoryGood'
  BY <1>1, KeptMaps, KeptHistory DEF MInv
<1> QED
  BY <1>1, <1>2, <1>3, IdleType, AppStep DEF Fail

LEMMA KeptStore ==
  ASSUME MInv, UNCHANGED store
  PROVE  StoreTypeOK'
BY DEF MInv, StoreTypeOK, store

-----------------------------------------------------------------------------
(* AllocateNameplate, ClaimNameplate and AddMailbox. *)

USE DEF NamedSteps, OpenSteps, IdSteps, AddMessageSteps, HeldSteps,
        ReleaseSteps, MailboxSteps, AddSteps

LEMMA AddMailboxCountStep ==
  ASSUME MInv, NEW c \in Conns, AddMailboxCount(c)
  PROVE  MInv'
<1> DEFINE f == frame[c]
<1>1. f.pc = "mb_count" /\ UNCHANGED <<store, Memory, History>>
  BY DEF AddMailboxCount, At
<1>2. /\ f.then \in {"np_insert", "map_get"}
      /\ Needs(c, "mb_count", f) /\ StoreTypeOK'
  BY <1>1, Here, Bound, KeptStore
<1>3. Goto(c, f.then) \/ Goto(c, "mb_insert")
  BY DEF AddMailboxCount
<1>4. Needs(c, f.then, f) /\ Needs(c, "mb_insert", f)
  BY <1>2 DEF Needs
<1>5. {"np_insert", "map_get", "mb_insert"} \subseteq Steps \ {"idle", "apps_put"}
  BY DEF Steps, DBSteps
<1> QED
  BY <1>1, <1>2, <1>3, <1>4, <1>5, GotoStep

LEMMA AddMailboxInsertStep ==
  ASSUME MInv, NEW c \in Conns, AddMailboxInsert(c)
  PROVE  MInv'
<1> DEFINE f == frame[c]
           row == [id |-> f.mailbox, app |-> f.app, updated |-> now]
<1>1. /\ f.pc = "mb_insert"
      /\ UNCHANGED <<mailboxSides, messages, nameplates, nameplateSides, npSeq,
                     now, Memory, History>>
  BY DEF AddMailboxInsert, At
<1>2. /\ f.then \in {"np_insert", "map_get"} /\ f.app \in AppIDs
      /\ Needs(c, "mb_insert", f)
  BY <1>1, Here, Bound
<1>3. f.mailbox \in MailboxIDs /\ Needs(c, f.then, f)
  BY <1>2 DEF Needs
<1>4. row \in [id : MailboxIDs, app : AppIDs, updated : Nat]
  BY <1>2, <1>3 DEF MInv, StoreTypeOK
<1>5. \/ Fail(c) /\ mailboxes' = mailboxes
      \/ Goto(c, f.then) /\ mailboxes' = mailboxes \cup {row}
  BY DEF AddMailboxInsert
<1> HIDE DEF row
<1>6. StoreTypeOK'
  BY <1>1, <1>4, <1>5 DEF MInv, StoreTypeOK
<1>7. {"np_insert", "map_get"} \subseteq Steps \ {"idle", "apps_put"}
  BY DEF Steps, DBSteps
<1> QED
  BY <1>1, <1>2, <1>3, <1>5, <1>6, <1>7, GotoStep, FailStep

LEMMA FindNameplateStep ==
  ASSUME MInv, NEW c \in Conns, FindNameplate(c)
  PROVE  MInv'
<1> DEFINE f == frame[c]
           named(n) == [f EXCEPT !.name = n, !.pc = "np_select"]
<1>1. /\ f \in FrameType /\ f.pc = "find" /\ f.then # "idle"
      /\ UNCHANGED <<store, Memory, History>>
  BY Here, Bound DEF FindNameplate, At
<1>2. PICK n \in AllocNames : Move(c, named(n))
  BY DEF FindNameplate
<1>3. n \in Names
  BY ApplicationAssumption
<1>4. named(n) \in FrameType
  BY <1>1, <1>3, FrameFields DEF Steps, DBSteps
<1>5. /\ named(n).pc = "np_select" /\ named(n).name = n
      /\ named(n).then = f.then /\ named(n).app = f.app
      /\ named(n).home = f.home /\ named(n).side = f.side
      /\ named(n).cmd = f.cmd
  BY <1>1 DEF FrameType
<1> HIDE DEF named
<1>6. Needs(c, named(n).pc, named(n))
  BY <1>3, <1>5 DEF Needs
<1> QED
  BY <1>1, <1>2, <1>4, <1>5, <1>6, KeptStore, MoveStep

LEMMA ClaimSelectStep ==
  ASSUME MInv, NEW c \in Conns, ClaimSelect(c)
  PROVE  MInv'
<1> DEFINE f == frame[c]
           found(r) == [f EXCEPT !.np = r.id, !.mailbox = r.mailbox,
                                 !.pc = "nps_select"]
           new(id) == [f EXCEPT !.mailbox = id, !.then = "np_insert",
                                !.pc = "mb_count"]
<1>1. /\ f \in FrameType /\ f.pc = "np_select" /\ f.then # "idle"
      /\ UNCHANGED <<store, Memory, History>>
  BY Here, Bound DEF ClaimSelect, At
<1>2. f.name \in Names
  BY <1>1, Here DEF Needs
<1>3. \/ \E r \in nameplates : Move(c, found(r))
      \/ \E id \in MailboxIDs : Move(c, new(id))
  BY DEF ClaimSelect, FirstNameplate, NameplateRows, FreshMailboxIDs
<1>4. CASE \E r \in nameplates : Move(c, found(r))
  <2>1. PICK r \in nameplates : Move(c, found(r))
    BY <1>4
  <2>2. r.id \in Nat /\ r.mailbox \in MailboxIDs
    BY DEF MInv, StoreTypeOK
  <2>3. found(r) \in FrameType
    BY <1>1, <2>2, FrameFields DEF Steps, DBSteps
  <2>4. /\ found(r).pc = "nps_select" /\ found(r).mailbox = r.mailbox
        /\ found(r).then = f.then /\ found(r).app = f.app
        /\ found(r).home = f.home /\ found(r).side = f.side
        /\ found(r).cmd = f.cmd
    BY <1>1 DEF FrameType
  <2> HIDE DEF found
  <2>5. Needs(c, found(r).pc, found(r))
    BY <2>2, <2>4 DEF Needs
  <2> QED
    BY <1>1, <2>1, <2>3, <2>4, <2>5, KeptStore, MoveStep
<1>5. CASE \E id \in MailboxIDs : Move(c, new(id))
  <2>1. PICK id \in MailboxIDs : Move(c, new(id))
    BY <1>5
  <2>2. new(id) \in FrameType
    BY <1>1, FrameFields DEF Steps, DBSteps
  <2>3. /\ new(id).pc = "mb_count" /\ new(id).mailbox = id
        /\ new(id).name = f.name /\ new(id).then = "np_insert"
        /\ new(id).app = f.app /\ new(id).home = f.home
        /\ new(id).side = f.side /\ new(id).cmd = f.cmd
    BY <1>1 DEF FrameType
  <2> HIDE DEF new
  <2>4. Needs(c, new(id).pc, new(id))
    BY <1>2, <2>3 DEF Needs
  <2> QED
    BY <1>1, <2>1, <2>2, <2>3, <2>4, KeptStore, MoveStep
<1> QED
  BY <1>3, <1>4, <1>5

LEMMA ClaimInsertNameplateStep ==
  ASSUME MInv, NEW c \in Conns, ClaimInsertNameplate(c)
  PROVE  MInv'
<1> DEFINE f == frame[c]
           row == [id |-> npSeq + 1, app |-> f.app, name |-> f.name,
                   mailbox |-> f.mailbox]
           g == [f EXCEPT !.np = npSeq + 1, !.pc = "nps_select"]
<1>1. f \in FrameType /\ f.pc = "np_insert" /\ f.then # "idle" /\ f.app \in AppIDs
  BY Here, Bound DEF ClaimInsertNameplate, At
<1>2. /\ nameplates' = nameplates \cup {row} /\ Move(c, g) /\ npSeq' = npSeq + 1
      /\ UNCHANGED <<mailboxes, mailboxSides, messages, nameplateSides, now,
                     Memory, History>>
  BY DEF ClaimInsertNameplate
<1>3. f.name \in Names /\ f.mailbox \in MailboxIDs
  BY <1>1, Here DEF Needs
<1>4. npSeq + 1 \in Nat
  BY DEF MInv, StoreTypeOK
<1>5. row \in [id : Nat, app : AppIDs, name : Names, mailbox : MailboxIDs]
  BY <1>1, <1>3, <1>4
<1>6. g \in FrameType
  BY <1>1, <1>4, FrameFields DEF Steps, DBSteps
<1>7. /\ g.pc = "nps_select" /\ g.mailbox = f.mailbox /\ g.then = f.then
      /\ g.app = f.app /\ g.home = f.home /\ g.side = f.side /\ g.cmd = f.cmd
  BY <1>1 DEF FrameType
<1> HIDE DEF g, row
<1>8. Needs(c, g.pc, g)
  BY <1>3, <1>7 DEF Needs
<1>9. StoreTypeOK'
  BY <1>2, <1>4, <1>5 DEF MInv, StoreTypeOK
<1> QED
  BY <1>1, <1>2, <1>6, <1>7, <1>8, <1>9, MoveStep

\* Both ways on from nameplate_sides lead to OpenMailbox.
LEMMA ToOpenMailbox ==
  ASSUME MInv, NEW c \in Conns, frame[c].pc \in {"nps_select", "nps_insert"},
         Move(c, [frame[c] EXCEPT !.then = "map_get", !.pc = "mb_count"]),
         UNCHANGED <<Memory, History>>, StoreTypeOK'
  PROVE  MInv'
<1> DEFINE f == frame[c]
           g == [f EXCEPT !.then = "map_get", !.pc = "mb_count"]
<1>1. f \in FrameType /\ f.mailbox \in MailboxIDs
  BY Here DEF Needs
<1>2. g \in FrameType
  BY <1>1, FrameFields DEF Steps, DBSteps
<1>3. /\ g.pc = "mb_count" /\ g.then = "map_get" /\ g.mailbox = f.mailbox
      /\ g.app = f.app /\ g.home = f.home /\ g.side = f.side /\ g.cmd = f.cmd
  BY <1>1 DEF FrameType
<1>4. Move(c, g)
  OBVIOUS
<1> HIDE DEF g
<1>5. Needs(c, g.pc, g)
  BY <1>1, <1>3 DEF Needs
<1> QED
  BY <1>2, <1>3, <1>4, <1>5, MoveStep

LEMMA ClaimSelectSideStep ==
  ASSUME MInv, NEW c \in Conns, ClaimSelectSide(c)
  PROVE  MInv'
<1>1. frame[c].pc = "nps_select" /\ UNCHANGED <<store, Memory, History>>
  BY DEF ClaimSelectSide, At
<1>2. StoreTypeOK' /\ Needs(c, "nps_select", frame[c])
  BY <1>1, Here, KeptStore
<1>3. Needs(c, "nps_insert", frame[c])
  BY <1>2 DEF Needs
<1>4. \/ Goto(c, "nps_insert") \/ Fail(c)
      \/ Move(c, [frame[c] EXCEPT !.then = "map_get", !.pc = "mb_count"])
  BY DEF ClaimSelectSide
<1>5. "nps_insert" \in Steps \ {"idle", "apps_put"}
  BY DEF Steps, DBSteps
<1> QED
  BY <1>1, <1>2, <1>3, <1>4, <1>5, GotoStep, FailStep, ToOpenMailbox

LEMMA ClaimInsertSideStep ==
  ASSUME MInv, NEW c \in Conns, ClaimInsertSide(c)
  PROVE  MInv'
<1> DEFINE f == frame[c]
           row == [np |-> f.np, side |-> f.side, claimed |-> TRUE, by |-> c]
<1>1. f.pc = "nps_insert" /\ f \in FrameType /\ f.side \in StoredSides
  BY Here, Bound DEF ClaimInsertSide, At
<1>2. row \in [np : Nat, side : StoredSides, claimed : BOOLEAN, by : Conns]
  BY <1>1 DEF FrameType
<1>3. /\ nameplateSides' = nameplateSides \cup {row}
      /\ Move(c, [f EXCEPT !.then = "map_get", !.pc = "mb_count"])
      /\ UNCHANGED <<mailboxes, mailboxSides, messages, nameplates, npSeq, now,
                     Memory, History>>
  BY DEF ClaimInsertSide
<1> HIDE DEF row
<1>4. StoreTypeOK'
  BY <1>2, <1>3 DEF MInv, StoreTypeOK
<1> QED
  BY <1>1, <1>3, <1>4, ToOpenMailbox

LEMMA ClaimCountStep ==
  ASSUME MInv, NEW c \in Conns, ClaimCount(c)
  PROVE  MInv'
<1>1. frame[c].pc = "nps_count" /\ UNCHANGED <<store, Memory, History>>
  BY DEF ClaimCount, At
<1>2. Needs(c, "ok", frame[c])
  BY <1>1, Here DEF Needs
<1>3. (Fail(c) \/ Goto(c, "ok")) /\ "ok" \in Steps \ {"idle", "apps_put"}
  BY DEF ClaimCount, Steps
<1> QED
  BY <1>1, <1>2, <1>3, KeptStore, GotoStep, FailStep

-----------------------------------------------------------------------------
(* OpenMailbox: the object a handler goes on with is its application's, got *)
(* from the map or made here.                                               *)

With(f, k) ==
  [f EXCEPT !.box = [id |-> f.mailbox, by |-> k], !.pc = "mbs_select"]

LEMMA BoxFrame ==
  ASSUME MInv, NEW c \in Conns, NEW f, f = frame[c],
         f.pc \in {"map_get", "map_put"}, NEW k \in Conns,
         sess[k].app = f.app, NEW g, g = With(f, k)
  PROVE  /\ g \in FrameType /\ g.pc = "mbs_select" /\ g.then # "idle"
         /\ g.app = f.app /\ g.home = f.home /\ g.side = f.side
         /\ g.cmd = f.cmd /\ Needs(c, "mbs_select", g)
<1> DEFINE b == [id |-> f.mailbox, by |-> k]
<1>1. f \in FrameType /\ f.mailbox \in MailboxIDs /\ f.then # "idle"
  BY Here, Bound DEF Needs
<1>2. b \in BoxRefs /\ b.id = f.mailbox /\ b.by = k
  BY <1>1 DEF BoxRefs
<1> HIDE DEF b
<1>3. g \in FrameType
  BY <1>1, <1>2, FrameFields DEF Steps, DBSteps, b, With
<1>4. /\ g.pc = "mbs_select" /\ g.box = b /\ g.mailbox = f.mailbox
      /\ g.then = f.then /\ g.app = f.app /\ g.home = f.home
      /\ g.side = f.side /\ g.cmd = f.cmd
  BY <1>1 DEF FrameType, b, With
<1>5. Needs(c, "mbs_select", g)
  BY <1>1, <1>2, <1>4 DEF Needs, Made
<1> QED
  BY <1>1, <1>3, <1>4, <1>5

LEMMA MapGetStep ==
  ASSUME MInv, NEW c \in Conns, MapGet(c)
  PROVE  MInv'
<1>1. PICK f, k : f = frame[c] /\ k = boxOf[f.home][f.mailbox]
  OBVIOUS
<1>2. f.pc = "map_get" /\ UNCHANGED <<store, Memory, History>>
  BY <1>1 DEF MapGet, At
<1>3. /\ f.mailbox \in MailboxIDs /\ f.home \in Conns
      /\ Needs(c, "map_put", f) /\ "map_put" \in Steps \ {"idle", "apps_put"}
  BY <1>1, <1>2, Here, Bound DEF Needs, Steps
<1>4. sess[f.home].app = f.app
  BY <1>1, <1>2, Here, Bound, StoreAssumption DEF Client
<1>5. CASE k = None
  <2>1. Goto(c, "map_put")
    BY <1>1, <1>5 DEF MapGet
  <2> QED
    BY <1>1, <1>2, <1>3, <2>1, KeptStore, GotoStep
<1>6. CASE k # None
  <2>1. k \in Conns /\ sess[k].app = f.app
    BY <1>1, <1>3, <1>4, <1>6 DEF MInv, MapsGood
  <2>2. Move(c, With(f, k))
    BY <1>1, <1>6 DEF MapGet, With
  <2>3. PICK h : h = With(f, k)
    OBVIOUS
  <2> f.pc \in {"map_get", "map_put"}
    BY <1>2
  <2>4. /\ h \in FrameType /\ h.pc = "mbs_select" /\ h.then # "idle"
        /\ h.app = f.app /\ h.home = f.home /\ h.side = f.side
        /\ h.cmd = f.cmd /\ Needs(c, "mbs_select", h)
    BY <1>1, <2>1, <2>3, BoxFrame
  <2> QED
    BY <1>1, <1>2, <2>2, <2>3, <2>4, KeptStore, MoveStep
<1> QED
  BY <1>5, <1>6

LEMMA MapPutStep ==
  ASSUME MInv, NEW c \in Conns, MapPut(c)
  PROVE  MInv'
<1>1. PICK f : f = frame[c]
  OBVIOUS
<1>2. /\ f.pc = "map_put" /\ Move(c, With(f, c))
      /\ boxOf' = [boxOf EXCEPT ![f.home][f.mailbox] = c]
      /\ UNCHANGED <<store, apps, sess, listeners, gone, History>>
  BY <1>1 DEF MapPut, At, With
<1>3. /\ f.mailbox \in MailboxIDs /\ f.home \in Conns
      /\ f.app \in AppIDs /\ f.app = sess[c].app
  BY <1>1, <1>2, Here, Bound DEF Needs
<1>4. sess[f.home].app = f.app
  BY <1>1, <1>2, Here, Bound, StoreAssumption DEF Client
<1>5. PICK h : h = With(f, c)
  OBVIOUS
<1>6. /\ h \in FrameType /\ h.pc = "mbs_select" /\ h.then # "idle"
      /\ h.app = f.app /\ h.home = f.home /\ h.side = f.side
      /\ h.cmd = f.cmd /\ Needs(c, "mbs_select", h)
  BY <1>1, <1>2, <1>3, <1>5, BoxFrame
<1>7. Calls(c, h)
  BY <1>1, <1>2, <1>6, Here, SameCall
<1>8. Needs(c, h.pc, h)'
  BY <1>2, <1>6 DEF Needs, Made, LetIn, History
<1>9. MapsGood'
  <2>1. boxOf' \in [Conns -> [MailboxIDs -> Conns \cup {None}]]
    BY <1>2, <1>3 DEF MInv, MapsGood
  <2>2. ASSUME NEW k \in Conns, NEW id \in MailboxIDs, boxOf'[k][id] # None
        PROVE  sess[k].app \in AppIDs /\ sess[boxOf'[k][id]].app = sess[k].app
    <3>1. CASE k = f.home /\ id = f.mailbox
      <4>1. boxOf'[k][id] = c
        BY <1>2, <1>3, <3>1 DEF MInv, MapsGood
      <4> QED
        BY <1>3, <1>4, <3>1, <4>1
    <3>2. CASE k # f.home \/ id # f.mailbox
      <4>1. boxOf'[k][id] = boxOf[k][id]
        BY <1>2, <1>3, <3>2 DEF MInv, MapsGood
      <4> QED
        BY <2>2, <4>1 DEF MInv, MapsGood
    <3> QED
      BY <3>1, <3>2
  <2> QED
    BY <1>2, <2>1, <2>2 DEF MInv, MapsGood
<1>10. StoreTypeOK' /\ HistoryGood' /\ Move(c, h) /\ granted \subseteq granted'
  BY <1>2, <1>5, KeptStore, KeptHistory DEF MInv, History
<1> QED
  BY <1>2, <1>6, <1>7, <1>8, <1>9, <1>10, AppStep

\* From a step of Mailbox.Open to another.
LEMMA OpenGoto ==
  ASSUME MInv, NEW c \in Conns, NEW step \in OpenSteps,
         frame[c].pc \in OpenSteps, Goto(c, step),
         UNCHANGED <<Memory, History>>, StoreTypeOK'
  PROVE  MInv'
<1>1. Needs(c, step, frame[c])
  BY Here DEF Needs
<1>2. step \in Steps \ {"idle", "apps_put"}
  BY DEF Steps, DBSteps
<1> QED
  BY <1>1, <1>2, GotoStep

LEMMA KeptMailboxes ==
  ASSUME MInv, NEW id
  PROVE  Touched(id) = mailboxes
<1>1. Arg(<<2, 1>>, <<id, now>>, 1) = now
  BY DEF Arg
<1>2. \A r \in mailboxes : r.id # now
  BY StoreAssumption DEF MInv, StoreTypeOK
<1> QED
  BY <1>1, <1>2 DEF Touched

LEMMA OpenMoves ==
  ASSUME MInv, NEW c \in Conns,
         OpenSelectSide(c) \/ OpenInsertSide(c) \/ OpenTouch(c)
  PROVE  MInv'
<1> DEFINE row == [mailbox |-> frame[c].box.id, side |-> frame[c].side, by |-> c]
<1>1. /\ Goto(c, "touch") \/ Goto(c, "mbs_insert") \/ Goto(c, "mbs_count")
      /\ frame[c].pc \in OpenSteps /\ UNCHANGED <<Memory, History>>
  BY DEF OpenSelectSide, OpenInsertSide, OpenTouch, At
<1>2. CASE OpenSelectSide(c) \/ OpenTouch(c)
  <2>1. UNCHANGED store
    BY <1>2, KeptMailboxes DEF OpenSelectSide, OpenTouch, store
  <2> QED
    BY <1>1, <2>1, KeptStore, OpenGoto
<1>3. CASE OpenInsertSide(c)
  <2>1. Made(frame[c].box, frame[c].app) /\ frame[c].side \in StoredSides
    BY <1>1, Here, Bound DEF Needs
  <2>2. row \in [mailbox : MailboxIDs, side : StoredSides, by : Conns]
    BY <2>1 DEF Made, BoxRefs
  <2>3. /\ mailboxSides' = mailboxSides \cup {row}
        /\ UNCHANGED <<mailboxes, messages, nameplates, nameplateSides, npSeq,
                       now>>
    BY <1>3 DEF OpenInsertSide
  <2> HIDE DEF row
  <2>4. StoreTypeOK'
    BY <2>2, <2>3 DEF MInv, StoreTypeOK
  <2> QED
    BY <1>1, <2>4, OpenGoto
<1> QED
  BY <1>2, <1>3

LEMMA OpenCountStep ==
  ASSUME MInv, NEW c \in Conns, OpenCount(c)
  PROVE  MInv'
<1>1. PICK f : f = frame[c]
  OBVIOUS
<1> DEFINE grant == [mailbox |-> f.mailbox, side |-> f.side, by |-> c]
           step == IF f.cmd \in {"allocate", "claim"} THEN "nps_count" ELSE "ok"
           g == [f EXCEPT !.pc = step]
<1>2. f.pc = "mbs_count" /\ UNCHANGED <<store, Memory, received>>
  BY <1>1 DEF OpenCount, At
<1>3. \/ Fail(c) /\ UNCHANGED granted
      \/ granted' = granted \cup {grant} /\ Move(c, g)
  BY <1>1 DEF OpenCount, Goto
<1>4. CASE Fail(c) /\ UNCHANGED granted
  BY <1>2, <1>4, KeptStore, FailStep DEF History
<1>5. CASE granted' = granted \cup {grant} /\ Move(c, g)
  <2>1. /\ f \in FrameType /\ f.mailbox \in MailboxIDs
        /\ f.side \in StoredSides /\ f.then # "idle"
        /\ Made(f.box, f.app) /\ f.box.id = f.mailbox
    BY <1>1, <1>2, Here, Bound DEF Needs
  <2>2. /\ grant \in [mailbox : MailboxIDs, side : StoredSides, by : Conns]
        /\ grant.mailbox = f.box.id /\ grant.by = c
    BY <2>1
  <2>3. /\ step \in Steps \ {"idle", "apps_put"}
        /\ (step = "nps_count" /\ f.cmd \in {"allocate", "claim"}) \/ step = "ok"
    BY DEF Steps, DBSteps
  <2> HIDE DEF step, grant
  <2>4. g \in FrameType
    BY <2>1, <2>3, FrameFields
  <2>5. /\ g.pc = step /\ g.then = f.then /\ g.app = f.app /\ g.home = f.home
        /\ g.side = f.side /\ g.cmd = f.cmd /\ g.box = f.box
    BY <2>1 DEF FrameType
  <2>6. PICK h : h = g
    OBVIOUS
  <2> HIDE DEF g
  <2>7. Calls(c, h)
    BY <1>1, <1>2, <2>1, <2>3, <2>5, <2>6, Here, SameCall
  <2>8. Made(f.box, f.app)' /\ LetIn(f.box.id, c)'
    BY <1>2, <1>5, <2>1, <2>2 DEF Made, LetIn, Memory
  <2>9. Needs(c, h.pc, h)'
    BY <2>3, <2>5, <2>6, <2>8 DEF Needs
  <2>10. HistoryGood'
    BY <1>2, <1>5, <2>2 DEF MInv, HistoryGood, DeliveryIsolation, Memory
  <2>11. MapsGood' /\ StoreTypeOK'
    BY <1>2, KeptMaps, KeptStore DEF MInv, Memory
  <2> QED
    BY <1>2, <1>5, <2>4, <2>6, <2>7, <2>9, <2>10, <2>11, AppStep DEF Memory
<1> QED
  BY <1>3, <1>4, <1>5

-----------------------------------------------------------------------------
(* ReleaseNameplate, AddMessage, Close, and a statement that fails. *)

LEMMA ReleaseStepGood ==
  ASSUME MInv, NEW c \in Conns, ReleaseStep(c)
  PROVE  MInv'
<1> DEFINE f == frame[c]
           chosen(r) == [f EXCEPT !.np = r.id, !.pc = "rel_side"]
<1>1. /\ f.pc \in ReleaseSteps
      /\ UNCHANGED <<mailboxes, mailboxSides, messages, npSeq, now, Memory,
                     History>>
  BY DEF ReleaseStep, ReleaseSelect, ReleaseSelectSide, ReleaseUpdate,
     ReleaseCount, ReleaseDeleteSides, ReleaseDelete, At, store
<1>2. nameplates' \subseteq nameplates
  BY DEF ReleaseStep, ReleaseSelect, ReleaseSelectSide, ReleaseUpdate,
     ReleaseCount, ReleaseDeleteSides, ReleaseDelete, store
<1>3. nameplateSides' \subseteq
        [np : Nat, side : StoredSides, claimed : BOOLEAN, by : Conns]
  <2>1. CASE ReleaseUpdate(c)
    BY <2>1 DEF ReleaseUpdate, MInv, StoreTypeOK
  <2>2. CASE nameplateSides' \subseteq nameplateSides
    BY <2>2 DEF MInv, StoreTypeOK
  <2> QED
    BY <2>1, <2>2
    DEF ReleaseStep, ReleaseSelect, ReleaseSelectSide, ReleaseCount,
        ReleaseDeleteSides, ReleaseDelete, store
<1>4. StoreTypeOK'
  BY <1>1, <1>2, <1>3 DEF MInv, StoreTypeOK
<1>5. \/ \E step \in (ReleaseSteps \ {"rel_np"}) \cup {"ok"} : Goto(c, step)
      \/ \E r \in nameplates : Move(c, chosen(r))
  BY DEF ReleaseStep, ReleaseSelect, ReleaseSelectSide, ReleaseUpdate,
     ReleaseCount, ReleaseDeleteSides, ReleaseDelete, FirstNameplate,
     NameplateRows
<1>6. f \in FrameType /\ f.cmd = "release" /\ f.then # "idle"
  BY <1>1, Here, Bound DEF Needs
<1>7. CASE \E step \in (ReleaseSteps \ {"rel_np"}) \cup {"ok"} : Goto(c, step)
  <2>1. PICK step \in (ReleaseSteps \ {"rel_np"}) \cup {"ok"} : Goto(c, step)
    BY <1>7
  <2>2. Needs(c, step, f)
    BY <1>6 DEF Needs
  <2>3. step \in Steps \ {"idle", "apps_put"}
    BY DEF Steps, DBSteps
  <2> QED
    BY <1>1, <1>4, <2>1, <2>2, <2>3, GotoStep
<1>8. CASE \E r \in nameplates : Move(c, chosen(r))
  <2>1. PICK r \in nameplates : Move(c, chosen(r))
    BY <1>8
  <2>2. r.id \in Nat
    BY DEF MInv, StoreTypeOK
  <2>3. chosen(r) \in FrameType
    BY <1>6, <2>2, FrameFields DEF Steps, DBSteps
  <2>4. /\ chosen(r).pc = "rel_side" /\ chosen(r).then = f.then
        /\ chosen(r).app = f.app /\ chosen(r).home = f.home
        /\ chosen(r).side = f.side /\ chosen(r).cmd = f.cmd
    BY <1>6 DEF FrameType
  <2> HIDE DEF chosen
  <2>5. Needs(c, chosen(r).pc, chosen(r))
    BY <1>6, <2>4 DEF Needs
  <2> QED
    BY <1>1, <1>4, <1>6, <2>1, <2>3, <2>4, <2>5, MoveStep
<1> QED
  BY <1>5, <1>7, <1>8

LEMMA AddInsertStep ==
  ASSUME MInv, NEW c \in Conns, AddInsert(c)
  PROVE  MInv'
<1> DEFINE f == frame[c]
           row == [app |-> f.app, mailbox |-> f.box.id, side |-> f.side,
                   msg |-> f.msg]
<1>1. /\ f.pc = "add_insert" /\ Goto(c, "broadcast")
      /\ messages' = messages \cup {row}
      /\ UNCHANGED <<mailboxes, mailboxSides, nameplates, nameplateSides,
                     npSeq, now, Memory, History>>
  BY DEF AddInsert, At
<1>2. f.app \in AppIDs /\ Needs(c, "add_insert", f)
  BY <1>1, Here, Bound
<1>3. f.box \in BoxRefs /\ f.side \in Sides /\ f.msg \in Msgs
  BY <1>2 DEF Needs, Made
<1>4. row \in [app : AppIDs, mailbox : MailboxIDs, side : Sides, msg : Msgs]
  BY <1>2, <1>3 DEF BoxRefs
<1>5. Needs(c, "broadcast", f)
  BY <1>2 DEF Needs
<1> HIDE DEF row
<1>6. StoreTypeOK'
  BY <1>1, <1>4 DEF MInv, StoreTypeOK
<1>7. "broadcast" \in Steps \ {"idle", "apps_put"}
  BY DEF Steps
<1> QED
  BY <1>1, <1>5, <1>6, <1>7, GotoStep

\* The object's listeners are of its maker's application, as the sender is:
\* whatever map the object was found in, and whatever rows are left of it.
LEMMA AddBroadcastStep ==
  ASSUME MInv, NEW c \in Conns, AddBroadcast(c)
  PROVE  MInv'
<1>1. PICK f : f = frame[c]
  OBVIOUS
<1> DEFINE told == {m \in listeners : m.box = f.box /\ m.conn \notin gone}
           copies == { [to |-> l.conn, app |-> f.app, mailbox |-> f.box.id,
                        msg |-> f.msg] : l \in told }
           g == [f EXCEPT !.pc = "add_touch"]
<1>2. /\ f.pc = "broadcast" /\ received' = received \cup copies /\ Move(c, g)
      /\ UNCHANGED <<store, Memory, granted>>
  BY <1>1 DEF AddBroadcast, At, Goto
<1>3. /\ f \in FrameType /\ f.app \in AppIDs /\ f.then # "idle"
      /\ Needs(c, "broadcast", f)
  BY <1>1, <1>2, Here, Bound
<1>4. f.box.id \in MailboxIDs /\ f.msg \in Msgs /\ Made(f.box, f.app)
  BY <1>3 DEF Needs, Made, BoxRefs
<1>5. ASSUME NEW l \in told
      PROVE  /\ l.conn \in Conns /\ sess[l.conn].app = f.app
             /\ LetIn(f.box.id, l.conn)
  <2>1. l \in listeners /\ l.box = f.box
    OBVIOUS
  <2> QED
    BY <1>4, <2>1 DEF MInv, ListenersGood, Made
<1>6. HistoryGood'
  <2>1. copies \subseteq
          [to : Conns, app : AppIDs, mailbox : MailboxIDs, msg : Msgs]
    BY <1>3, <1>4, <1>5
  <2>2. ASSUME NEW d \in received'
        PROVE  sess[d.to].app = d.app /\ LetIn(d.mailbox, d.to)
    <3>1. CASE d \in received
      BY <3>1 DEF MInv, HistoryGood, DeliveryIsolation, LetIn
    <3>2. CASE d \in copies
      <4>1. PICK l \in told : d = [to |-> l.conn, app |-> f.app,
                                   mailbox |-> f.box.id, msg |-> f.msg]
        BY <3>2
      <4> QED
        BY <1>5, <4>1
    <3> QED
      BY <1>2, <3>1, <3>2
  <2> HIDE DEF copies
  <2> QED
    BY <1>2, <2>1, <2>2 DEF MInv, HistoryGood, DeliveryIsolation, LetIn, Memory
<1>7. g \in FrameType
  BY <1>3, FrameFields DEF Steps, DBSteps
<1>8. /\ g.pc = "add_touch" /\ g.then = f.then /\ g.app = f.app
      /\ g.home = f.home /\ g.side = f.side /\ g.cmd = f.cmd /\ g.box = f.box
  BY <1>3 DEF FrameType
<1>9. PICK h : h = g
  OBVIOUS
<1> HIDE DEF g, copies, told
<1>10. Calls(c, h)
  BY <1>1, <1>2, <1>3, <1>8, <1>9, Here, SameCall
<1>11. Needs(c, "add_touch", h)
  BY <1>3, <1>8, <1>9 DEF Needs
<1>12. Needs(c, h.pc, h)'
  BY <1>2, <1>8, <1>9, <1>11 DEF Needs, Made, LetIn, Memory
<1>13. MapsGood' /\ StoreTypeOK'
  BY <1>2, KeptMaps, KeptStore DEF MInv, Memory
<1> QED
  BY <1>2, <1>6, <1>7, <1>9, <1>10, <1>12, <1>13, AppStep DEF Memory

LEMMA LastSteps ==
  ASSUME MInv, NEW c \in Conns, AddTouch(c) \/ CloseSelect(c)
  PROVE  MInv'
<1>1. /\ frame[c].pc \in {"add_touch", "close_select"}
      /\ Fail(c) \/ Goto(c, "ok")
      /\ UNCHANGED <<store, Memory, History>>
  BY KeptMailboxes DEF AddTouch, CloseSelect, At, store
<1>2. Needs(c, "ok", frame[c])
  BY <1>1, Here DEF Needs
<1>3. "ok" \in Steps \ {"idle", "apps_put"}
  BY DEF Steps
<1> QED
  BY <1>1, <1>2, <1>3, KeptStore, GotoStep, FailStep

LEMMA ApplicationStepGood ==
  ASSUME MInv, NEW c \in Conns, ApplicationStep(c)
  PROVE  MInv'
<1>1. CASE AllocateOrClaimStep(c)
  BY <1>1, FindNameplateStep, ClaimSelectStep, ClaimInsertNameplateStep,
     ClaimSelectSideStep, ClaimInsertSideStep, ClaimCountStep
  DEF AllocateOrClaimStep
<1>2. CASE OpenStep(c)
  BY <1>2, AddMailboxCountStep, AddMailboxInsertStep, MapGetStep, MapPutStep,
     OpenMoves, OpenCountStep
  DEF OpenStep
<1>3. CASE ReleaseStep(c)
  BY <1>3, ReleaseStepGood
<1>4. CASE MessageOrCloseStep(c)
  BY <1>4, AddInsertStep, AddBroadcastStep, LastSteps DEF MessageOrCloseStep
<1>5. CASE StatementFails(c)
  BY <1>5, KeptStore, FailStep DEF StatementFails
<1> QED
  BY <1>1, <1>2, <1>3, <1>4, <1>5 DEF ApplicationStep

-----------------------------------------------------------------------------
(* The beginnings of the handlers. *)

LEMMA CallFields ==
  ASSUME MInv, NEW c \in Conns, IsBound(c),
         NEW cmd \in Commands, NEW step \in Steps
  PROVE  /\ CallFrame(c, cmd, step) \in FrameType
         /\ CallFrame(c, cmd, step).pc = step
         /\ CallFrame(c, cmd, step).cmd = cmd
         /\ CallFrame(c, cmd, step).app = sess[c].app
         /\ CallFrame(c, cmd, step).home = sess[c].home
         /\ CallFrame(c, cmd, step).side = sess[c].side
         /\ CallFrame(c, cmd, step).then = "map_get"
         /\ sess[c].side \in Sides
<1>1. sess[c].app \in AppIDs /\ sess[c].home \in Conns /\ sess[c].side \in Sides
  BY Here DEF IsBound, Client, SessType
<1> QED
  BY <1>1 DEF CallFrame, FrameType, Idle, StoredSides

LEMMA BeginStep ==
  ASSUME MInv, NEW c \in Conns, NEW g \in FrameType, Begin(c, g),
         g.pc \notin {"idle", "apps_put"}, g.then # "idle",
         g.app = sess[c].app, g.home = sess[c].home, g.side \in StoredSides,
         g.cmd \in {"open", "reopen"} => sess[c].mailbox = None,
         g.cmd \in {"close", "reopen"} => ~sess[c].closed,
         Needs(c, g.pc, g)
  PROVE  MInv'
<1>1. /\ Move(c, g) /\ c \notin gone /\ sess[c].home # None
      /\ UNCHANGED <<store, apps, sess, boxOf, listeners, gone, granted,
                     received>>
  BY DEF Begin, Ready, IsBound, Memory, History
<1>2. Calls(c, g)
  BY <1>1 DEF Calls
<1>3. Needs(c, g.pc, g)'
  BY <1>1 DEF Needs, Made, LetIn
<1>4. MapsGood' /\ HistoryGood' /\ StoreTypeOK'
  BY <1>1, KeptMaps, KeptHistory, KeptStore DEF MInv
<1> QED
  BY <1>1, <1>2, <1>3, <1>4, AppStep

LEMMA HandleAllocateStep ==
  ASSUME MInv, NEW c \in Conns, HandleAllocate(c)
  PROVE  MInv'
<1> DEFINE g == CallFrame(c, "allocate", "find")
<1>1. Begin(c, g) /\ IsBound(c)
  BY DEF HandleAllocate, Begin
<1>2. "find" \in Steps /\ "allocate" \in Commands
  BY DEF Steps, DBSteps, Commands
<1>3. /\ g \in FrameType /\ g.pc = "find" /\ g.cmd = "allocate"
      /\ g.app = sess[c].app /\ g.home = sess[c].home
      /\ g.side \in StoredSides /\ g.then = "map_get"
  BY <1>1, <1>2, CallFields DEF StoredSides
<1> HIDE DEF g
<1>4. Needs(c, g.pc, g)
  BY <1>3 DEF Needs
<1> QED
  BY <1>1, <1>3, <1>4, BeginStep

LEMMA HandleClaimStep ==
  ASSUME MInv, NEW c \in Conns, HandleClaim(c)
  PROVE  MInv'
<1> DEFINE f == CallFrame(c, "claim", "np_select")
           claim(n) == [f EXCEPT !.name = n, !.side = n]
<1>1. PICK n \in Names : Begin(c, claim(n))
  BY DEF HandleClaim
<1>2. "np_select" \in Steps /\ "claim" \in Commands /\ IsBound(c)
  BY <1>1 DEF Steps, DBSteps, Commands, Begin
<1>3. /\ f \in FrameType /\ f.pc = "np_select" /\ f.cmd = "claim"
      /\ f.app = sess[c].app /\ f.home = sess[c].home /\ f.then = "map_get"
  BY <1>2, CallFields
<1> HIDE DEF f
<1>4. /\ claim(n) \in FrameType /\ claim(n).pc = "np_select"
      /\ claim(n).cmd = "claim" /\ claim(n).name = n /\ claim(n).side = n
      /\ claim(n).app = f.app /\ claim(n).home = f.home
      /\ claim(n).then = f.then /\ n \in StoredSides
  BY <1>3 DEF FrameType, StoredSides
<1> HIDE DEF claim
<1>5. Needs(c, claim(n).pc, claim(n))
  BY <1>4 DEF Needs
<1> QED
  BY <1>1, <1>3, <1>4, <1>5, BeginStep

LEMMA HandleReleaseStep ==
  ASSUME MInv, NEW c \in Conns, HandleRelease(c)
  PROVE  MInv'
<1> DEFINE f == CallFrame(c, "release", "rel_np")
           g == [f EXCEPT !.name = sess[c].nameplate]
<1>1. Begin(c, g) /\ IsBound(c) /\ sess[c].nameplate \in Names
  BY Here DEF HandleRelease, Begin, SessType
<1>2. "rel_np" \in Steps /\ "release" \in Commands
  BY DEF Steps, DBSteps, Commands
<1>3. /\ f \in FrameType /\ f.pc = "rel_np" /\ f.cmd = "release"
      /\ f.app = sess[c].app /\ f.home = sess[c].home
      /\ f.side \in StoredSides /\ f.then = "map_get"
  BY <1>1, <1>2, CallFields DEF StoredSides
<1> HIDE DEF f
<1>4. /\ g \in FrameType /\ g.pc = "rel_np" /\ g.cmd = "release"
      /\ g.app = f.app /\ g.home = f.home /\ g.side = f.side /\ g.then = f.then
  BY <1>1, <1>3 DEF FrameType
<1> HIDE DEF g
<1>5. Needs(c, g.pc, g)
  BY <1>4 DEF Needs
<1> QED
  BY <1>1, <1>3, <1>4, <1>5, BeginStep

\* HandleOpen, and HandleClose with the mailbox it opens first.
LEMMA BeginOpenStep ==
  ASSUME MInv, NEW c \in Conns, NEW cmd \in {"open", "reopen"},
         NEW id \in MailboxIDs, sess[c].mailbox = None,
         cmd = "reopen" => ~sess[c].closed,
         Begin(c, [CallFrame(c, cmd, "mb_count") EXCEPT !.mailbox = id])
  PROVE  MInv'
<1> DEFINE f == CallFrame(c, cmd, "mb_count")
           g == [f EXCEPT !.mailbox = id]
<1>1. Begin(c, g) /\ IsBound(c)
  BY DEF Begin
<1>2. "mb_count" \in Steps /\ cmd \in Commands
  BY DEF Steps, DBSteps, Commands
<1>3. /\ f \in FrameType /\ f.pc = "mb_count" /\ f.cmd = cmd
      /\ f.app = sess[c].app /\ f.home = sess[c].home
      /\ f.side \in StoredSides /\ f.then = "map_get"
  BY <1>1, <1>2, CallFields DEF StoredSides
<1> HIDE DEF f
<1>4. /\ g \in FrameType /\ g.pc = "mb_count" /\ g.cmd = cmd
      /\ g.app = f.app /\ g.home = f.home /\ g.side = f.side
      /\ g.then = f.then /\ g.mailbox = id
  BY <1>3 DEF FrameType
<1> HIDE DEF g
<1>5. Needs(c, g.pc, g)
  BY <1>3, <1>4 DEF Needs
<1> QED
  BY <1>1, <1>3, <1>4, <1>5, BeginStep

\* HandleAdd, and HandleClose with the mailbox the client holds.
LEMMA BeginHeldStep ==
  ASSUME MInv, NEW c \in Conns, HandleAdd(c) \/ HandleClose(c),
         sess[c].mailbox # None
  PROVE  MInv'
<1> DEFINE f == CallFrame(c, "add", "add_insert")
           add(m) == [f EXCEPT !.box = sess[c].mailbox, !.msg = m]
           e == CallFrame(c, "close", "close_select")
           close == [e EXCEPT !.box = sess[c].mailbox]
<1>1. /\ sess[c].mailbox \in BoxRefs
      /\ Made(sess[c].mailbox, sess[c].app) /\ LetIn(sess[c].mailbox.id, c)
  BY Here DEF Client, SessType
<1>2. CASE HandleAdd(c)
  <2>1. PICK m \in Msgs : Begin(c, add(m))
    BY <1>2 DEF HandleAdd
  <2>2. "add_insert" \in Steps /\ "add" \in Commands /\ IsBound(c)
    BY <2>1 DEF Steps, DBSteps, Commands, Begin
  <2>3. /\ f \in FrameType /\ f.pc = "add_insert" /\ f.cmd = "add"
        /\ f.app = sess[c].app /\ f.home = sess[c].home
        /\ f.side \in Sides /\ f.then = "map_get"
    BY <2>2, CallFields
  <2> HIDE DEF f
  <2>4. /\ add(m) \in FrameType /\ add(m).pc = "add_insert"
        /\ add(m).cmd = "add" /\ add(m).app = f.app /\ add(m).home = f.home
        /\ add(m).side = f.side /\ add(m).then = f.then
        /\ add(m).box = sess[c].mailbox /\ add(m).msg = m
    BY <1>1, <2>3 DEF FrameType
  <2> HIDE DEF add
  <2>5. Needs(c, add(m).pc, add(m))
    BY <1>1, <2>3, <2>4 DEF Needs
  <2> QED
    BY <2>1, <2>3, <2>4, <2>5, BeginStep DEF StoredSides
<1>3. CASE HandleClose(c)
  <2>1. Begin(c, close) /\ IsBound(c) /\ ~sess[c].closed
    BY <1>3 DEF HandleClose, Begin
  <2>2. "close_select" \in Steps /\ "close" \in Commands
    BY DEF Steps, DBSteps, Commands
  <2>3. /\ e \in FrameType /\ e.pc = "close_select" /\ e.cmd = "close"
        /\ e.app = sess[c].app /\ e.home = sess[c].home
        /\ e.side \in StoredSides /\ e.then = "map_get"
    BY <2>1, <2>2, CallFields DEF StoredSides
  <2> HIDE DEF e
  <2>4. /\ close \in FrameType /\ close.pc = "close_select"
        /\ close.cmd = "close" /\ close.app = e.app /\ close.home = e.home
        /\ close.side = e.side /\ close.then = e.then
        /\ close.box = sess[c].mailbox
    BY <1>1, <2>3 DEF FrameType
  <2> HIDE DEF close
  <2>5. Needs(c, close.pc, close)
    BY <1>1, <2>3, <2>4 DEF Needs
  <2> QED
    BY <2>1, <2>3, <2>4, <2>5, BeginStep
<1> QED
  BY <1>2, <1>3

LEMMA CallsGood ==
  ASSUME MInv, NEW c \in Conns,
         \/ HandleAllocate(c) \/ HandleClaim(c) \/ HandleRelease(c)
         \/ HandleOpen(c) \/ HandleAdd(c) \/ HandleClose(c)
  PROVE  MInv'
<1>1. HandleAdd(c) => sess[c].mailbox # None
  BY DEF HandleAdd
<1>2. HandleOpen(c) => MInv'
  BY BeginOpenStep DEF HandleOpen
<1>3. HandleClose(c) /\ sess[c].mailbox = None => MInv'
  BY BeginOpenStep DEF HandleClose
<1> QED
  BY <1>1, <1>2, <1>3, HandleAllocateStep, HandleClaimStep, HandleReleaseStep,
     BeginHeldStep

-----------------------------------------------------------------------------
(* Steps that change a Client object, the Apps map or the listeners. *)

LEMMA ClientStep ==
  ASSUME MInv, NEW c \in Conns,
         NEW g \in FrameType, Move(c, g),
         NEW s \in SessType, sess' = [sess EXCEPT ![c] = s],
         s.app = sess[c].app \/ sess[c].app = None,
         UNCHANGED <<store, boxOf, History>>,
         apps' \in [AppIDs -> Conns \cup {None}],
         \A a \in AppIDs : apps'[a] # None => sess'[apps'[a]].app = a,
         gone' \subseteq Conns, gone' \ {c} = gone \ {c},
         listeners' \subseteq [box : BoxRefs, conn : Conns, handle : 1..2],
         \A l \in listeners' \ listeners :
           /\ l.conn = c /\ s.app \in AppIDs
           /\ Made(l.box, s.app) /\ LetIn(l.box.id, c),
         Calls(c, frame[c])', Needs(c, frame[c].pc, frame[c])', Client(c)'
  PROVE  MInv'
<1>1. /\ frame' \in [Conns -> FrameType]
      /\ \A d \in Conns \ {c} : frame'[d] = frame[d]
  BY DEF Move, MInv, FramesGood
<1>2. /\ sess' \in [Conns -> SessType] /\ sess'[c] = s
      /\ \A d \in Conns \ {c} : sess'[d] = sess[d]
  BY DEF MInv, ClientsGood
<1>3. Lasts
  BY <1>2 DEF Lasts, History
<1>4. \A d \in Conns \ {c} :
        (Calls(d, frame[d]) /\ Needs(d, frame[d].pc, frame[d]) /\ Client(d))'
  BY <1>1, <1>2, <1>3, OthersKept
<1>5. FramesGood' /\ ClientsGood'
  BY <1>1, <1>2, <1>4 DEF FramesGood, ClientsGood
<1>6. \A k \in Conns : sess[k].app \in AppIDs => sess'[k].app = sess[k].app
  BY <1>3, StoreAssumption DEF Lasts
<1>7. MapsGood'
  <2>1. ASSUME NEW k \in Conns, NEW id \in MailboxIDs, boxOf[k][id] # None
        PROVE  /\ sess'[k].app \in AppIDs
               /\ sess'[boxOf[k][id]].app = sess'[k].app
    <3>1. /\ sess[k].app \in AppIDs /\ boxOf[k][id] \in Conns
          /\ sess[boxOf[k][id]].app = sess[k].app
      BY <2>1 DEF MInv, MapsGood
    <3> QED
      BY <1>6, <3>1
  <2> QED
    BY <2>1 DEF MInv, MapsGood
<1>8. ListenersGood'
  <2>1. ASSUME NEW l \in listeners'
        PROVE  /\ sess'[l.conn].app \in AppIDs
               /\ l.box \in BoxRefs /\ sess'[l.box.by].app = sess'[l.conn].app
               /\ LetIn(l.box.id, l.conn)'
    <3>1. l.conn \in Conns /\ l.box \in BoxRefs /\ l.box.by \in Conns
      BY DEF BoxRefs
    <3>2. CASE l \in listeners
      <4>1. /\ sess[l.conn].app \in AppIDs /\ LetIn(l.box.id, l.conn)
            /\ sess[l.box.by].app = sess[l.conn].app
        BY <3>2 DEF MInv, ListenersGood, Made
      <4> QED
        BY <1>3, <1>6, <3>1, <4>1, LetInLasts
    <3>3. CASE l \notin listeners
      <4>1. /\ l.conn = c /\ s.app \in AppIDs /\ LetIn(l.box.id, c)
            /\ sess[l.box.by].app = s.app
        BY <3>3 DEF Made
      <4> QED
        BY <1>2, <1>3, <1>6, <3>1, <4>1, LetInLasts
    <3> QED
      BY <3>2, <3>3
  <2> QED
    BY <2>1 DEF ListenersGood, Made
<1>9. HistoryGood'
  <2>1. ASSUME NEW d \in received
        PROVE  sess'[d.to].app = d.app
    <3>1. d.to \in Conns /\ d.app \in AppIDs /\ sess[d.to].app = d.app
      BY DEF MInv, HistoryGood, DeliveryIsolation
    <3> QED
      BY <1>6, <3>1
  <2> QED
    BY <2>1 DEF MInv, HistoryGood, DeliveryIsolation, History
<1>10. StoreTypeOK'
  BY KeptStore
<1> QED
  BY <1>5, <1>7, <1>8, <1>9, <1>10 DEF MInv

\* Such a step that ends the handler.
LEMMA EndStep ==
  ASSUME MInv, NEW c \in Conns, Fail(c),
         NEW s \in SessType, sess' = [sess EXCEPT ![c] = s],
         s.app = sess[c].app \/ sess[c].app = None,
         UNCHANGED <<store, boxOf, History>>,
         apps' \in [AppIDs -> Conns \cup {None}],
         \A a \in AppIDs : apps'[a] # None => sess'[apps'[a]].app = a,
         gone' \subseteq Conns, gone' \ {c} = gone \ {c},
         listeners' \subseteq [box : BoxRefs, conn : Conns, handle : 1..2],
         \A l \in listeners' \ listeners :
           /\ l.conn = c /\ s.app \in AppIDs
           /\ Made(l.box, s.app) /\ LetIn(l.box.id, c),
         Client(c)'
  PROVE  MInv'
<1>1. frame'[c] = Idle
  BY DEF Fail, Move, MInv, FramesGood
<1>2. Calls(c, frame[c])' /\ Needs(c, frame[c].pc, frame[c])'
  BY <1>1 DEF Calls, Needs, Idle
<1> QED
  BY <1>2, IdleType, ClientStep DEF Fail

\* The Apps map, where no client is bound anew.
LEMMA KeptApps ==
  ASSUME MInv, UNCHANGED apps, Lasts
  PROVE  /\ apps' \in [AppIDs -> Conns \cup {None}]
         /\ \A a \in AppIDs : apps'[a] # None => sess'[apps'[a]].app = a
<1>1. apps \in [AppIDs -> Conns \cup {None}]
  BY DEF MInv, MapsGood
<1>2. ASSUME NEW a \in AppIDs, apps[a] # None
      PROVE  sess'[apps[a]].app = a
  <2>1. apps[a] \in Conns /\ sess[apps[a]].app = a /\ a # None
    BY <1>1, <1>2, StoreAssumption DEF MInv, MapsGood
  <2> QED
    BY <2>1 DEF Lasts
<1> QED
  BY <1>1, <1>2

LEMMA SessLasts ==
  ASSUME MInv, NEW c \in Conns, NEW s, sess' = [sess EXCEPT ![c] = s],
         s.app = sess[c].app \/ sess[c].app = None, UNCHANGED granted
  PROVE  /\ Lasts /\ sess'[c] = s
         /\ \A d \in Conns \ {c} : sess'[d] = sess[d]
BY DEF Lasts, MInv, ClientsGood

\* A connection that is not bound yet.
LEMMA Unbound ==
  ASSUME MInv, NEW c \in Conns, sess[c].home = None, c \notin gone
  PROVE  /\ sess[c].app = None /\ sess[c].mailbox = None
         /\ sess[c].handle <= (IF sess[c].closed THEN 1 ELSE 0)
BY Here DEF Client, SessType

LEMMA BindStep ==
  ASSUME MInv, NEW c \in Conns, NEW a \in AppIDs, NEW s \in Sides,
         NEW k \in Conns, c \notin gone, sess[c].home = None, BindTo(c, a, s, k)
  PROVE  \E t \in SessType :
           /\ sess' = [sess EXCEPT ![c] = t]
           /\ t.app = a /\ t.side = s /\ t.home = k /\ t.mailbox = None
           /\ t.handle <= (IF t.closed THEN 1 ELSE 0)
<1> DEFINE t == [sess[c] EXCEPT !.app = a, !.side = s, !.home = k]
<1>1. sess[c] \in SessType
  BY Here
<1>2. t \in SessType
  BY <1>1 DEF SessType
<1>3. sess' = [sess EXCEPT ![c] = t]
  BY DEF BindTo, MInv, ClientsGood
<1>4. /\ t.app = a /\ t.side = s /\ t.home = k
      /\ t.mailbox = sess[c].mailbox /\ t.handle = sess[c].handle
      /\ t.closed = sess[c].closed
  BY <1>1 DEF SessType
<1> HIDE DEF t
<1>5. t.mailbox = None /\ t.handle <= (IF t.closed THEN 1 ELSE 0)
  BY <1>4, Unbound
<1> QED
  BY <1>2, <1>3, <1>4, <1>5

\* A client bound to the container k of application a.
LEMMA NewClientGood ==
  ASSUME NEW c \in Conns, NEW t \in SessType, sess'[c] = t, NEW k \in Conns,
         NEW a \in AppIDs, t.app = a, t.side \in Sides, t.home = k,
         t.mailbox = None, t.handle <= (IF t.closed THEN 1 ELSE 0),
         sess'[k].app = a, c \notin gone'
  PROVE  Client(c)'
BY StoreAssumption DEF Client, SessType

LEMMA HandleBindStep ==
  ASSUME MInv, NEW c \in Conns, HandleBind(c)
  PROVE  MInv'
<1>1. /\ frame[c].pc = "idle" /\ c \notin gone /\ sess[c].home = None
      /\ UNCHANGED <<store, boxOf, listeners, gone, History, apps>>
  BY DEF HandleBind, Ready, At, IsBound
<1>2. PICK a \in AppIDs, s \in Sides :
        \/ /\ apps[a] # None
           /\ BindTo(c, a, s, apps[a])
           /\ UNCHANGED frame
        \/ /\ apps[a] = None
           /\ Move(c, [Idle EXCEPT !.pc = "apps_put", !.app = a, !.side = s])
           /\ UNCHANGED sess
  BY DEF HandleBind
<1>3. sess[c].app = None
  BY <1>1, Unbound
<1>4. CASE apps[a] # None /\ BindTo(c, a, s, apps[a]) /\ UNCHANGED frame
  <2>1. PICK k \in Conns : k = apps[a] /\ sess[k].app = a
    BY <1>4 DEF MInv, MapsGood
  <2>2. PICK t \in SessType :
          /\ sess' = [sess EXCEPT ![c] = t]
          /\ t.app = a /\ t.side = s /\ t.home = k /\ t.mailbox = None
          /\ t.handle <= (IF t.closed THEN 1 ELSE 0)
    BY <1>1, <1>4, <2>1, BindStep
  <2>3. Lasts /\ sess'[c] = t /\ sess'[k].app = a
    <3>1. granted' = granted
      BY <1>1 DEF History
    <3>2. Lasts /\ sess'[c] = t
      BY <1>3, <2>2, <3>1, SessLasts
    <3>3. sess[k].app # None
      BY <2>1, StoreAssumption
    <3> QED
      BY <2>1, <3>2, <3>3 DEF Lasts
  <2>4. Client(c)'
    BY <1>1, <2>1, <2>2, <2>3, NewClientGood
  <2>5. PICK g \in FrameType : g = frame[c]
    BY Here
  <2>6. Move(c, g) /\ frame'[c] = g
    BY <1>4, <2>5 DEF Move, MInv, FramesGood
  <2>7. (Calls(c, frame[c]) /\ Needs(c, frame[c].pc, frame[c]))'
    BY <1>1, <2>5, <2>6 DEF Calls, Needs
  <2>8. /\ apps' \in [AppIDs -> Conns \cup {None}]
        /\ \A b \in AppIDs : apps'[b] # None => sess'[apps'[b]].app = b
    BY <1>1, <2>3, KeptApps
  <2> QED
    BY <1>1, <1>3, <2>2, <2>4, <2>6, <2>7, <2>8, ClientStep
    DEF MInv, ListenersGood
<1>5. CASE /\ Move(c, [Idle EXCEPT !.pc = "apps_put", !.app = a, !.side = s])
           /\ UNCHANGED sess
  <2> DEFINE g == [Idle EXCEPT !.pc = "apps_put", !.app = a, !.side = s]
  <2>1. g \in FrameType
    BY DEF Idle, FrameType, Steps, Commands, StoredSides
  <2>2. g.pc = "apps_put" /\ g.app = a /\ g.side = s
    BY DEF Idle
  <2>3. Move(c, g)
    BY <1>5
  <2> HIDE DEF g
  <2>4. Calls(c, g) /\ Needs(c, g.pc, g)'
    BY <1>1, <1>3, <2>2 DEF Calls, Needs
  <2>5. MapsGood' /\ HistoryGood' /\ StoreTypeOK'
    BY <1>1, <1>5, KeptMaps, KeptHistory, KeptStore DEF MInv, History
  <2> QED
    BY <1>1, <1>5, <2>1, <2>3, <2>4, <2>5, AppStep DEF History
<1> QED
  BY <1>2, <1>4, <1>5

LEMMA GetAppInsertStep ==
  ASSUME MInv, NEW c \in Conns, GetAppInsert(c)
  PROVE  MInv'
<1>1. PICK a, s : a = frame[c].app /\ s = frame[c].side
  OBVIOUS
<1>2. /\ sess[c].home = None /\ sess[c].app = None /\ c \notin gone
      /\ a \in AppIDs /\ s \in Sides
  BY <1>1, Here DEF GetAppInsert, At, Calls
<1>3. /\ apps' = [apps EXCEPT ![a] = c] /\ BindTo(c, a, s, c) /\ Fail(c)
      /\ UNCHANGED <<store, boxOf, listeners, gone, History>>
  BY <1>1 DEF GetAppInsert
<1>4. PICK t \in SessType :
        /\ sess' = [sess EXCEPT ![c] = t]
        /\ t.app = a /\ t.side = s /\ t.home = c /\ t.mailbox = None
        /\ t.handle <= (IF t.closed THEN 1 ELSE 0)
  BY <1>2, <1>3, BindStep
<1>5. Lasts /\ sess'[c] = t
  BY <1>2, <1>3, <1>4, SessLasts DEF History
<1>6. Client(c)'
  BY <1>2, <1>3, <1>4, <1>5, NewClientGood
<1>7. apps' \in [AppIDs -> Conns \cup {None}]
  BY <1>2, <1>3 DEF MInv, MapsGood
<1>8. ASSUME NEW b \in AppIDs, apps'[b] # None
      PROVE  sess'[apps'[b]].app = b
  <2>1. CASE b = a
    BY <1>2, <1>3, <1>4, <1>5, <2>1 DEF MInv, MapsGood
  <2>2. CASE b # a
    <3>1. apps'[b] = apps[b] /\ apps[b] \in Conns
      BY <1>2, <1>3, <1>8, <2>2 DEF MInv, MapsGood
    <3>2. sess[apps[b]].app = b /\ b # None
      BY <1>8, <3>1, StoreAssumption DEF MInv, MapsGood
    <3> QED
      BY <1>5, <3>1, <3>2 DEF Lasts
  <2> QED
    BY <2>1, <2>2
<1> QED
  BY <1>2, <1>3, <1>4, <1>6, <1>7, <1>8, EndStep DEF MInv, ListenersGood

-----------------------------------------------------------------------------
(* The ends of the handlers. *)

\* A client whose handler ends stays bound as it was.
LEMMA SameClientGood ==
  ASSUME MInv, NEW c \in Conns, NEW t \in SessType,
         sess' = [sess EXCEPT ![c] = t],
         t.app = sess[c].app, t.side = sess[c].side, t.home = sess[c].home,
         UNCHANGED <<granted, gone>>, sess[c].home # None,
         t.mailbox # None => Made(t.mailbox, t.app) /\ LetIn(t.mailbox.id, c),
         t.handle <= (IF t.closed THEN 1 ELSE 0)
                     + (IF t.mailbox # None THEN 1 ELSE 0)
  PROVE  Client(c)'
<1>1. Lasts /\ sess'[c] = t
  BY SessLasts
<1>2. /\ t.home \in Conns /\ t.app \in AppIDs /\ t.side \in Sides
      /\ c \notin gone /\ sess[t.home].app = t.app
  BY Here DEF Client, SessType
<1>3. sess'[t.home].app = t.app
  BY <1>1, <1>2, StoreAssumption DEF Lasts
<1>4. t.mailbox # None => Made(t.mailbox, t.app)' /\ LetIn(t.mailbox.id, c)'
  BY <1>1, <1>2, MadeLasts, LetInLasts
<1> QED
  BY <1>1, <1>2, <1>3, <1>4, StoreAssumption DEF Client

LEMMA EndsHere ==
  ASSUME MInv, NEW c \in Conns, frame[c].pc = "ok"
  PROVE  /\ sess[c] \in SessType /\ sess[c].home # None
         /\ sess[c].app \in AppIDs /\ frame[c].app = sess[c].app
         /\ frame[c].cmd \in {"open", "reopen"} =>
              /\ sess[c].mailbox = None
              /\ frame[c].box \in BoxRefs /\ frame[c].box # None
              /\ Made(frame[c].box, sess[c].app) /\ LetIn(frame[c].box.id, c)
         /\ frame[c].cmd \in {"close", "reopen"} => ~sess[c].closed
         /\ sess[c].mailbox # None =>
              Made(sess[c].mailbox, sess[c].app) /\ LetIn(sess[c].mailbox.id, c)
         /\ sess[c].handle <= (IF sess[c].closed THEN 1 ELSE 0)
                              + (IF sess[c].mailbox # None THEN 1 ELSE 0)
<1>1. Calls(c, frame[c]) /\ Client(c) /\ Needs(c, "ok", frame[c])
  BY Here
<1>2. /\ sess[c].home # None /\ frame[c].app = sess[c].app
      /\ frame[c].cmd \in {"open", "reopen"} => sess[c].mailbox = None
      /\ frame[c].cmd \in {"close", "reopen"} => ~sess[c].closed
  BY <1>1 DEF Calls
<1>3. frame[c].cmd \in {"open", "reopen"} =>
        Made(frame[c].box, sess[c].app) /\ LetIn(frame[c].box.id, c)
  BY <1>1, <1>2 DEF Needs
<1>4. frame[c].cmd \in {"open", "reopen"} =>
        frame[c].box \in BoxRefs /\ frame[c].box # None
  BY <1>3, ApplicationAssumption DEF Made
<1> QED
  BY <1>1, <1>2, <1>3, <1>4, Here DEF Client

\* The handlers whose end leaves the client's mailbox as it is.
LEMMA SimpleEnds ==
  ASSUME MInv, NEW c \in Conns,
         Allocated(c) \/ Claimed(c) \/ Released(c) \/ Added(c)
  PROVE  MInv'
<1>1. /\ Fail(c) /\ frame[c].pc = "ok"
      /\ UNCHANGED <<store, boxOf, gone, History, apps, listeners>>
  BY DEF Allocated, Claimed, Released, Added, Finish, At
<1>2. sess[c] \in SessType /\ sess \in [Conns -> SessType]
  BY Here DEF MInv, ClientsGood
<1>3. PICK t \in SessType :
        /\ sess' = [sess EXCEPT ![c] = t]
        /\ t.app = sess[c].app /\ t.side = sess[c].side
        /\ t.home = sess[c].home /\ t.mailbox = sess[c].mailbox
        /\ t.handle = sess[c].handle /\ t.closed = sess[c].closed
  <2>1. CASE Allocated(c)
    <3> DEFINE t == [sess[c] EXCEPT !.allocated = TRUE]
    <3>1. t \in SessType /\ sess' = [sess EXCEPT ![c] = t]
      BY <1>2, <2>1 DEF Allocated, SessType
    <3> QED
      BY <1>2, <3>1 DEF SessType
  <2>2. CASE Claimed(c)
    <3> DEFINE t == [sess[c] EXCEPT !.claimed = TRUE,
                                    !.nameplate = frame[c].name]
    <3>1. t \in SessType /\ sess' = [sess EXCEPT ![c] = t]
      BY <1>2, <2>2, Here DEF Claimed, SessType, FrameType
    <3> QED
      BY <1>2, <3>1 DEF SessType
  <2>3. CASE Released(c)
    <3> DEFINE t == [sess[c] EXCEPT !.released = TRUE]
    <3>1. t \in SessType /\ sess' = [sess EXCEPT ![c] = t]
      BY <1>2, <2>3 DEF Released, SessType
    <3> QED
      BY <1>2, <3>1 DEF SessType
  <2>4. CASE Added(c)
    <3>1. sess' = [sess EXCEPT ![c] = sess[c]]
      BY <1>2, <2>4 DEF Added
    <3> QED
      BY <1>2, <3>1
  <2> QED
    BY <2>1, <2>2, <2>3, <2>4
<1>4. Lasts
  BY <1>1, <1>3, SessLasts DEF History
<1>5. Client(c)'
  BY <1>1, <1>3, EndsHere, SameClientGood DEF History
<1> QED
  BY <1>1, <1>3, <1>4, <1>5, KeptApps, EndStep DEF MInv, ListenersGood

LEMMA OpenedStep ==
  ASSUME MInv, NEW c \in Conns, Opened(c)
  PROVE  MInv'
<1>1. PICK b, h : b = frame[c].box /\ h = sess[c].handle + 1
  OBVIOUS
<1> DEFINE t == [sess[c] EXCEPT !.mailbox = b, !.handle = h]
           l == [box |-> b, conn |-> c, handle |-> h]
<1>2. frame[c].pc = "ok" /\ frame[c].cmd = "open" /\ Fail(c)
  BY DEF Opened, Finish, At
<1>3. /\ sess' = [sess EXCEPT ![c] = t] /\ listeners' = listeners \cup {l}
      /\ UNCHANGED <<store, boxOf, gone, History, apps>>
  BY <1>1 DEF Opened, Finish, MInv, ClientsGood
<1>4. /\ b \in BoxRefs /\ b # None /\ sess[c].mailbox = None
      /\ Made(b, sess[c].app) /\ LetIn(b.id, c)
      /\ sess[c] \in SessType /\ sess[c].home # None /\ sess[c].app \in AppIDs
  BY <1>1, <1>2, EndsHere
<1>5. h \in 1..2 /\ h \in 0..2 /\ h <= (IF sess[c].closed THEN 1 ELSE 0) + 1
  BY <1>1, <1>2, <1>4, EndsHere DEF SessType
<1>6. /\ t \in SessType /\ t.app = sess[c].app /\ t.side = sess[c].side
      /\ t.home = sess[c].home /\ t.mailbox = b /\ t.handle = h
      /\ t.closed = sess[c].closed
  BY <1>4, <1>5 DEF SessType
<1>7. /\ l \in [box : BoxRefs, conn : Conns, handle : 1..2]
      /\ l.conn = c /\ l.box = b
  BY <1>4, <1>5
<1> HIDE DEF t, l
<1>8. PICK u \in SessType : u = t
  BY <1>6
<1>9. listeners' \subseteq [box : BoxRefs, conn : Conns, handle : 1..2]
  BY <1>3, <1>7 DEF MInv, ListenersGood
<1>10. Client(c)'
  BY <1>3, <1>4, <1>5, <1>6, <1>8, SameClientGood DEF History
<1>11. \A m \in listeners' \ listeners :
         m.conn = c /\ Made(m.box, u.app) /\ LetIn(m.box.id, c)
  BY <1>3, <1>4, <1>6, <1>7, <1>8
<1>12. Lasts
  BY <1>3, <1>6, <1>8, SessLasts DEF History
<1> QED
  BY <1>2, <1>3, <1>4, <1>6, <1>8, <1>9, <1>10, <1>11, <1>12, KeptApps, EndStep
  DEF MInv

LEMMA ClosedStep ==
  ASSUME MInv, NEW c \in Conns, Closed(c)
  PROVE  MInv'
<1> DEFINE t == [sess[c] EXCEPT !.mailbox = None, !.closed = TRUE]
<1>1. frame[c].pc = "ok" /\ frame[c].cmd = "close" /\ Fail(c)
  BY DEF Closed, Finish, At
<1>2. /\ sess' = [sess EXCEPT ![c] = t]
      /\ UNCHANGED <<store, boxOf, gone, History, apps, listeners>>
  BY DEF Closed, Finish, MInv, ClientsGood
<1>3. /\ sess[c] \in SessType /\ sess[c].home # None /\ sess[c].handle <= 1
  BY <1>1, EndsHere DEF SessType
<1>4. /\ t \in SessType /\ t.app = sess[c].app /\ t.side = sess[c].side
      /\ t.home = sess[c].home /\ t.mailbox = None /\ t.closed
      /\ t.handle = sess[c].handle
  BY <1>3 DEF SessType
<1> HIDE DEF t
<1>5. PICK u \in SessType : u = t
  BY <1>4
<1>6. Client(c)'
  <2>1. u.handle <= (IF u.closed THEN 1 ELSE 0)
                    + (IF u.mailbox # None THEN 1 ELSE 0)
    BY <1>3, <1>4, <1>5
  <2> QED
    BY <1>2, <1>3, <1>4, <1>5, <2>1, SameClientGood DEF History
<1>7. Lasts
  BY <1>2, <1>4, <1>5, SessLasts DEF History
<1> QED
  BY <1>1, <1>2, <1>4, <1>5, <1>6, <1>7, KeptApps, EndStep
  DEF MInv, ListenersGood

LEMMA ReopenedStep ==
  ASSUME MInv, NEW c \in Conns, Reopened(c)
  PROVE  MInv'
<1>1. PICK f, b : f = frame[c] /\ b = f.box
  OBVIOUS
<1> DEFINE g == [f EXCEPT !.cmd = "close", !.pc = "close_select"]
           t == [sess[c] EXCEPT !.mailbox = b]
<1>2. f \in FrameType /\ f.pc = "ok" /\ f.cmd = "reopen" /\ f.then # "idle"
  BY <1>1, Here, Bound DEF Reopened, At
<1>3. /\ sess' = [sess EXCEPT ![c] = t] /\ Move(c, g)
      /\ UNCHANGED <<store, boxOf, listeners, gone, History, apps>>
  BY <1>1 DEF Reopened, MInv, ClientsGood
<1>4. /\ b \in BoxRefs /\ b # None /\ sess[c].mailbox = None
      /\ Made(b, sess[c].app) /\ LetIn(b.id, c) /\ ~sess[c].closed
      /\ sess[c] \in SessType /\ sess[c].home # None /\ sess[c].app \in AppIDs
      /\ f.app = sess[c].app /\ sess[c].handle <= 0
  BY <1>1, <1>2, EndsHere DEF SessType
<1>5. /\ g \in FrameType /\ g.pc = "close_select" /\ g.cmd = "close"
      /\ g.app = f.app /\ g.home = f.home /\ g.side = f.side
      /\ g.then = f.then /\ g.box = b
  <2>1. "close_select" \in Steps /\ "close" \in Commands
    BY DEF Steps, DBSteps, Commands
  <2> QED
    BY <1>1, <1>2, <2>1 DEF FrameType
<1>6. /\ t \in SessType /\ t.app = sess[c].app /\ t.side = sess[c].side
      /\ t.home = sess[c].home /\ t.mailbox = b /\ t.closed = sess[c].closed
      /\ t.handle = sess[c].handle
  BY <1>4 DEF SessType
<1> HIDE DEF g, t
<1>7. PICK u \in SessType, e \in FrameType : u = t /\ e = g
  BY <1>5, <1>6
<1>8. Client(c)'
  <2>1. u.handle <= (IF u.closed THEN 1 ELSE 0)
                    + (IF u.mailbox # None THEN 1 ELSE 0)
    BY <1>4, <1>6, <1>7 DEF SessType
  <2> QED
    BY <1>3, <1>4, <1>6, <1>7, <2>1, SameClientGood DEF History
<1>9. Lasts /\ sess'[c] = u
  BY <1>3, <1>6, <1>7, SessLasts DEF History
<1>10. frame'[c] = e
  BY <1>3, <1>7 DEF Move, MInv, FramesGood
<1>11. Calls(c, e)'
  <2>1. Calls(c, f)
    BY <1>1, Here
  <2>2. /\ c \notin gone' /\ f.home = sess[c].home /\ f.app = sess[c].app
        /\ f.side \in StoredSides
    BY <1>2, <1>3, <2>1 DEF Calls
  <2>3. /\ sess'[c].home # None /\ sess'[c].home = f.home
        /\ sess'[c].app = f.app /\ ~sess'[c].closed
    BY <1>4, <1>6, <1>7, <1>9, <2>2
  <2> QED
    BY <1>2, <1>5, <1>7, <2>2, <2>3 DEF Calls
<1>12. Needs(c, e.pc, e)'
  <2>1. Made(b, f.app)' /\ LetIn(b.id, c)'
    BY <1>4, <1>9, MadeLasts, LetInLasts
  <2> QED
    BY <1>5, <1>7, <2>1 DEF Needs
<1>13. Calls(c, frame[c])' /\ Needs(c, frame[c].pc, frame[c])'
  BY <1>10, <1>11, <1>12
<1> QED
  BY <1>3, <1>6, <1>7, <1>8, <1>9, <1>13, KeptApps, ClientStep
  DEF MInv, ListenersGood

-----------------------------------------------------------------------------
(* The end of a connection, and of the process. *)

LEMMA DepartedFields ==
  ASSUME MInv, NEW c \in Conns
  PROVE  /\ Departed(c) \in SessType /\ Departed(c).app = sess[c].app
         /\ Departed(c).home = None /\ Departed(c).mailbox = None
         /\ Departed(c).handle = 0 /\ ~Departed(c).closed
<1>1. sess[c] \in SessType
  BY Here
<1>2. /\ NewClient \in SessType /\ NewClient.home = None
      /\ NewClient.mailbox = None /\ NewClient.handle = 0
      /\ ~NewClient.closed
  BY DEF NewClient, SessType
<1> QED
  BY <1>1, <1>2 DEF Departed, SessType

LEMMA DisconnectStep ==
  ASSUME MInv, NEW c \in Conns, Disconnect(c)
  PROVE  MInv'
<1>1. /\ frame[c].pc = "idle"
      /\ sess' = [sess EXCEPT ![c] = Departed(c)]
      /\ gone' = gone \cup {c} /\ listeners' \subseteq listeners
      /\ UNCHANGED <<store, boxOf, frame, History, apps>>
  BY DEF Disconnect, Ready, At
<1>2. PICK g \in FrameType : g = frame[c]
  BY Here
<1>3. Move(c, g) /\ frame'[c] = g
  BY <1>1, <1>2 DEF Move, MInv, FramesGood
<1>4. PICK s \in SessType : s = Departed(c)
  BY DepartedFields
<1>5. /\ sess' = [sess EXCEPT ![c] = s] /\ s.app = sess[c].app
      /\ s.home = None /\ s.mailbox = None /\ s.handle = 0
  BY <1>1, <1>4, DepartedFields
<1>6. Lasts /\ sess'[c] = s
  BY <1>1, <1>5, SessLasts DEF History
<1>7. (Calls(c, frame[c]) /\ Needs(c, frame[c].pc, frame[c]))'
  BY <1>1, <1>2, <1>3 DEF Calls, Needs
<1>8. Client(c)'
  BY <1>1, <1>5, <1>6 DEF Client
<1> QED
  BY <1>1, <1>3, <1>5, <1>6, <1>7, <1>8, KeptApps, ClientStep
  DEF MInv, ListenersGood

\* Who was whose application's client outlives the process only in the
\* histories.
LEMMA RestartStep ==
  ASSUME MInv, Restart
  PROVE  MInv'
<1>1. PICK Up \in SUBSET Conns :
        /\ gone' = gone \cup Up
        /\ sess' = [c \in Conns |-> IF c \in Up THEN Departed(c) ELSE sess[c]]
        /\ \A c \in Conns \ Up : sess[c].home = None
  BY DEF Restart, IsBound
<1>2. /\ boxOf' = NoBoxes /\ listeners' = {}
      /\ frame' = [c \in Conns |-> Idle] /\ apps' = [a \in AppIDs |-> None]
      /\ UNCHANGED <<store, History>>
  BY DEF Restart
<1>3. \A c \in Conns : sess'[c] \in SessType /\ sess'[c].app = sess[c].app
  BY <1>1, DepartedFields, Here
<1>4. FramesGood'
  <2>1. \A c \in Conns : (Calls(c, frame[c]) /\ Needs(c, frame[c].pc, frame[c]))'
    BY <1>2 DEF Calls, Needs, Idle
  <2> QED
    BY <1>2, <2>1, IdleType DEF FramesGood
<1>5. ASSUME NEW c \in Conns PROVE Client(c)'
  <2>1. CASE c \in Up
    <3>1. PICK s : s = Departed(c)
      OBVIOUS
    <3>2. sess'[c] = s /\ s.home = None /\ s.mailbox = None /\ s.handle = 0
      BY <1>1, <2>1, <3>1, DepartedFields
    <3> QED
      BY <1>1, <2>1, <3>2 DEF Client
  <2>2. CASE c \notin Up
    <3>1. /\ sess'[c] = sess[c] /\ sess[c].home = None
          /\ c \in gone <=> c \in gone'
      BY <1>1, <2>2
    <3>2. sess[c].mailbox = None
      BY <3>1, Here DEF Client
    <3> QED
      BY <3>1, <3>2, Here DEF Client
  <2> QED
    BY <2>1, <2>2
<1>6. ClientsGood'
  <2>1. sess' \in [Conns -> SessType]
    BY <1>1, <1>3
  <2> QED
    BY <1>5, <2>1 DEF ClientsGood
<1>7. MapsGood' /\ ListenersGood'
  BY <1>2 DEF MapsGood, ListenersGood, NoBoxes
<1>8. HistoryGood'
  <2>1. \A d \in received : d.to \in Conns
    BY DEF MInv, HistoryGood
  <2> QED
    BY <1>2, <1>3, <2>1 DEF MInv, HistoryGood, DeliveryIsolation, History
<1>9. gone' \subseteq Conns
  BY <1>1 DEF MInv
<1> QED
  BY <1>2, <1>4, <1>6, <1>7, <1>8, <1>9, KeptStore DEF MInv

LEMMA HandlerGood ==
  ASSUME MInv, NEW c \in Conns, Handler(c)
  PROVE  MInv'
<1>1. CASE Begins(c)
  BY <1>1, HandleBindStep, CallsGood DEF Begins
<1>2. CASE Ends(c)
  BY <1>2, GetAppInsertStep, SimpleEnds, OpenedStep, ReopenedStep, ClosedStep
  DEF Ends
<1> QED
  BY <1>1, <1>2, ApplicationStepGood, DisconnectStep DEF Handler

-----------------------------------------------------------------------------
(* The cleaner deletes rows and drops applications; it changes nothing else *)
(* that a handler refers to.                                                *)

LEMMA RowsStep ==
  ASSUME MInv, UNCHANGED application, StoreTypeOK'
  PROVE  MInv'
<1>1. UNCHANGED <<apps, sess, boxOf, listeners, gone, frame, granted, received>>
  BY DEF application
<1>2. FramesGood' /\ ClientsGood' /\ ListenersGood'
  BY <1>1 DEF MInv, FramesGood, ClientsGood, ListenersGood, Calls, Needs,
     Client, Made, LetIn
<1>3. MapsGood' /\ HistoryGood'
  BY <1>1, KeptMaps, KeptHistory DEF MInv
<1> QED
  BY <1>1, <1>2, <1>3 DEF MInv

LEMMA DropAppStep ==
  ASSUME MInv, DropApp
  PROVE  MInv'
<1>1. PICK a : apps' = [apps EXCEPT ![a] = None]
  BY DEF DropApp
<1>2. UNCHANGED <<store, sess, boxOf, listeners, gone, frame, granted, received>>
  BY DEF DropApp, History
<1>3. FramesGood' /\ ClientsGood' /\ ListenersGood'
  BY <1>2 DEF MInv, FramesGood, ClientsGood, ListenersGood, Calls, Needs,
     Client, Made, LetIn
<1>4. MapsGood'
  <2>1. apps' \in [AppIDs -> Conns \cup {None}]
    BY <1>1 DEF MInv, MapsGood
  <2>2. \A b \in AppIDs : apps'[b] # None => apps'[b] = apps[b]
    BY <1>1 DEF MInv, MapsGood
  <2> QED
    BY <1>2, <2>1, <2>2 DEF MInv, MapsGood
<1> QED
  BY <1>2, <1>3, <1>4, KeptStore, KeptHistory DEF MInv

LEMMA CleanerStepGood ==
  ASSUME MInv, CleanerStep
  PROVE  MInv'
<1>1. CASE DropApp
  BY <1>1, DropAppStep
<1>2. CASE ~DropApp
  <2>1. UNCHANGED application
    BY <1>2 DEF CleanerStep, TakeTick, GetAllApps, ListApps, NextApp,
       AllAppsSeen, TouchListened, AllTouched, ListOld, ListOldNames,
       DeleteNameplateSides, DeleteNameplate, NameplatesDeleted,
       DeleteMessages, DeleteMailboxSides, DeleteMailbox, MailboxesDeleted,
       StillInUse, CleanAppsReturns, CleanAppsFails, EndSweep, Elsewhere, vars
  <2>2. /\ mailboxes' \subseteq mailboxes /\ mailboxSides' \subseteq mailboxSides
        /\ messages' \subseteq messages /\ nameplates' \subseteq nameplates
        /\ nameplateSides' \subseteq nameplateSides
        /\ UNCHANGED <<npSeq, now>>
    BY <1>2, KeptMailboxes
    DEF CleanerStep, TakeTick, GetAllApps, ListApps, NextApp,
       AllAppsSeen, TouchListened, AllTouched, ListOld, ListOldNames,
       DeleteNameplateSides, DeleteNameplate, NameplatesDeleted,
       DeleteMessages, DeleteMailboxSides, DeleteMailbox, MailboxesDeleted,
       StillInUse, CleanAppsReturns, CleanAppsFails, EndSweep, vars, store
  <2>3. StoreTypeOK'
    BY <2>2 DEF MInv, StoreTypeOK
  <2> QED
    BY <2>1, <2>3, RowsStep
<1> QED
  BY <1>1, <1>2

LEMMA PassTimeGood ==
  ASSUME MInv, PassTime
  PROVE  MInv'
<1>1. UNCHANGED application
  BY DEF PassTime
<1>2. StoreTypeOK'
  BY DEF PassTime, MInv, StoreTypeOK
<1> QED
  BY <1>1, <1>2, RowsStep

LEMMA MemoryInit == CleaningInit => MInv
<1> SUFFICES ASSUME CleaningInit PROVE MInv
  OBVIOUS
<1>1. StoreTypeOK /\ gone = {}
  BY DEF CleaningInit, Init, StoreInit, ApplicationInit, StoreTypeOK
<1>2. /\ sess = [c \in Conns |-> NewClient] /\ frame = [c \in Conns |-> Idle]
      /\ apps = [a \in AppIDs |-> None] /\ boxOf = NoBoxes
      /\ listeners = {} /\ granted = {} /\ received = {}
  BY DEF CleaningInit, Init, ApplicationInit
<1>3. /\ NewClient \in SessType /\ NewClient.home = None
      /\ NewClient.app = None /\ NewClient.mailbox = None
      /\ NewClient.handle = 0
  BY DEF NewClient, SessType
<1>4. FramesGood
  <2>1. \A c \in Conns : Calls(c, Idle) /\ Needs(c, Idle.pc, Idle)
    BY DEF Calls, Needs, Idle
  <2> QED
    BY <1>2, <2>1, IdleType DEF FramesGood
<1>5. ClientsGood
  BY <1>2, <1>3 DEF ClientsGood, Client
<1>6. MapsGood /\ ListenersGood
  BY <1>2 DEF MapsGood, ListenersGood, NoBoxes
<1>7. HistoryGood
  BY <1>2 DEF HistoryGood, DeliveryIsolation
<1> QED
  BY <1>1, <1>4, <1>5, <1>6, <1>7 DEF MInv

LEMMA MemoryNext == MInv /\ [CleaningNext]_cvars => MInv'
<1> SUFFICES ASSUME MInv, [CleaningNext]_cvars PROVE MInv'
  OBVIOUS
<1>1. CASE HandlerStep
  BY <1>1, HandlerGood DEF HandlerStep, Handler
<1>2. CASE Reboot
  BY <1>2, RestartStep DEF Reboot
<1>3. CASE UNCHANGED cvars
  BY <1>3, RowsStep, KeptStore DEF cvars, vars
<1> QED
  BY <1>1, <1>2, <1>3, CleanerStepGood, PassTimeGood DEF CleaningNext


-----------------------------------------------------------------------------
(* What the cleaner's own variables hold. *)

\* The statements of a sweep that are about one application.
AppSteps == {"touch", "boxes"} \cup OldSteps \cup UseSteps

CleanerGood ==
  /\ cleaner \in CleanerType
  /\ cleaner.pc \in AppSteps => cleaner.app \in AppIDs

KInv == CleaningTypeOK /\ (cleaner.pc \in AppSteps => cleaner.app \in AppIDs)

\* Some changes of single fields keep the cleaner's locals well typed.
LEMMA CleanerFields ==
  ASSUME NEW k \in CleanerType, NEW step \in CleanerSteps
  PROVE  /\ [k EXCEPT !.pc = step] \in CleanerType
         /\ \A s \in Int, t \in Nat :
              [k EXCEPT !.pc = step, !.since = s, !.tick = t] \in CleanerType
         /\ \A as \in SUBSET AppIDs :
              [k EXCEPT !.todo = as, !.pc = step] \in CleanerType
         /\ \A as \in SUBSET AppIDs :
              [k EXCEPT !.dead = as, !.pc = step] \in CleanerType
         /\ \A as \in SUBSET AppIDs, a \in AppIDs, bs \in SUBSET BoxRefs :
              [k EXCEPT !.todo = as, !.app = a, !.look = bs, !.pc = step]
                \in CleanerType
         /\ \A is \in SUBSET MailboxIDs :
              [k EXCEPT !.old = is, !.pc = step] \in CleanerType
         /\ \A ns \in SUBSET Nat :
              [k EXCEPT !.names = ns, !.pc = step] \in CleanerType
         /\ \A n \in Nat : [k EXCEPT !.np = n, !.pc = step] \in CleanerType
         /\ \A i \in MailboxIDs : [k EXCEPT !.box = i, !.pc = step] \in CleanerType
         /\ \A bs \in SUBSET BoxRefs : [k EXCEPT !.look = bs] \in CleanerType
         /\ \A as \in SUBSET AppIDs : [k EXCEPT !.dead = as] \in CleanerType
<1>1. [k EXCEPT !.pc = step] \in CleanerType
  BY DEF CleanerType
<1>2. ASSUME NEW s \in Int, NEW t \in Nat
      PROVE  [k EXCEPT !.pc = step, !.since = s, !.tick = t] \in CleanerType
  BY DEF CleanerType
<1>3. ASSUME NEW as \in SUBSET AppIDs
      PROVE  /\ [k EXCEPT !.todo = as, !.pc = step] \in CleanerType
             /\ [k EXCEPT !.dead = as, !.pc = step] \in CleanerType
             /\ [k EXCEPT !.dead = as] \in CleanerType
  BY DEF CleanerType
<1>4. ASSUME NEW as \in SUBSET AppIDs, NEW a \in AppIDs, NEW bs \in SUBSET BoxRefs
      PROVE  [k EXCEPT !.todo = as, !.app = a, !.look = bs, !.pc = step]
               \in CleanerType
  BY DEF CleanerType
<1>5. ASSUME NEW is \in SUBSET MailboxIDs
      PROVE  [k EXCEPT !.old = is, !.pc = step] \in CleanerType
  BY DEF CleanerType
<1>6. ASSUME NEW ns \in SUBSET Nat
      PROVE  [k EXCEPT !.names = ns, !.pc = step] \in CleanerType
  BY DEF CleanerType
<1>7. ASSUME NEW n \in Nat PROVE [k EXCEPT !.np = n, !.pc = step] \in CleanerType
  BY DEF CleanerType
<1>8. ASSUME NEW i \in MailboxIDs
      PROVE  [k EXCEPT !.box = i, !.pc = step] \in CleanerType
  BY DEF CleanerType
<1>9. ASSUME NEW bs \in SUBSET BoxRefs
      PROVE  [k EXCEPT !.look = bs] \in CleanerType
  BY DEF CleanerType
<1> QED
  BY <1>1, <1>2, <1>3, <1>4, <1>5, <1>6, <1>7, <1>8, <1>9

\* What the tables and the maps give to a list of the cleaner is well typed.
LEMMA ListsTyped ==
  ASSUME MInv
  PROVE  /\ {r.app : r \in nameplates} \subseteq AppIDs
         /\ {r.app : r \in mailboxes} \subseteq AppIDs
         /\ {r.app : r \in messages} \subseteq AppIDs
         /\ \A r \in mailboxes : r.id \in MailboxIDs
         /\ \A r \in nameplates : r.id \in Nat
         /\ \A a \in AppIDs : apps[a] # None =>
              { [id |-> id, by |-> boxOf[apps[a]][id]] :
                id \in {i \in MailboxIDs : boxOf[apps[a]][i] # None} }
                \subseteq BoxRefs
<1>1. /\ {r.app : r \in nameplates} \subseteq AppIDs
      /\ {r.app : r \in mailboxes} \subseteq AppIDs
      /\ {r.app : r \in messages} \subseteq AppIDs
      /\ \A r \in mailboxes : r.id \in MailboxIDs
      /\ \A r \in nameplates : r.id \in Nat
  BY DEF MInv, StoreTypeOK
<1>2. ASSUME NEW a \in AppIDs, apps[a] # None,
             NEW i \in MailboxIDs, boxOf[apps[a]][i] # None
      PROVE  [id |-> i, by |-> boxOf[apps[a]][i]] \in BoxRefs
  <2>1. apps[a] \in Conns
    BY <1>2 DEF MInv, MapsGood
  <2>2. boxOf[apps[a]][i] \in Conns
    BY <1>2, <2>1 DEF MInv, MapsGood
  <2> QED
    BY <2>2 DEF BoxRefs
<1> QED
  BY <1>1, <1>2

\* The statements' names, so that a step need not list them all.
LEMMA StepNames ==
  /\ {"idle", "next", "drop", "apps_np", "apps_mb", "apps_msg"}
       \subseteq CleanerSteps
  /\ AppSteps \subseteq CleanerSteps
  /\ {"touch", "boxes", "names", "del_npsides", "del_np", "del_msgs",
      "del_mbsides", "del_mb", "use_mb", "use_np"} = AppSteps
  /\ {"idle", "next", "drop", "apps_np", "apps_mb", "apps_msg"}
       \cap AppSteps = {}
BY DEF CleanerSteps, CleanerDBSteps, AppSteps, OldSteps, NameSteps, BoxSteps,
   UseSteps

LEMMA RestingGood ==
  ASSUME cleaner' = Resting
  PROVE  CleanerGood'
BY DEF CleanerGood, CleanerType, Resting, CleanerSteps, CleanerDBSteps,
   AppSteps, OldSteps, NameSteps, BoxSteps, UseSteps

LEMMA CleanerMoves ==
  ASSUME KInv, NEW k, cleaner' = k, k \in CleanerType,
         k.pc \in AppSteps => k.app \in AppIDs
  PROVE  CleanerGood'
BY DEF CleanerGood

\* A step that keeps the application it is about.
LEMMA CleanerStays ==
  ASSUME KInv, NEW k \in CleanerType, cleaner' = k, k.app = cleaner.app,
         cleaner.pc \in AppSteps \/ k.pc \notin AppSteps
  PROVE  CleanerGood'
BY DEF CleanerGood, KInv

LEMMA CleanerGotoGood ==
  ASSUME KInv, NEW step \in CleanerSteps, CleanerGoto(step),
         cleaner.pc \in AppSteps \/ step \notin AppSteps
  PROVE  CleanerGood'
<1>1. PICK k \in CleanerType : k = cleaner
  BY DEF KInv, CleaningTypeOK
<1> DEFINE g == [k EXCEPT !.pc = step]
<1>2. g \in CleanerType
  BY CleanerFields
<1>3. g.app = k.app /\ g.pc = step
  BY <1>2 DEF CleanerType
<1>4. cleaner' = g
  BY <1>1 DEF CleanerGoto
<1> HIDE DEF g
<1> QED
  BY <1>1, <1>2, <1>3, <1>4, CleanerStays

LEMMA GotosGood ==
  ASSUME KInv,
         \/ AllAppsSeen \/ AllTouched \/ NameplatesDeleted
         \/ DeleteMailboxSides \/ MailboxesDeleted
  PROVE  CleanerGood'
<1>1. CASE AllAppsSeen
  BY <1>1, CleanerGotoGood, StepNames DEF AllAppsSeen
<1>2. CASE AllTouched
  BY <1>2, CleanerGotoGood, StepNames DEF AllTouched, CleanerAt
<1>3. CASE NameplatesDeleted
  BY <1>3, CleanerGotoGood, StepNames DEF NameplatesDeleted, CleanerAt
<1>4. CASE DeleteMailboxSides
  BY <1>4, CleanerGotoGood, StepNames DEF DeleteMailboxSides, CleanerAt
<1>5. CASE MailboxesDeleted
  BY <1>5, CleanerGotoGood, StepNames DEF MailboxesDeleted, CleanerAt
<1> QED
  BY <1>1, <1>2, <1>3, <1>4, <1>5

LEMMA TakeTickGood ==
  ASSUME KInv, MInv, TakeTick
  PROVE  CleanerGood'
<1>1. PICK k \in CleanerType : k = cleaner
  BY DEF KInv, CleaningTypeOK
<1>2. Head(ticks) \in Nat /\ lastCleaning \in Int
  <2>1. PICK t \in 0..now : ticks = <<t>>
    BY DEF KInv, CleaningTypeOK, TakeTick
  <2>2. Head(ticks) = t
    BY <2>1
  <2>3. now \in Nat
    BY DEF MInv, StoreTypeOK
  <2> QED
    BY <2>2, <2>3 DEF KInv, CleaningTypeOK
<1> DEFINE g == [k EXCEPT !.pc = "apps_np", !.since = lastCleaning,
                          !.tick = Head(ticks)]
<1>3. g \in CleanerType /\ g.pc = "apps_np" /\ g.app = k.app
  <2>1. g \in CleanerType
    BY <1>2, CleanerFields, StepNames
  <2> QED
    BY <2>1 DEF CleanerType
<1>4. cleaner' = g
  BY <1>1 DEF TakeTick
<1> HIDE DEF g
<1> QED
  BY <1>1, <1>3, <1>4, CleanerStays, StepNames

LEMMA ListAppsGood ==
  ASSUME KInv, NEW step, NEW rows, NEW then \in CleanerSteps,
         then \notin AppSteps, {r.app : r \in rows} \subseteq AppIDs,
         ListApps(step, rows, then)
  PROVE  CleanerGood'
<1>1. PICK k \in CleanerType : k = cleaner
  BY DEF KInv, CleaningTypeOK
<1>2. PICK as \in SUBSET AppIDs :
        cleaner' = [k EXCEPT !.todo = as, !.pc = then]
  <2>1. cleaner' = [k EXCEPT !.todo = k.todo \cup {r.app : r \in rows},
                             !.pc = then]
    BY <1>1 DEF ListApps
  <2>2. k.todo \cup {r.app : r \in rows} \in SUBSET AppIDs
    BY DEF CleanerType
  <2> QED
    BY <2>1, <2>2
<1> DEFINE g == [k EXCEPT !.todo = as, !.pc = then]
<1>3. g \in CleanerType /\ g.pc = then /\ g.app = k.app
  <2>1. g \in CleanerType
    BY CleanerFields
  <2> QED
    BY <2>1 DEF CleanerType
<1> HIDE DEF g
<1> QED
  BY <1>1, <1>2, <1>3, CleanerStays DEF g

LEMMA NextAppGood ==
  ASSUME KInv, MInv, NextApp
  PROVE  CleanerGood'
<1>1. PICK k \in CleanerType : k = cleaner
  BY DEF KInv, CleaningTypeOK
<1>2. PICK a \in k.todo :
        cleaner' = [k EXCEPT
         !.todo = k.todo \ {a}, !.app = a,
         !.look = IF apps[a] = None THEN {} ELSE
                    { [id |-> id, by |-> boxOf[apps[a]][id]] :
                      id \in {i \in MailboxIDs : boxOf[apps[a]][i] # None} },
         !.pc = IF apps[a] = None THEN "next" ELSE "touch"]
  BY <1>1 DEF NextApp
<1>3. a \in AppIDs /\ k.todo \ {a} \in SUBSET AppIDs
  BY DEF CleanerType
<1>4. PICK bs : bs = IF apps[a] = None THEN {} ELSE
                    { [id |-> id, by |-> boxOf[apps[a]][id]] :
                      id \in {i \in MailboxIDs : boxOf[apps[a]][i] # None} }
  OBVIOUS
<1>5. bs \in SUBSET BoxRefs
  BY <1>3, <1>4, ListsTyped
<1>6. PICK step \in {"next", "touch"} :
        step = IF apps[a] = None THEN "next" ELSE "touch"
  OBVIOUS
<1>7. PICK as \in SUBSET AppIDs : as = k.todo \ {a}
  BY <1>3
<1> DEFINE g == [k EXCEPT !.todo = as, !.app = a, !.look = bs, !.pc = step]
<1>8. g \in CleanerType /\ g.app = a
  <2>1. g \in CleanerType
    BY <1>3, <1>5, CleanerFields, StepNames
  <2> QED
    BY <2>1 DEF CleanerType
<1>9. cleaner' = g
  BY <1>2, <1>4, <1>6, <1>7
<1> HIDE DEF g
<1> QED
  BY <1>3, <1>8, <1>9, CleanerMoves

LEMMA TouchGood ==
  ASSUME KInv, TouchListened
  PROVE  CleanerGood'
<1>1. PICK k \in CleanerType : k = cleaner
  BY DEF KInv, CleaningTypeOK
<1>2. PICK bs \in SUBSET BoxRefs : cleaner' = [k EXCEPT !.look = bs]
  <2>1. PICK box : cleaner' = [k EXCEPT !.look = k.look \ {box}]
    BY <1>1 DEF TouchListened
  <2>2. k.look \ {box} \in SUBSET BoxRefs
    BY DEF CleanerType
  <2> QED
    BY <2>1, <2>2
<1> DEFINE g == [k EXCEPT !.look = bs]
<1>3. k.pc \in CleanerSteps
  BY DEF CleanerType
<1>4. g \in CleanerType /\ g.app = k.app
  <2>1. g \in CleanerType
    BY <1>3, CleanerFields
  <2> QED
    BY <2>1 DEF CleanerType
<1>5. cleaner.pc \in AppSteps
  BY StepNames DEF TouchListened, CleanerAt
<1> QED
  BY <1>1, <1>2, <1>4, <1>5, CleanerStays

LEMMA ListsGood ==
  ASSUME KInv, MInv, ListOld \/ ListOldNames
  PROVE  CleanerGood'
<1>1. PICK k \in CleanerType : k = cleaner
  BY DEF KInv, CleaningTypeOK
<1>2. cleaner.pc \in AppSteps
  BY StepNames DEF ListOld, ListOldNames, CleanerAt
<1>3. CASE ListOld
  <2>1. PICK is : is = {r.id : r \in {q \in mailboxes : q.app = cleaner.app
                                             /\ q.updated <= cleaner.since}}
    OBVIOUS
  <2>2. is \in SUBSET MailboxIDs
    BY <2>1, ListsTyped
  <2> DEFINE g == [k EXCEPT !.old = is, !.pc = "names"]
  <2>3. g \in CleanerType /\ g.app = k.app
    <3>1. g \in CleanerType
      BY <2>2, CleanerFields, StepNames
    <3> QED
      BY <3>1 DEF CleanerType
  <2>4. cleaner' = g
    BY <1>1, <1>3, <2>1 DEF ListOld
  <2> QED
    BY <1>1, <1>2, <2>3, <2>4, CleanerStays
<1>4. CASE ListOldNames
  <2>1. PICK ns : ns = {r.id : r \in {q \in nameplates : q.app = cleaner.app
                                             /\ q.mailbox \in cleaner.old}}
    OBVIOUS
  <2>2. ns \in SUBSET Nat
    BY <2>1, ListsTyped
  <2> DEFINE g == [k EXCEPT !.names = ns, !.pc = "del_npsides"]
  <2>3. g \in CleanerType /\ g.app = k.app
    <3>1. g \in CleanerType
      BY <2>2, CleanerFields, StepNames
    <3> QED
      BY <3>1 DEF CleanerType
  <2>4. cleaner' = g
    BY <1>1, <1>4, <2>1 DEF ListOldNames
  <2> QED
    BY <1>1, <1>2, <2>3, <2>4, CleanerStays
<1> QED
  BY <1>3, <1>4

LEMMA DeletesGood ==
  ASSUME KInv,
         \/ DeleteNameplateSides \/ DeleteNameplate
         \/ DeleteMessages \/ DeleteMailbox
  PROVE  CleanerGood'
<1>1. PICK k \in CleanerType : k = cleaner
  BY DEF KInv, CleaningTypeOK
<1>2. cleaner.pc \in AppSteps
  BY StepNames
  DEF DeleteNameplateSides, DeleteNameplate, DeleteMessages, DeleteMailbox,
      CleanerAt
<1>3. CASE DeleteNameplateSides
  <2>1. PICK n \in k.names : cleaner' = [k EXCEPT !.np = n, !.pc = "del_np"]
    BY <1>1, <1>3 DEF DeleteNameplateSides
  <2>2. n \in Nat
    BY DEF CleanerType
  <2> DEFINE g == [k EXCEPT !.np = n, !.pc = "del_np"]
  <2>3. g \in CleanerType /\ g.app = k.app
    <3>1. g \in CleanerType
      BY <2>2, CleanerFields, StepNames
    <3> QED
      BY <3>1 DEF CleanerType
  <2> QED
    BY <1>1, <1>2, <2>1, <2>3, CleanerStays
<1>4. CASE DeleteNameplate
  <2>1. PICK ns \in SUBSET Nat : ns = k.names \ {k.np}
    BY DEF CleanerType
  <2> DEFINE g == [k EXCEPT !.names = ns, !.pc = "del_npsides"]
  <2>2. g \in CleanerType /\ g.app = k.app
    <3>1. g \in CleanerType
      BY CleanerFields, StepNames
    <3> QED
      BY <3>1 DEF CleanerType
  <2>3. cleaner' = g
    BY <1>1, <1>4, <2>1 DEF DeleteNameplate
  <2> QED
    BY <1>1, <1>2, <2>2, <2>3, CleanerStays
<1>5. CASE DeleteMessages
  <2>1. PICK i \in k.old : cleaner' = [k EXCEPT !.box = i, !.pc = "del_mbsides"]
    BY <1>1, <1>5 DEF DeleteMessages
  <2>2. i \in MailboxIDs
    BY DEF CleanerType
  <2> DEFINE g == [k EXCEPT !.box = i, !.pc = "del_mbsides"]
  <2>3. g \in CleanerType /\ g.app = k.app
    <3>1. g \in CleanerType
      BY <2>2, CleanerFields, StepNames
    <3> QED
      BY <3>1 DEF CleanerType
  <2> QED
    BY <1>1, <1>2, <2>1, <2>3, CleanerStays
<1>6. CASE DeleteMailbox
  <2>1. PICK is \in SUBSET MailboxIDs : is = k.old \ {k.box}
    BY DEF CleanerType
  <2> DEFINE g == [k EXCEPT !.old = is, !.pc = "del_msgs"]
  <2>2. g \in CleanerType /\ g.app = k.app
    <3>1. g \in CleanerType
      BY CleanerFields, StepNames
    <3> QED
      BY <3>1 DEF CleanerType
  <2>3. cleaner' = g
    BY <1>1, <1>6, <2>1 DEF DeleteMailbox
  <2> QED
    BY <1>1, <1>2, <2>2, <2>3, CleanerStays
<1> QED
  BY <1>3, <1>4, <1>5, <1>6

LEMMA StillInUseGood ==
  ASSUME KInv, NEW step \in AppSteps, NEW rows, NEW then \in CleanerSteps,
         StillInUse(step, rows, then)
  PROVE  CleanerGood'
<1>1. PICK k \in CleanerType : k = cleaner
  BY DEF KInv, CleaningTypeOK
<1>2. cleaner.pc \in AppSteps /\ k.app \in AppIDs
  BY <1>1 DEF StillInUse, CleanerAt, KInv
<1>3. CASE CleanerGoto("next")
  BY <1>2, <1>3, CleanerGotoGood, StepNames
<1>4. CASE cleaner' = [k EXCEPT
             !.dead = IF then = "next" THEN k.dead \cup {k.app} ELSE k.dead,
             !.pc = then]
  <2>1. PICK as \in SUBSET AppIDs :
          as = IF then = "next" THEN k.dead \cup {k.app} ELSE k.dead
    BY <1>2 DEF CleanerType
  <2> DEFINE g == [k EXCEPT !.dead = as, !.pc = then]
  <2>2. g \in CleanerType /\ g.app = k.app
    <3>1. g \in CleanerType
      BY CleanerFields
    <3> QED
      BY <3>1 DEF CleanerType
  <2>3. cleaner' = g
    BY <1>4, <2>1
  <2> QED
    BY <1>1, <1>2, <2>2, <2>3, CleanerStays
<1> QED
  BY <1>1, <1>3, <1>4 DEF StillInUse

LEMMA DropAppGood ==
  ASSUME KInv, DropApp
  PROVE  CleanerGood'
<1>1. PICK k \in CleanerType : k = cleaner
  BY DEF KInv, CleaningTypeOK
<1>2. PICK as \in SUBSET AppIDs : cleaner' = [k EXCEPT !.dead = as]
  <2>1. PICK a : cleaner' = [k EXCEPT !.dead = k.dead \ {a}]
    BY <1>1 DEF DropApp
  <2>2. k.dead \ {a} \in SUBSET AppIDs
    BY DEF CleanerType
  <2> QED
    BY <2>1, <2>2
<1> DEFINE g == [k EXCEPT !.dead = as]
<1>3. k.pc \in CleanerSteps
  BY DEF CleanerType
<1>4. g \in CleanerType /\ g.app = k.app /\ g.pc = k.pc
  <2>1. g \in CleanerType
    BY <1>3, CleanerFields
  <2> QED
    BY <2>1 DEF CleanerType
<1> QED
  BY <1>1, <1>2, <1>4, CleanerStays

LEMMA CleanerTyped ==
  ASSUME KInv, MInv, CleanerStep
  PROVE  CleanerGood'
<1>1. CASE GetAllApps
  BY <1>1, ListAppsGood, ListsTyped, StepNames DEF GetAllApps
<1>2. CASE StillInUse("use_mb", mailboxes, "use_np")
  BY <1>2, StillInUseGood, StepNames
<1>3. CASE StillInUse("use_np", nameplates, "next")
  BY <1>3, StillInUseGood, StepNames
<1>4. CASE CleanAppsReturns \/ CleanAppsFails
  BY <1>4, RestingGood DEF CleanAppsReturns, CleanAppsFails, EndSweep
<1> QED
  BY <1>1, <1>2, <1>3, <1>4, TakeTickGood, NextAppGood, GotosGood, TouchGood,
     ListsGood, DeletesGood, DropAppGood DEF CleanerStep

LEMMA TypedInit == CleaningInit => KInv
<1> SUFFICES ASSUME CleaningInit PROVE KInv
  OBVIOUS
<1>1. now = 0
  BY DEF CleaningInit, Init, StoreInit
<1>2. CleanerType' = CleanerType
  BY DEF CleanerType
<1>3. cleaner \in CleanerType /\ cleaner.pc \notin AppSteps
  BY DEF CleaningInit, CleanerType, Resting, CleanerSteps, CleanerDBSteps,
     AppSteps, OldSteps, NameSteps, BoxSteps, UseSteps
<1>4. /\ lastCleaning = now - CleaningInterval /\ ticks = <<>>
      /\ nextTick = now + CleaningInterval /\ lingering = {}
  BY DEF CleaningInit
<1>5. lastCleaning \in Int /\ nextTick \in Nat
  BY <1>1, <1>4, CleaningAssumption
<1> QED
  BY <1>3, <1>4, <1>5 DEF KInv, CleaningTypeOK

\* No handler moves the clock.
LEMMA ClockKept ==
  ASSUME NEW c \in Conns, Handler(c)
  PROVE  now' = now
<1>1. CASE ApplicationStep(c)
  BY <1>1
  DEF ApplicationStep, AllocateOrClaimStep, OpenStep, ReleaseStep,
      MessageOrCloseStep, StatementFails, FindNameplate, ClaimSelect,
      ClaimInsertNameplate, ClaimSelectSide, ClaimInsertSide, ClaimCount,
      AddMailboxCount, AddMailboxInsert, MapGet, MapPut, OpenSelectSide,
      OpenInsertSide, OpenTouch, OpenCount, ReleaseSelect, ReleaseSelectSide,
      ReleaseUpdate, ReleaseCount, ReleaseDeleteSides, ReleaseDelete,
      AddInsert, AddBroadcast, AddTouch, CloseSelect, store
<1>2. CASE Begins(c)
  BY <1>2
  DEF Begins, HandleBind, HandleAllocate, HandleClaim, HandleRelease,
      HandleOpen, HandleAdd, HandleClose, Begin, store
<1>3. CASE Ends(c)
  BY <1>3
  DEF Ends, GetAppInsert, Allocated, Claimed, Released, Opened, Added,
      Reopened, Closed, Finish, store
<1> QED
  BY <1>1, <1>2, <1>3 DEF Handler, Disconnect, store

LEMMA TypedNext == MInv /\ KInv /\ [CleaningNext]_cvars => KInv'
<1> SUFFICES ASSUME MInv, KInv, [CleaningNext]_cvars PROVE KInv'
  OBVIOUS
<1>1. now \in Nat
  BY DEF MInv, StoreTypeOK
<1>2. /\ lastCleaning \in Int /\ nextTick \in Nat /\ lingering \subseteq Conns
      /\ ticks = <<>> \/ \E t \in 0..now : ticks = <<t>>
      /\ cleaner.tick \in Nat /\ CleanerGood
  BY DEF KInv, CleaningTypeOK, CleanerType, CleanerGood
<1>3. CASE HandlerStep
  <2>1. lingering' \subseteq lingering /\ CleanerGood'
    BY <1>2, <1>3 DEF HandlerStep, CleanerGood
  <2>2. now' = now
    BY <1>3, ClockKept DEF HandlerStep, Handler
  <2> QED
    BY <1>2, <1>3, <2>1, <2>2 DEF HandlerStep, KInv, CleaningTypeOK, CleanerGood
<1>4. CASE CleanerStep
  <2>1. CleanerGood'
    BY <1>4, CleanerTyped
  <2>2. lingering' = lingering /\ nextTick' = nextTick /\ now' = now
    BY <1>4
    DEF CleanerStep, TakeTick, GetAllApps, ListApps, NextApp,
       AllAppsSeen, TouchListened, AllTouched, ListOld, ListOldNames,
       DeleteNameplateSides, DeleteNameplate, NameplatesDeleted,
       DeleteMessages, DeleteMailboxSides, DeleteMailbox, MailboxesDeleted,
       StillInUse, DropApp, CleanAppsReturns, CleanAppsFails, EndSweep,
       Elsewhere, vars, store
  <2>3. lastCleaning' = lastCleaning \/ lastCleaning' = cleaner.tick
    BY <1>4
    DEF CleanerStep, TakeTick, GetAllApps, ListApps, NextApp,
       AllAppsSeen, TouchListened, AllTouched, ListOld, ListOldNames,
       DeleteNameplateSides, DeleteNameplate, NameplatesDeleted,
       DeleteMessages, DeleteMailboxSides, DeleteMailbox, MailboxesDeleted,
       StillInUse, DropApp, CleanAppsReturns, CleanAppsFails, EndSweep,
       Elsewhere
  <2>4. ticks' = ticks \/ ticks' = <<>>
    BY <1>4
    DEF CleanerStep, TakeTick, GetAllApps, ListApps, NextApp,
       AllAppsSeen, TouchListened, AllTouched, ListOld, ListOldNames,
       DeleteNameplateSides, DeleteNameplate, NameplatesDeleted,
       DeleteMessages, DeleteMailboxSides, DeleteMailbox, MailboxesDeleted,
       StillInUse, DropApp, CleanAppsReturns, CleanAppsFails, EndSweep,
       Elsewhere
  <2>5. lastCleaning' \in Int
    BY <1>2, <2>3
  <2> QED
    BY <1>2, <2>1, <2>2, <2>4, <2>5 DEF KInv, CleaningTypeOK, CleanerGood
<1>5. CASE PassTime
  <2>1. now' = now + 1 /\ lingering' = Running /\ UNCHANGED <<cleaner, lastCleaning>>
    BY <1>5 DEF PassTime
  <2>2. nextTick' = nextTick \/ nextTick' = nextTick + CleaningInterval
    BY <1>5 DEF PassTime
  <2>3. ticks' = ticks \/ ticks' = <<now'>>
    BY <1>5 DEF PassTime
  <2>4. nextTick' \in Nat
    BY <1>2, <2>2, CleaningAssumption
  <2>5. ticks' = <<>> \/ \E t \in 0..now' : ticks' = <<t>>
    BY <1>1, <1>2, <2>1, <2>3
  <2> QED
    BY <1>2, <2>1, <2>4, <2>5 DEF KInv, CleaningTypeOK, CleanerGood, Running
<1>6. CASE Reboot
  <2>1. CleanerGood'
    BY <1>6, RestingGood DEF Reboot
  <2>2. now' = now
    BY <1>6 DEF Reboot, Restart, store
  <2>3. /\ lastCleaning' = now - CleaningInterval /\ ticks' = <<>>
        /\ nextTick' = now + CleaningInterval /\ lingering' = {}
    BY <1>6 DEF Reboot
  <2>4. lastCleaning' \in Int /\ nextTick' \in Nat
    BY <1>1, <2>3, CleaningAssumption
  <2> QED
    BY <2>1, <2>3, <2>4 DEF KInv, CleaningTypeOK, CleanerGood
<1>7. CASE UNCHANGED cvars
  BY <1>7 DEF cvars, cleaning, vars, store, KInv, CleaningTypeOK
<1> QED
  BY <1>3, <1>4, <1>5, <1>6, <1>7 DEF CleaningNext

-----------------------------------------------------------------------------
(* The theorems. *)

\* Type correctness of the tables, of the relay's memory and of the cleaner's
\* locals: what a handler or CleanApps reads of a map or a table while rows
\* are deleted and applications are dropped from Service.Apps is what its
\* next statement expects.
THEOREM SweepTypes == CleaningSpec => [](TypeOK /\ CleaningTypeOK)
<1>1. MInv => TypeOK
  BY DEF MInv, FramesGood, ClientsGood, MapsGood, ListenersGood, HistoryGood,
     TypeOK, ApplicationTypeOK
<1>2. KInv => CleaningTypeOK
  BY DEF KInv
<1> QED
  BY <1>1, <1>2, MemoryInit, MemoryNext, TypedInit, TypedNext, PTL
  DEF CleaningSpec

\* DeliveryIsolation, beside the cleaner: CleanApps deletes an application
\* from Service.Apps while clients are bound to it, the next Bind makes
\* another of the same id, and no message ever crosses to a connection of
\* another application, or to one that OpenMailbox did not let in.
THEOREM SweptIsolation == CleaningSpec => []DeliveryIsolation
<1>1. MInv => DeliveryIsolation
  BY DEF MInv, HistoryGood
<1> QED
  BY <1>1, MemoryInit, MemoryNext, PTL DEF CleaningSpec

=============================================================================
