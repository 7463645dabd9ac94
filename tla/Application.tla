---------------------------- MODULE Application ----------------------------
(***************************************************************************)
(* relay/application.go and the database half of relay/mailbox.go: what a  *)
(* client's handler runs on behalf of its connection.                      *)
(*                                                                         *)
(* Handlers of different connections run in goroutines of their own with   *)
(* no lock between them, so every SQL statement and every access to a Go   *)
(* map is a step.  `frame[c]` holds the locals of the handler that c's     *)
(* reader runs, `pc` the statement it is about to run: "idle" between      *)
(* messages, "ok" when the application's method returned without an error  *)
(* and the rest of the handler (module Rendezvous) is next.  A method that *)
(* returns an error ends the handler, whose client is told so: back to     *)
(* "idle".                                                                 *)
(*                                                                         *)
(* An Application value is copied freely, and its Mailboxes map shared by  *)
(* the copies; the map is named by the connection whose Bind made it.  A   *)
(* Mailbox object is named by its id and the connection whose OpenMailbox  *)
(* made it: with the unlocked maps there can be several for one id.        *)
(***************************************************************************)
EXTENDS RelayStore

CONSTANTS
  AllocNames,    \* the names FindNameplate tries, "1" to "999" in the code
  FaultySteps,   \* the statements that may fail (disk full, SQLITE_BUSY, ...)
  MaxNameplates  \* a bound on the rows ever inserted into nameplates

\* The steps that are a statement to the database.
DBSteps ==
  { "find", "np_select", "mb_count", "mb_insert", "np_insert", "nps_select",
    "nps_insert", "mbs_select", "mbs_insert", "touch", "mbs_count",
    "nps_count", "rel_np", "rel_side", "rel_update", "rel_count",
    "rel_delsides", "rel_delnp", "close_select", "add_insert", "add_touch" }

Steps == DBSteps \cup
  {"idle", "ok", "apps_put", "map_get", "map_put", "broadcast"}

Commands ==
  {"bind", "allocate", "claim", "release", "open", "add", "close", "reopen"}

BoxRefs == [id : MailboxIDs, by : Conns]

ASSUME ApplicationAssumption ==
  /\ AllocNames \subseteq Names
  /\ FaultySteps \subseteq DBSteps
  /\ MaxNameplates \in Nat
  /\ None \notin BoxRefs

VARIABLES
  apps,       \* Service.Apps: the connection that made the container
  sess,       \* the Client objects; no step of this module changes them
  boxOf,      \* the Mailboxes maps: boxOf[k][id] names the object's maker
  listeners,  \* [box, conn, handle] registered with a Mailbox object
  gone,       \* the connections that ended: their Client.conn is nil
  frame,      \* the running handler of each connection
  granted,    \* history: [mailbox, side, by] of each OpenMailbox that returned one
  received    \* history: [to, app, mailbox, msg] of each message handed over

application == <<apps, sess, boxOf, listeners, gone, frame, granted, received>>

Idle == [pc |-> "idle", cmd |-> "bind", then |-> "idle", app |-> None,
         home |-> None, side |-> None, name |-> None, np |-> 0,
         mailbox |-> None, box |-> None, msg |-> None]

FrameType ==
  [ pc : Steps, cmd : Commands, then : {"idle", "np_insert", "map_get"},
    app : AppIDs \cup {None}, home : Conns \cup {None},
    side : StoredSides \cup {None}, name : Names \cup {None}, np : Nat,
    mailbox : MailboxIDs \cup {None}, box : BoxRefs \cup {None},
    msg : Msgs \cup {None} ]

ApplicationTypeOK ==
  /\ boxOf \in [Conns -> [MailboxIDs -> Conns \cup {None}]]
  /\ listeners \subseteq [box : BoxRefs, conn : Conns, handle : 1..2]
  /\ gone \subseteq Conns
  /\ frame \in [Conns -> FrameType]
  /\ granted \subseteq [mailbox : MailboxIDs, side : StoredSides, by : Conns]
  /\ received \subseteq
       [to : Conns, app : AppIDs, mailbox : MailboxIDs, msg : Msgs]

NoBoxes == [k \in Conns |-> [id \in MailboxIDs |-> None]]

ApplicationInit ==
  /\ boxOf = NoBoxes
  /\ listeners = {}
  /\ gone = {}
  /\ frame = [c \in Conns |-> Idle]
  /\ granted = {}
  /\ received = {}

-----------------------------------------------------------------------------
(* How a handler moves on. *)

At(c, step) == frame[c].pc = step

Move(c, f) == frame' = [frame EXCEPT ![c] = f]

Goto(c, step) == Move(c, [frame[c] EXCEPT !.pc = step])

\* The method returns an error: the handler replies with it and ends.
Fail(c) == Move(c, Idle)

Memory == <<apps, sess, boxOf, listeners, gone>>
History == <<granted, received>>

\* Mutant of Crowded: a fourth row is the first to be refused.
CrowdedByFour(rows) == Cardinality(rows) > 3

\* Both COUNT checks refuse a third row.
Crowded(rows) == Cardinality(rows) > 2

-----------------------------------------------------------------------------
(* AllocateNameplate and FindNameplate. *)

NamesTaken(app) == {r.name : r \in {q \in nameplates : q.app = app}}

FindNameplate(c) ==
  LET f == frame[c] IN
  /\ At(c, "find")
  /\ \E n \in AllocNames \ NamesTaken(f.app) :
       Move(c, [f EXCEPT !.name = n, !.pc = "np_select"])
  /\ UNCHANGED <<store, Memory, History>>

-----------------------------------------------------------------------------
(* AddMailbox, called with `then` as the place to go on at. *)

\* Mutant of AddMailboxCount: any application's mailbox of that id will do.
AddMailboxCountAnyApp(c) ==
  /\ At(c, "mb_count")
  /\ IF \E r \in mailboxes : r.id = frame[c].mailbox
       THEN Goto(c, frame[c].then)
       ELSE Goto(c, "mb_insert")
  /\ UNCHANGED <<store, Memory, History>>

AddMailboxCount(c) ==
  LET f == frame[c] IN
  /\ At(c, "mb_count")
  /\ IF MailboxRows(f.app, f.mailbox) # {} THEN Goto(c, f.then)
                                           ELSE Goto(c, "mb_insert")
  /\ UNCHANGED <<store, Memory, History>>

\* The primary key is the id alone: another application's row makes it fail.
AddMailboxInsert(c) ==
  LET f == frame[c] IN
  /\ At(c, "mb_insert")
  /\ IF \E r \in mailboxes : r.id = f.mailbox
       THEN Fail(c) /\ UNCHANGED mailboxes
       ELSE /\ mailboxes' = mailboxes \cup
                 {[id |-> f.mailbox, app |-> f.app, updated |-> now]}
            /\ Goto(c, f.then)
  /\ UNCHANGED <<mailboxSides, messages, nameplates, nameplateSides, npSeq,
                 now, Memory, History>>

-----------------------------------------------------------------------------
(* ClaimNameplate. *)

\* generateMailboxID: 64 random bits, so an id nobody uses yet.
FreshMailboxIDs ==
  MailboxIDs \ ({r.id : r \in mailboxes} \cup {frame[c].mailbox : c \in Conns})

\* Mutant of ClaimSelect: the nameplate is inserted, and AddMailbox not called.
ClaimSelectNoMailbox(c) ==
  LET f == frame[c]
      rows == NameplateRows(f.app, f.name)
  IN
  /\ At(c, "np_select")
  /\ \/ \E r \in FirstNameplate(rows) :
          Move(c, [f EXCEPT !.np = r.id, !.mailbox = r.mailbox,
                            !.pc = "nps_select"])
     \/ /\ rows = {}
        /\ \E id \in FreshMailboxIDs :
             Move(c, [f EXCEPT !.mailbox = id, !.pc = "np_insert"])
  /\ UNCHANGED <<store, Memory, History>>

ClaimSelect(c) ==
  LET f == frame[c]
      rows == NameplateRows(f.app, f.name)
  IN
  /\ At(c, "np_select")
  /\ \/ \E r \in FirstNameplate(rows) :
          Move(c, [f EXCEPT !.np = r.id, !.mailbox = r.mailbox,
                            !.pc = "nps_select"])
     \/ /\ rows = {}
        /\ \E id \in FreshMailboxIDs :
             Move(c, [f EXCEPT !.mailbox = id, !.then = "np_insert",
                               !.pc = "mb_count"])
  /\ UNCHANGED <<store, Memory, History>>

\* Mutant of ClaimInsertNameplate: without AUTOINCREMENT the id is one more
\* than the largest in the table.
ClaimInsertNameplateReusingIds(c) ==
  LET f == frame[c]
      id == CHOOSE n \in 1..MaxNameplates :
              /\ \A r \in nameplates : r.id < n
              /\ n = 1 \/ \E r \in nameplates : r.id = n - 1
  IN
  /\ At(c, "np_insert")
  /\ npSeq < MaxNameplates
  /\ npSeq' = npSeq + 1
  /\ nameplates' = nameplates \cup {[id |-> id, app |-> f.app,
                                     name |-> f.name, mailbox |-> f.mailbox]}
  /\ Move(c, [f EXCEPT !.np = id, !.pc = "nps_select"])
  /\ UNCHANGED <<mailboxes, mailboxSides, messages, nameplateSides, now,
                 Memory, History>>

ClaimInsertNameplate(c) ==
  LET f == frame[c] IN
  /\ At(c, "np_insert")
  /\ npSeq < MaxNameplates
  /\ npSeq' = npSeq + 1
  /\ nameplates' = nameplates \cup {[id |-> npSeq + 1, app |-> f.app,
                                     name |-> f.name, mailbox |-> f.mailbox]}
  /\ Move(c, [f EXCEPT !.np = npSeq + 1, !.pc = "nps_select"])
  /\ UNCHANGED <<mailboxes, mailboxSides, messages, nameplateSides, now,
                 Memory, History>>

\* A row that exists is never claimed anew, only refused or passed over.
\* Of several rows the index yields the oldest; here it may be any of them.
ClaimSelectSide(c) ==
  LET f == frame[c]
      rows == {r \in NameplateSideRows(f.np) : r.side = f.side}
  IN
  /\ At(c, "nps_select")
  /\ \/ rows = {} /\ Goto(c, "nps_insert")
     \/ \E r \in rows : r.claimed /\ Fail(c)
     \/ /\ \E r \in rows : ~r.claimed
        /\ Move(c, [f EXCEPT !.then = "map_get", !.pc = "mb_count"])
  /\ UNCHANGED <<store, Memory, History>>

ClaimInsertSide(c) ==
  LET f == frame[c] IN
  /\ At(c, "nps_insert")
  /\ nameplateSides' = nameplateSides \cup
       {[np |-> f.np, side |-> f.side, claimed |-> TRUE, by |-> c]}
  /\ Move(c, [f EXCEPT !.then = "map_get", !.pc = "mb_count"])
  /\ UNCHANGED <<mailboxes, mailboxSides, messages, nameplates, npSeq, now,
                 Memory, History>>

ClaimCount(c) ==
  /\ At(c, "nps_count")
  /\ IF Crowded(NameplateSideRows(frame[c].np)) THEN Fail(c) ELSE Goto(c, "ok")
  /\ UNCHANGED <<store, Memory, History>>

-----------------------------------------------------------------------------
(* OpenMailbox, after AddMailbox, with Mailbox.Open. *)

\* mbox, has := a.Mailboxes[id]
MapGet(c) ==
  LET f == frame[c]
      k == boxOf[f.home][f.mailbox]
  IN
  /\ At(c, "map_get")
  /\ IF k = None
       THEN Goto(c, "map_put")
       ELSE Move(c, [f EXCEPT !.box = [id |-> f.mailbox, by |-> k],
                              !.pc = "mbs_select"])
  /\ UNCHANGED <<store, Memory, History>>

\* a.Mailboxes[id] = mbox, whatever another goroutine put there since.
MapPut(c) ==
  LET f == frame[c] IN
  /\ At(c, "map_put")
  /\ boxOf' = [boxOf EXCEPT ![f.home][f.mailbox] = c]
  /\ Move(c, [f EXCEPT !.box = [id |-> f.mailbox, by |-> c],
                       !.pc = "mbs_select"])
  /\ UNCHANGED <<store, apps, sess, listeners, gone, History>>

\* Mutant of OpenSelectSide: ErrNoRows is passed over like any other error.
OpenSelectSideNoRow(c) ==
  /\ At(c, "mbs_select")
  /\ Goto(c, "touch")
  /\ UNCHANGED <<store, Memory, History>>

\* A row that is found fails to scan (mood is NULL); like every error of
\* this statement but ErrNoRows, that is passed over.
OpenSelectSide(c) ==
  LET f == frame[c] IN
  /\ At(c, "mbs_select")
  /\ \/ /\ \E r \in MailboxSideRows(f.box.id) : r.side = f.side
        /\ Goto(c, "touch")
     \/ /\ \A r \in MailboxSideRows(f.box.id) : r.side # f.side
        /\ Goto(c, "mbs_insert")
     \/ /\ "mbs_select" \in FaultySteps
        /\ Goto(c, "touch")
  /\ UNCHANGED <<store, Memory, History>>

OpenInsertSide(c) ==
  LET f == frame[c] IN
  /\ At(c, "mbs_insert")
  /\ mailboxSides' = mailboxSides \cup
       {[mailbox |-> f.box.id, side |-> f.side, by |-> c]}
  /\ Goto(c, "touch")
  /\ UNCHANGED <<mailboxes, messages, nameplates, nameplateSides, npSeq, now,
                 Memory, History>>

OpenTouch(c) ==
  /\ At(c, "touch")
  /\ mailboxes' = Touched(frame[c].box.id)
  /\ Goto(c, "mbs_count")
  /\ UNCHANGED <<mailboxSides, messages, nameplates, nameplateSides, npSeq,
                 now, Memory, History>>

\* The COUNT that decides; ClaimNameplate has one more of its own to pass.
OpenCount(c) ==
  LET f == frame[c] IN
  /\ At(c, "mbs_count")
  /\ IF Crowded(MailboxSideRows(f.mailbox))
       THEN Fail(c) /\ UNCHANGED granted
       ELSE /\ granted' = granted \cup
                 {[mailbox |-> f.mailbox, side |-> f.side, by |-> c]}
            /\ Goto(c, IF f.cmd \in {"allocate", "claim"} THEN "nps_count"
                                                          ELSE "ok")
  /\ UNCHANGED <<store, Memory, received>>

-----------------------------------------------------------------------------
(* ReleaseNameplate. *)

ReleaseSelect(c) ==
  LET f == frame[c]
      rows == NameplateRows(f.app, f.name)
  IN
  /\ At(c, "rel_np")
  /\ \/ rows = {} /\ Goto(c, "ok")
     \/ \E r \in FirstNameplate(rows) :
          Move(c, [f EXCEPT !.np = r.id, !.pc = "rel_side"])
  /\ UNCHANGED <<store, Memory, History>>

ReleaseSelectSide(c) ==
  LET f == frame[c] IN
  /\ At(c, "rel_side")
  /\ IF \E r \in NameplateSideRows(f.np) : r.side = f.side
       THEN Goto(c, "rel_update")
       ELSE Goto(c, "ok")
  /\ UNCHANGED <<store, Memory, History>>

ReleaseUpdate(c) ==
  LET f == frame[c] IN
  /\ At(c, "rel_update")
  /\ nameplateSides' =
       { IF r.np = f.np /\ r.side = f.side THEN [r EXCEPT !.claimed = FALSE]
                                           ELSE r : r \in nameplateSides }
  /\ Goto(c, "rel_count")
  /\ UNCHANGED <<mailboxes, mailboxSides, messages, nameplates, npSeq, now,
                 Memory, History>>

ReleaseCount(c) ==
  /\ At(c, "rel_count")
  /\ IF \E r \in NameplateSideRows(frame[c].np) : r.claimed
       THEN Goto(c, "ok")
       ELSE Goto(c, "rel_delsides")
  /\ UNCHANGED <<store, Memory, History>>

ReleaseDeleteSides(c) ==
  /\ At(c, "rel_delsides")
  /\ nameplateSides' = {r \in nameplateSides : r.np # frame[c].np}
  /\ Goto(c, "rel_delnp")
  /\ UNCHANGED <<mailboxes, mailboxSides, messages, nameplates, npSeq, now,
                 Memory, History>>

ReleaseDelete(c) ==
  /\ At(c, "rel_delnp")
  /\ nameplates' = {r \in nameplates : r.id # frame[c].np}
  /\ Goto(c, "ok")
  /\ UNCHANGED <<mailboxes, mailboxSides, messages, nameplateSides, npSeq,
                 now, Memory, History>>

-----------------------------------------------------------------------------
(* Mailbox.AddMessage: INSERT, broadcast under the mailbox's lock, Touch. *)

\* Mutant of AddInsert: a failed INSERT is passed over.
AddInsertPassedOver(c) ==
  LET f == frame[c] IN
  /\ At(c, "add_insert")
  /\ \/ messages' = messages \cup {[app |-> f.app, mailbox |-> f.box.id,
                                    side |-> f.side, msg |-> f.msg]}
     \/ "add_insert" \in FaultySteps /\ UNCHANGED messages
  /\ Goto(c, "broadcast")
  /\ UNCHANGED <<mailboxes, mailboxSides, nameplates, nameplateSides, npSeq,
                 now, Memory, History>>

AddInsert(c) ==
  LET f == frame[c] IN
  /\ At(c, "add_insert")
  /\ messages' = messages \cup {[app |-> f.app, mailbox |-> f.box.id,
                                 side |-> f.side, msg |-> f.msg]}
  /\ Goto(c, "broadcast")
  /\ UNCHANGED <<mailboxes, mailboxSides, nameplates, nameplateSides, npSeq,
                 now, Memory, History>>

\* Mutant of AddBroadcast: one set of listeners for the whole service.
AddBroadcastToAll(c) ==
  LET f == frame[c] IN
  /\ At(c, "broadcast")
  /\ received' = received \cup
       { [to |-> l.conn, app |-> f.app, mailbox |-> f.box.id, msg |-> f.msg] :
         l \in {m \in listeners : m.conn \notin gone} }
  /\ Goto(c, "add_touch")
  /\ UNCHANGED <<store, Memory, granted>>

\* A listener whose connection is closed returns at once.
AddBroadcast(c) ==
  LET f == frame[c] IN
  /\ At(c, "broadcast")
  /\ received' = received \cup
       { [to |-> l.conn, app |-> f.app, mailbox |-> f.box.id, msg |-> f.msg] :
         l \in {m \in listeners : m.box = f.box /\ m.conn \notin gone} }
  /\ Goto(c, "add_touch")
  /\ UNCHANGED <<store, Memory, granted>>

AddTouch(c) ==
  /\ At(c, "add_touch")
  /\ mailboxes' = Touched(frame[c].box.id)
  /\ Goto(c, "ok")
  /\ UNCHANGED <<mailboxSides, messages, nameplates, nameplateSides, npSeq,
                 now, Memory, History>>

-----------------------------------------------------------------------------
(* Mailbox.Close. *)

\* SELECT * FROM mailboxes WHERE app_id=$2 AND id=$1, with arguments id, app:
\* with no row Close returns nil, and a row, of four columns, fails to scan
\* into two variables.  The statements below it are never reached.
CloseSelect(c) ==
  LET f == frame[c] IN
  /\ At(c, "close_select")
  /\ IF RowsToClose(f.app, f.box.id) = {} THEN Goto(c, "ok") ELSE Fail(c)
  /\ UNCHANGED <<store, Memory, History>>

-----------------------------------------------------------------------------

\* A statement fails and the method passes its error up.
StatementFails(c) ==
  /\ frame[c].pc \in FaultySteps \ {"mbs_select"}
  /\ Fail(c)
  /\ UNCHANGED <<store, Memory, History>>

AllocateOrClaimStep(c) ==
  \/ FindNameplate(c)
  \/ ClaimSelect(c)
  \/ ClaimInsertNameplate(c)
  \/ ClaimSelectSide(c)
  \/ ClaimInsertSide(c)
  \/ ClaimCount(c)

OpenStep(c) ==
  \/ AddMailboxCount(c)
  \/ AddMailboxInsert(c)
  \/ MapGet(c)
  \/ MapPut(c)
  \/ OpenSelectSide(c)
  \/ OpenInsertSide(c)
  \/ OpenTouch(c)
  \/ OpenCount(c)

ReleaseStep(c) ==
  \/ ReleaseSelect(c)
  \/ ReleaseSelectSide(c)
  \/ ReleaseUpdate(c)
  \/ ReleaseCount(c)
  \/ ReleaseDeleteSides(c)
  \/ ReleaseDelete(c)

MessageOrCloseStep(c) ==
  \/ AddInsert(c)
  \/ AddBroadcast(c)
  \/ AddTouch(c)
  \/ CloseSelect(c)

ApplicationStep(c) ==
  \/ AllocateOrClaimStep(c)
  \/ OpenStep(c)
  \/ ReleaseStep(c)
  \/ MessageOrCloseStep(c)
  \/ StatementFails(c)

=============================================================================
