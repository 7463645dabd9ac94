----------------------------- MODULE Rendezvous -----------------------------
(***************************************************************************)
(* The client's handlers, relay/client.go: HandleBind to HandleClose, the  *)
(* end of a connection, and a crash of the process.  Each handler checks   *)
(* the connection's own fields, calls the application (module Application) *)
(* and, when that returns "ok", ends with the fields it sets.              *)
(*                                                                         *)
(* `sess[c]` is the Client object.  A connection handles one message at a  *)
(* time.  A message that a handler refuses on those fields alone changes   *)
(* nothing and is not a step.  Replies are not modelled; the send buffer   *)
(* and the threads around it are module MailboxHub.                        *)
(***************************************************************************)
EXTENDS Application

CONSTANT Sent  \* the commands clients send ("reopen": close with none open)

ASSUME RendezvousAssumption == Sent \subseteq Commands

vars == <<store, application>>

\* Client.Listening is left out: nothing ever sets it to true.
\* `handle` counts this connection's AddListener calls; it stands for
\* listenerHandle, which is 0 until the first.
SessType ==
  [ app : AppIDs \cup {None}, side : Sides \cup {None},
    home : Conns \cup {None}, nameplate : Names \cup {None},
    mailbox : BoxRefs \cup {None}, handle : 0..2,
    allocated : BOOLEAN, claimed : BOOLEAN, released : BOOLEAN,
    closed : BOOLEAN ]

NewClient ==
  [app |-> None, side |-> None, home |-> None, nameplate |-> None,
   mailbox |-> None, handle |-> 0, allocated |-> FALSE, claimed |-> FALSE,
   released |-> FALSE, closed |-> FALSE]

TypeOK ==
  /\ StoreTypeOK
  /\ ApplicationTypeOK
  /\ apps \in [AppIDs -> Conns \cup {None}]
  /\ sess \in [Conns -> SessType]

Init ==
  /\ StoreInit
  /\ ApplicationInit
  /\ apps = [a \in AppIDs |-> None]
  /\ sess = [c \in Conns |-> NewClient]

-----------------------------------------------------------------------------
(* HandleBind and GetApp: a map lookup, and an insertion of its own.       *)

IsBound(c) == sess[c].home # None

\* The reader takes the next message: the last one's handler has ended.
Ready(c) == At(c, "idle") /\ c \notin gone

BindTo(c, a, s, k) ==
  sess' = [sess EXCEPT ![c].app = a, ![c].side = s, ![c].home = k]

\* Mutant of HandleBind: a connection may bind again, to another application.
HandleBindAgain(c) ==
  /\ "bind" \in Sent
  /\ Ready(c)
  /\ \E a \in AppIDs, s \in Sides :
       \/ /\ apps[a] # None
          /\ BindTo(c, a, s, apps[a])
          /\ UNCHANGED frame
       \/ /\ apps[a] = None
          /\ Move(c, [Idle EXCEPT !.pc = "apps_put", !.app = a, !.side = s])
          /\ UNCHANGED sess
  /\ UNCHANGED <<store, boxOf, listeners, gone, History, apps>>

HandleBind(c) ==
  /\ "bind" \in Sent
  /\ Ready(c) /\ ~IsBound(c)
  /\ \E a \in AppIDs, s \in Sides :
       \/ /\ apps[a] # None
          /\ BindTo(c, a, s, apps[a])
          /\ UNCHANGED frame
       \/ /\ apps[a] = None
          /\ Move(c, [Idle EXCEPT !.pc = "apps_put", !.app = a, !.side = s])
          /\ UNCHANGED sess
  /\ UNCHANGED <<store, boxOf, listeners, gone, History, apps>>

GetAppInsert(c) ==
  LET f == frame[c] IN
  /\ At(c, "apps_put")
  /\ apps' = [apps EXCEPT ![f.app] = c]
  /\ BindTo(c, f.app, f.side, c)
  /\ Fail(c)
  /\ UNCHANGED <<store, boxOf, listeners, gone, History>>

-----------------------------------------------------------------------------
(* The beginning of each handler. *)

\* The call's frame: the application and the Side of the client, and pc.
CallFrame(c, cmd, step) ==
  [Idle EXCEPT !.pc = step, !.cmd = cmd, !.app = sess[c].app,
               !.home = sess[c].home, !.side = sess[c].side,
               !.then = "map_get"]

Begin(c, f) ==
  /\ f.cmd \in Sent
  /\ Ready(c) /\ IsBound(c)
  /\ Move(c, f)
  /\ UNCHANGED <<store, Memory, History>>

HandleAllocate(c) ==
  /\ ~sess[c].allocated
  /\ Begin(c, CallFrame(c, "allocate", "find"))

\* ClaimNameplate(m.Nameplate, m.Nameplate): the name is passed as the side.
HandleClaim(c) ==
  /\ ~sess[c].claimed
  /\ \E n \in Names :
       Begin(c, [CallFrame(c, "claim", "np_select")
                   EXCEPT !.name = n, !.side = n])

HandleRelease(c) ==
  /\ ~sess[c].released /\ sess[c].nameplate # None
  /\ Begin(c, [CallFrame(c, "release", "rel_np")
                 EXCEPT !.name = sess[c].nameplate])

\* Mutant of HandleOpen: a second mailbox may be opened.
HandleOpenAgain(c) ==
  \E id \in MailboxIDs :
    Begin(c, [CallFrame(c, "open", "mb_count") EXCEPT !.mailbox = id])

HandleOpen(c) ==
  /\ sess[c].mailbox = None
  /\ \E id \in MailboxIDs :
       Begin(c, [CallFrame(c, "open", "mb_count") EXCEPT !.mailbox = id])

HandleAdd(c) ==
  /\ sess[c].mailbox # None
  /\ \E m \in Msgs :
       Begin(c, [CallFrame(c, "add", "add_insert")
                   EXCEPT !.box = sess[c].mailbox, !.msg = m])

\* Without an open mailbox the one named in the message is opened first.
HandleClose(c) ==
  /\ ~sess[c].closed
  /\ \/ /\ sess[c].mailbox # None
        /\ Begin(c, [CallFrame(c, "close", "close_select")
                       EXCEPT !.box = sess[c].mailbox])
     \/ /\ sess[c].mailbox = None
        /\ \E id \in MailboxIDs :
             Begin(c, [CallFrame(c, "reopen", "mb_count")
                         EXCEPT !.mailbox = id])

-----------------------------------------------------------------------------
(* The end of each handler, after the application returned no error. *)

Finish(c, cmd) ==
  /\ At(c, "ok") /\ frame[c].cmd = cmd
  /\ Fail(c)
  /\ UNCHANGED <<store, boxOf, gone, History, apps>>

Allocated(c) ==
  /\ Finish(c, "allocate")
  /\ sess' = [sess EXCEPT ![c].allocated = TRUE]
  /\ UNCHANGED listeners

Claimed(c) ==
  /\ Finish(c, "claim")
  /\ sess' = [sess EXCEPT ![c].claimed = TRUE,
                          ![c].nameplate = frame[c].name]
  /\ UNCHANGED listeners

Released(c) ==
  /\ Finish(c, "release")
  /\ sess' = [sess EXCEPT ![c].released = TRUE]
  /\ UNCHANGED listeners

\* c.Mailbox = mbox, and AddListener.
Opened(c) ==
  LET handle == sess[c].handle + 1 IN
  /\ Finish(c, "open")
  /\ sess' = [sess EXCEPT ![c].mailbox = frame[c].box, ![c].handle = handle]
  /\ listeners' = listeners \cup
       {[box |-> frame[c].box, conn |-> c, handle |-> handle]}

Added(c) ==
  /\ Finish(c, "add")
  /\ UNCHANGED <<listeners, sess>>

\* HandleClose goes on with the mailbox it had to open.
Reopened(c) ==
  /\ At(c, "ok") /\ frame[c].cmd = "reopen"
  /\ sess' = [sess EXCEPT ![c].mailbox = frame[c].box]
  /\ Move(c, [frame[c] EXCEPT !.cmd = "close", !.pc = "close_select"])
  /\ UNCHANGED <<store, boxOf, listeners, gone, History, apps>>

\* Listening is false, so the listener stays where it is registered.
Closed(c) ==
  /\ Finish(c, "close")
  /\ sess' = [sess EXCEPT ![c].mailbox = None, ![c].closed = TRUE]
  /\ UNCHANGED listeners

-----------------------------------------------------------------------------
(* The connection ends between two messages: Client.Close. *)

\* Nothing uses the Client object any more; what it was bound to is kept
\* for the properties.
Departed(c) == [NewClient EXCEPT !.app = sess[c].app]

Disconnect(c) ==
  /\ Ready(c) /\ IsBound(c)
  /\ gone' = gone \cup {c}
  /\ sess' = [sess EXCEPT ![c] = Departed(c)]
  /\ listeners' =
       IF sess[c].mailbox # None
         THEN listeners \ {[box |-> sess[c].mailbox, conn |-> c,
                            handle |-> sess[c].handle]}
         ELSE listeners
  /\ UNCHANGED <<store, boxOf, frame, History, apps>>

\* The process dies and comes back: the tables remain, memory does not, nor
\* does a connection.  Connections that sent nothing yet are those to come.
Restart ==
  /\ boxOf' = NoBoxes
  /\ listeners' = {}
  /\ frame' = [c \in Conns |-> Idle]
  /\ apps' = [a \in AppIDs |-> None]
  /\ LET Up == {c \in Conns : IsBound(c) \/ ~At(c, "idle")} IN
     /\ gone' = gone \cup Up
     /\ sess' = [c \in Conns |-> IF c \in Up THEN Departed(c) ELSE sess[c]]
  /\ UNCHANGED <<store, History>>

\* The host's power fails, or the process is killed, wherever it is.
Crash == (\E c \in Conns : IsBound(c)) /\ Restart

\* FindNameplate with no short name left: rand.Intn of a negative number
\* panics in the reader's goroutine and takes the process down.
AllocatePanics(c) ==
  /\ At(c, "find")
  /\ AllocNames \subseteq NamesTaken(frame[c].app)
  /\ Restart

-----------------------------------------------------------------------------

Begins(c) ==
  \/ HandleBind(c)
  \/ HandleAllocate(c)
  \/ HandleClaim(c)
  \/ HandleRelease(c)
  \/ HandleOpen(c)
  \/ HandleAdd(c)
  \/ HandleClose(c)

Ends(c) ==
  \/ GetAppInsert(c)
  \/ Allocated(c)
  \/ Claimed(c)
  \/ Released(c)
  \/ Opened(c)
  \/ Added(c)
  \/ Reopened(c)
  \/ Closed(c)

Next ==
  \/ \E c \in Conns :
       \/ Begins(c)
       \/ ApplicationStep(c)
       \/ Ends(c)
       \/ Disconnect(c)
       \/ AllocatePanics(c)
  \/ Crash

Spec == Init /\ [][Next]_vars

-----------------------------------------------------------------------------
(* Properties. *)

\* OpenMailbox inserts its row before it counts, so however many of them
\* interleave, and whichever fail or die on the way, no mailbox is ever
\* granted to three different sides.
MailboxCapacity ==
  \A g, h, k \in granted :
    g.mailbox = h.mailbox /\ h.mailbox = k.mailbox =>
      g.side = h.side \/ h.side = k.side \/ g.side = k.side

\* A message only ever reaches a connection of the application it was sent
\* in, and one that OpenMailbox let into the message's mailbox.
DeliveryIsolation ==
  \A d \in received :
    /\ sess[d.to].app = d.app
    /\ \E g \in granted : g.mailbox = d.mailbox /\ g.by = d.to

\* The foreign key the schema declares and SQLite does not enforce: the
\* mailbox of a nameplate exists, in the nameplate's own application, after
\* any failed claim and after a crash between any two statements.
NameplateHasMailbox ==
  \A r \in nameplates : MailboxRows(r.app, r.mailbox) # {}

\* A handler goes on with the id and the mailbox of the nameplate it found,
\* which a release or another claim may delete and make anew meanwhile.  As
\* the ids never come again, claims of one id open one mailbox, and an id
\* leads to the nameplate that was looked up or to none: nothing is claimed
\* for, or released of, another.
ClaimsAgree ==
  LET Claims(c) == frame[c].np # 0 /\ frame[c].cmd # "release" IN
  /\ \A c \in Conns, r \in nameplates : frame[c].np = r.id =>
       /\ r.app = frame[c].app /\ r.name = frame[c].name
       /\ Claims(c) => r.mailbox = frame[c].mailbox
  /\ \A c, d \in Conns :
       Claims(c) /\ Claims(d) /\ frame[c].np = frame[d].np =>
         frame[c].mailbox = frame[d].mailbox

\* What a Client object points to is in the database: the mailbox a client
\* holds has its row, under the client's own application.
HeldMailboxExists ==
  \A c \in Conns : sess[c].mailbox # None =>
    MailboxRows(sess[c].app, sess[c].mailbox.id) # {}

\* AddMessage stores before it broadcasts: what a client was handed is in
\* the messages table, also when the sender was told of a failure.
DeliveredIsStored ==
  \A d \in received :
    \E r \in messages :
      r.app = d.app /\ r.mailbox = d.mailbox /\ r.msg = d.msg

\* The handlers, statement by statement, are a MailboxService: the tables
\* say whose a mailbox is and which messages there are, the Client objects
\* whose a connection is, the histories who was let in and handed what.
Service == INSTANCE MailboxService WITH
  Clients <- Conns,
  Sides <- StoredSides,
  app <- [c \in Conns |-> sess[c].app],
  owned <- {[id |-> r.id, app |-> r.app] : r \in mailboxes},
  members <- granted,
  stored <- messages,
  delivered <- received

ServiceSpec == Service!Spec

-----------------------------------------------------------------------------
(* What comments in the code say, and the code does not do. *)

\* "Adding messages will also trigger broadcasts for any listners currently
\* on the service for the specified mailbox" (client.go:461-463).
AddReachesAllListeners ==
  [][\A c \in Conns :
       At(c, "broadcast") /\ frame'[c].pc = "add_touch" =>
         \A l \in listeners :
           /\ l.box.id = frame[c].box.id /\ l.conn \notin gone
           /\ sess[l.conn].app = frame[c].app
           => \E d \in received' : d.to = l.conn /\ d.msg = frame[c].msg
                                 /\ d.mailbox = frame[c].box.id]_vars

=============================================================================
