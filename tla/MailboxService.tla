--------------------------- MODULE MailboxService ---------------------------
(***************************************************************************)
(* What the rendezvous relay promises its clients, whatever its handlers   *)
(* do between two statements and whichever of them fail: a client belongs  *)
(* to one application for good; a mailbox belongs to one application and   *)
(* lets in clients of that application only, under at most two sides; a    *)
(* message comes from a client that was let into its mailbox, and is       *)
(* handed, once stored, to such clients alone.                             *)
(***************************************************************************)

CONSTANTS
  Clients,
  AppIDs,
  Sides,
  MailboxIDs,
  Msgs,
  None  \* of no application

VARIABLES
  app,       \* the application each client is bound to
  owned,     \* [id, app] of each mailbox
  members,   \* [mailbox, side, by] of each client let into one
  stored,    \* [app, mailbox, side, msg] of each message
  delivered  \* [to, app, mailbox, msg] of each message handed to a client

service == <<app, owned, members, stored, delivered>>

IsMember(c, id) == \E m \in members : m.mailbox = id /\ m.by = c

Init ==
  /\ app = [c \in Clients |-> None]
  /\ owned = {}
  /\ members = {}
  /\ stored = {}
  /\ delivered = {}

Bind(c, a) ==
  /\ app[c] = None
  /\ app' = [app EXCEPT ![c] = a]
  /\ UNCHANGED <<owned, members, stored, delivered>>

Create(c, id) ==
  /\ app[c] # None
  /\ \A o \in owned : o.id # id
  /\ owned' = owned \cup {[id |-> id, app |-> app[c]]}
  /\ UNCHANGED <<app, members, stored, delivered>>

Admit(c, id, side) ==
  /\ [id |-> id, app |-> app[c]] \in owned
  /\ \A m, n \in members :
       m.mailbox = id /\ n.mailbox = id =>
         m.side = n.side \/ n.side = side \/ m.side = side
  /\ members' = members \cup {[mailbox |-> id, side |-> side, by |-> c]}
  /\ UNCHANGED <<app, owned, stored, delivered>>

Store(c, id, side, msg) ==
  /\ [id |-> id, app |-> app[c]] \in owned
  /\ IsMember(c, id)
  /\ stored' = stored \cup {[app |-> app[c], mailbox |-> id,
                             side |-> side, msg |-> msg]}
  /\ UNCHANGED <<app, owned, members, delivered>>

Deliver(m, to) ==
  /\ m \in stored
  /\ \A c \in to : app[c] = m.app /\ IsMember(c, m.mailbox)
  /\ delivered' = delivered \cup
       { [to |-> c, app |-> m.app, mailbox |-> m.mailbox, msg |-> m.msg] :
         c \in to }
  /\ UNCHANGED <<app, owned, members, stored>>

Next ==
  \/ \E c \in Clients, a \in AppIDs : Bind(c, a)
  \/ \E c \in Clients, id \in MailboxIDs : Create(c, id)
  \/ \E c \in Clients, id \in MailboxIDs, side \in Sides : Admit(c, id, side)
  \/ \E c \in Clients, id \in MailboxIDs, side \in Sides, msg \in Msgs :
       Store(c, id, side, msg)
  \/ \E m \in stored, to \in SUBSET Clients : Deliver(m, to)

Spec == Init /\ [][Next]_service

=============================================================================
